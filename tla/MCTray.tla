------------------------------- MODULE MCTray -------------------------------
(* Three publishes, so that a state can change and come back between two    *)
(* polls, and two clicks on top of them.  For the window, two stores with a *)
(* subject in common, two certificates of one subject, and a thumbprint     *)
(* that is in neither store.                                                *)
EXTENDS Desktop

MCStored == {[store |-> "Machine", subject |-> "s1", print |-> "t1"],
             [store |-> "Machine", subject |-> "s1", print |-> "t2"],
             [store |-> "User", subject |-> "s1", print |-> "t3"]}

MCPublished == {[subject |-> "", print |-> ""], [subject |-> "s1", print |-> "t1"],
                [subject |-> "s1", print |-> "t3"], [subject |-> "s1", print |-> "t4"]}
=============================================================================
