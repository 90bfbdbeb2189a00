--------------------------- MODULE MCMountSession ---------------------------
(* Two attempts: one of the GUI and one of a command line at mount points of *)
(* their own, and two of the GUI at the same mount point.                    *)
EXTENDS MountSession

MCSetups ==
  { [gui |-> {"m1"}, at |-> [m \in Mounts |-> m],
      signalled |-> {"m1", "m2"}],
    [gui |-> {"m1", "m2"}, at |-> [m \in Mounts |-> "m1"],
      signalled |-> {}] }
=============================================================================
