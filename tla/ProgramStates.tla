--------------------------- MODULE ProgramStates ---------------------------
(***************************************************************************)
(* The life cycle of a program and the pure functions over it              *)
(* (gigaevo/programs/program_state.py): which transitions are legal and    *)
(* how two versions of one program's state are merged.                     *)
(***************************************************************************)

States == {"QUEUED", "RUNNING", "DONE", "DISCARDED"}

TERMINAL_STATES == {"DISCARDED"}

VALID_TRANSITIONS ==
  [QUEUED    |-> {"RUNNING", "DISCARDED"},
   RUNNING   |-> {"DONE", "DISCARDED"},
   DONE      |-> {"QUEUED", "DISCARDED"},
   DISCARDED |-> {}]

IsValidTransition(current, new) ==
  current = new \/ new \in VALID_TRANSITIONS[current]

(* The merge is tried in the source's order: equal states, the incoming    *)
(* terminal state, the current terminal state, then the legal direction.   *)
(* The source's last branch, which raises, is out of reach: of any two     *)
(* states one may follow the other.                                        *)
MergeStates(current, incoming) ==
  IF incoming \in TERMINAL_STATES THEN incoming
  ELSE IF current \in TERMINAL_STATES THEN current
  ELSE IF IsValidTransition(current, incoming) THEN incoming ELSE current
=============================================================================
