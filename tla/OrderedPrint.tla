---------------------------- MODULE OrderedPrint ----------------------------
(***************************************************************************)
(* What a print promises, whatever happens on the wire: the printer        *)
(* executes the lines of the file in order from the starting offset, each  *)
(* once; what is reported as done never runs ahead of that and never goes  *)
(* back; the print finishes only when the whole file has been executed.    *)
(***************************************************************************)
EXTENDS Naturals, Sequences

CONSTANTS FileLen, Starts

VARIABLES
    start,   \* the offset the print starts from
    out,     \* the lines executed so far
    acked,   \* the offset reported as done
    end      \* "none" while the print goes on, then "finished" or "given up"

printVars == <<start, out, acked, end>>

Done == start + Len(out)

Init == /\ start \in Starts
        /\ out = <<>>
        /\ acked = start
        /\ end = "none"

\* Lines in flight when a print is given up may still be executed.
Execute == /\ end # "finished"
           /\ Done < FileLen
           /\ out' = Append(out, Done + 1)
           /\ UNCHANGED <<start, acked, end>>

Confirm == /\ end = "none"
           /\ acked' \in (acked + 1)..Done
           /\ UNCHANGED <<start, out, end>>

Finish == /\ end = "none"
          /\ Done = FileLen
          /\ acked' = FileLen
          /\ end' = "finished"
          /\ UNCHANGED <<start, out>>

GiveUp == /\ end = "none"
          /\ end' = "given up"
          /\ UNCHANGED <<start, out, acked>>

Next == Execute \/ Confirm \/ Finish \/ GiveUp

Spec == Init /\ [][Next]_printVars
=============================================================================
