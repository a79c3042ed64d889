-------------------------------- MODULE Node --------------------------------
(***************************************************************************)
(* The uptickd process.  Under "uptickd start" it decodes the messages     *)
(* that arrive (ProtoWire) and passes transactions through the ante        *)
(* handler (AnteHandler); under "uptickd export" it writes the chain's     *)
(* state out and exits (StateExport).  Decoding leaves nothing behind that *)
(* the handling of a transaction depends on but whether the message was    *)
(* accepted, so one message is decoded before the transactions come.       *)
(***************************************************************************)
EXTENDS ProtoWire, AnteHandler, StateExport

VARIABLE phase    \* "decoding", "serving" or "exporting"

vars == <<wireVars, anteVars, exportVars, phase>>

Init ==
    /\ AnteInit /\ ExportInit
    /\ \/ phase = "decoding" /\ WireInit
       \/ phase = "exporting" /\ NoBuffers

Decode == phase = "decoding" /\ WireNext /\ UNCHANGED <<anteVars, exportVars, phase>>

\* Unmarshal has returned.  A message it refused reaches no handler, one it
\* accepted is on its way, and the node goes on in both cases.
Decoded ==
    /\ phase = "decoding" /\ err # Running /\ (err = "nil" => sent # <<>>)
    /\ phase' = "serving" /\ DropBuffers
    /\ UNCHANGED <<anteVars, exportVars>>

HandleTx == phase = "serving" /\ AnteNext /\ UNCHANGED <<wireVars, exportVars, phase>>

ExportState == phase = "exporting" /\ ExportNext /\ UNCHANGED <<wireVars, anteVars, phase>>

\* A process that has exited for the last time.
Exited ==
    /\ phase = "exporting" /\ exports = MaxExports
    /\ step \in {"exit 0", "exit 1", "exit 3", "killed"}
    /\ UNCHANGED vars

Next == Decode \/ Decoded \/ HandleTx \/ ExportState \/ Exited

\* The goroutine that decodes a message runs until Unmarshal returns: it
\* waits for nothing.
Spec == Init /\ [][Next]_vars /\ WF_vars(Decode)
=============================================================================
