---------------------------- MODULE StateExport ----------------------------
(***************************************************************************)
(* uptickd export: the preparation of a zero-height genesis, the modules'  *)
(* genesis with its bank metadata made valid, and the sidecar report that  *)
(* says what the genesis could not represent, up to the exit code.         *)
(*                                                                         *)
(* The export works on a context that is never committed.  What outlives a *)
(* run is the report file in the node's home, where the next run, of the   *)
(* same or of another height, finds it.  A step is a call that can fail;   *)
(* the process may be killed, or the machine lose power, between any two.  *)
(***************************************************************************)
EXTENDS Integers, Sequences

CONSTANTS
    Validators, Delegations,      \* a delegation is <<delegator, validator>>
    MaxExports                    \* bound on the runs of the command

VARIABLES
    zeroHeight, jailAllowed,      \* the command's arguments
    metadata,                     \* the bank metadata of the chain state
    issues,                       \* whether some module reports a damaged record
    step,                         \* what the process does next, or how it ended
    ctx,                          \* distribution, staking and slashing in the context
    distributionErrs,
    genesis,                      \* <<the bank metadata of the genesis>>, empty before
    file,                         \* export-issues.json
    before,                       \* the same when the run began
    tmp,                          \* the temporary file: "none", "written" or "synced"
    status,                       \* ExportDiagnosticsStatus
    exports                       \* runs begun: the export id of the last one

exportVars == <<zeroHeight, jailAllowed, metadata, issues, step, ctx, distributionErrs,
                genesis, file, before, tmp, status, exports>>
inputVars == <<zeroHeight, jailAllowed, metadata, issues>>

\* The export a report describes, and whether its text has reached the disk.
NoReport == [id |-> 0, text |-> "none"]
NoGenesis == <<>>
Clean == [reportWritten |-> FALSE, staleCleanupErr |-> FALSE]

(***************************************************************************)
(* Bank metadata.  Validate of x/bank asks for a name, a base denom, the   *)
(* base as the first unit and the display denom among the units.           *)
(***************************************************************************)

Metadata == [named : BOOLEAN, units : {"base first", "other first", "nil unit"},
             displayed : BOOLEAN]

Valid(md) == md.named /\ md.units = "base first" /\ md.displayed

Repaired(md) == [md EXCEPT !.units = "base first", !.displayed = TRUE]

\* normalizeExportedBankDenomMetadata: what the genesis holds.  A nil unit
\* cannot be validated and a repair that does not help is not kept.
NormalizedMetadata(mds) ==
    {md \in mds : Valid(md)}
      \cup {Repaired(md) : md \in {x \in mds : x.units # "nil unit" /\ Valid(Repaired(x))}}

\* A record rewritten or dropped is a diagnostic.
BankDiags(mds) == {md \in mds : ~Valid(md)}

Degraded == issues \/ BankDiags(metadata) # {}

(***************************************************************************)
(* The command, and the preparation for zero height.                       *)
(***************************************************************************)

\* The chain state: rewards to withdraw, and the fractions that no withdrawal
\* pays out.  The heights of the records are those of the chain.
Committed ==
    [commission |-> Validators, rewards |-> Delegations, scraps |-> Validators, pool |-> {},
     history |-> "old", tracked |-> "old", jailed |-> {},
     heights |-> {"redelegations", "unbondings", "validators", "signing infos"}]

Export(zero, allowed, mds, damaged) ==
    /\ step \in {"ready", "exit 0", "exit 1", "exit 3", "killed"} /\ exports < MaxExports
    /\ exports' = exports + 1
    /\ zeroHeight' = zero /\ jailAllowed' = allowed /\ metadata' = mds /\ issues' = damaged
    /\ step' = IF zero THEN "withdraw commissions" ELSE "export modules"
    /\ ctx' = Committed /\ distributionErrs' = FALSE /\ genesis' = NoGenesis
    /\ before' = file /\ tmp' = "none" /\ status' = Clean
    /\ UNCHANGED file

To(next) == step' = next /\ UNCHANGED <<inputVars, exports, file, before, tmp, status>>

\* An error return: cobra's error path, nothing is written.
ReturnError == To("exit 1") /\ UNCHANGED <<ctx, distributionErrs, genesis>>

Prepare(at, next, prepared) ==
    /\ step = at /\ To(next) /\ ctx' = prepared
    /\ UNCHANGED <<distributionErrs, genesis>>

\* The two passes over the withdrawals go on after an error; failing is the
\* set of those that return one.
WithdrawCommissions(failing) ==
    /\ step = "withdraw commissions" /\ To("withdraw rewards")
    /\ ctx' = [ctx EXCEPT !.commission = failing]
    /\ distributionErrs' = (failing # {})
    /\ UNCHANGED genesis

WithdrawRewards(failing) ==
    /\ step = "withdraw rewards" /\ To("check errors")
    /\ ctx' = [ctx EXCEPT !.rewards = failing]
    /\ distributionErrs' = (distributionErrs \/ failing # {})
    /\ UNCHANGED genesis

\* Mutated form: the errors are logged and the export goes on.
DistributionPurgeAnyway ==
    Prepare("check errors", "reinit validators", [ctx EXCEPT !.history = "none", !.tracked = "none"])

\* The errors are returned before the purge of the slash events and of the
\* historical rewards.
DistributionPurge ==
    \/ ~distributionErrs
       /\ Prepare("check errors", "reinit validators",
                  [ctx EXCEPT !.history = "none", !.tracked = "none"])
    \/ step = "check errors" /\ distributionErrs /\ ReturnError

\* The scraps go to the community pool, and AfterValidatorCreated starts a
\* new reward period.
ReinitValidators ==
    Prepare("reinit validators", "reinit delegations",
            [ctx EXCEPT !.pool = @ \cup ctx.scraps, !.scraps = {}, !.history = "new"])

\* The delegation hooks start tracking every delegation in the new period.
ReinitDelegations ==
    Prepare("reinit delegations", "reset redelegations", [ctx EXCEPT !.tracked = "new"])

ResetHeights(at, next, records) ==
    Prepare(at, next, [ctx EXCEPT !.heights = @ \ {records}])

\* Every validator outside a list that is not empty is jailed.
ResetValidators ==
    Prepare("reset validators", "reset signing infos",
            [ctx EXCEPT !.heights = @ \ {"validators"},
                        !.jailed = IF jailAllowed = {} THEN @ ELSE Validators \ jailAllowed])

PrepForZeroHeightGenesis ==
    \/ \E failing \in SUBSET Validators : WithdrawCommissions(failing)
    \/ \E failing \in SUBSET Delegations : WithdrawRewards(failing)
    \/ DistributionPurge
    \/ ReinitValidators \/ ReinitDelegations
    \/ ResetHeights("reset redelegations", "reset unbondings", "redelegations")
    \/ ResetHeights("reset unbondings", "reset validators", "unbondings")
    \/ ResetValidators
    \/ ResetHeights("reset signing infos", "export modules", "signing infos")

\* The calls that return an error at once: those around the withdrawals (an
\* address of the list that does not parse, an iteration that fails), and all
\* calls after the purge.
Failing == {"withdraw commissions", "withdraw rewards", "reinit validators", "reinit delegations", "reset redelegations", "reset unbondings",
            "reset validators", "reset signing infos", "export modules", "encode"}

StepFails == step \in Failing /\ ReturnError

\* The modules' genesis, its metadata, the JSON text and the validator set.
ExportModules ==
    /\ step = "export modules" /\ To("encode")
    /\ genesis' = <<NormalizedMetadata(metadata)>>
    /\ UNCHANGED <<ctx, distributionErrs>>

Encode ==
    /\ step = "encode" /\ To(IF Degraded THEN "write report" ELSE "remove report")
    /\ UNCHANGED <<ctx, distributionErrs, genesis>>

(***************************************************************************)
(* finalizeExportDiagnostics.                                              *)
(***************************************************************************)

File(next) == step' = next /\ UNCHANGED <<inputVars, ctx, distributionErrs, genesis, before, exports>>

\* CreateTemp and Write of writeFileAtomic.
WriteTemp ==
    /\ step = "write report" /\ File("sync report")
    /\ tmp' = "written" /\ UNCHANGED <<file, status>>

Sync ==
    /\ step = "sync report" /\ File("rename report")
    /\ tmp' = "synced" /\ UNCHANGED <<file, status>>

Rename ==
    /\ step = "rename report" /\ File("write genesis")
    /\ file' = [id |-> exports, text |-> tmp] /\ tmp' = "none"
    /\ status' = [status EXCEPT !.reportWritten = TRUE]

\* Mutated form: the report of an earlier export stays when this one's is lost.
KeepStaleReport ==
    /\ step \in {"write report", "sync report", "rename report"} /\ File("write genesis")
    /\ tmp' = "none" /\ UNCHANGED <<file, status>>

\* Any call of writeFileAtomic fails: the temporary file is removed, and the
\* report of an earlier export is removed next.
WriteFails ==
    /\ step \in {"write report", "sync report", "rename report"} /\ File("remove report")
    /\ tmp' = "none" /\ UNCHANGED <<file, status>>

\* removeStaleExportDiagnosticsReport.
RemoveStale(fails) ==
    /\ step = "remove report" /\ File("write genesis")
    /\ file' = IF fails THEN file ELSE NoReport
    /\ status' = [status EXCEPT !.staleCleanupErr = fails]
    /\ UNCHANGED tmp

\* The SDK's command writes the genesis out and finishExport turns the status
\* into the exit code; LostDiagnostics is 3.
ExitCode == IF Degraded /\ ~status.reportWritten THEN "exit 3" ELSE "exit 0"

FinishExport(fails) ==
    /\ step = "write genesis"
    /\ File(IF fails THEN "exit 1" ELSE ExitCode) /\ UNCHANGED <<file, tmp, status>>

\* The process is killed, or the machine goes down: a rename or a removal may
\* be lost, and so may the text of a file that was not synced.
Killed ==
    /\ step \notin {"ready", "exit 0", "exit 1", "exit 3", "killed"} /\ File("killed")
    /\ \/ file' \in {file, before}
       \/ file.text = "written" /\ file' = [file EXCEPT !.text = "torn"]
    /\ tmp' = "none" /\ UNCHANGED status

(***************************************************************************)
(* Specification                                                           *)
(***************************************************************************)

ExportInit ==
    /\ zeroHeight = FALSE /\ jailAllowed = {} /\ step = "ready" /\ ctx = Committed
    /\ metadata = {} /\ issues = FALSE
    /\ distributionErrs = FALSE /\ genesis = NoGenesis
    /\ file = NoReport /\ before = NoReport /\ tmp = "none" /\ status = Clean /\ exports = 0

ExportNext ==
    \/ \E zero, damaged \in BOOLEAN, allowed \in SUBSET Validators,
          mds \in {{}} \cup {{md} : md \in Metadata} : Export(zero, allowed, mds, damaged)
    \/ PrepForZeroHeightGenesis \/ StepFails
    \/ ExportModules \/ Encode
    \/ WriteTemp \/ Sync \/ Rename \/ WriteFails
    \/ \E fails \in BOOLEAN : RemoveStale(fails) \/ FinishExport(fails)
    \/ Killed

ExportSpec == ExportInit /\ [][ExportNext]_exportVars

(***************************************************************************)
(* Properties                                                              *)
(***************************************************************************)

\* "Every withdrawal below must succeed before any irreversible cleanup runs"
\* (prepForZeroHeightGenesis): a zero-height genesis is exported only when all
\* was withdrawn, every fraction is in the community pool, validators and
\* delegations have started the new reward period, no record keeps a height of
\* the old chain, and exactly the validators off the list are jailed.
ZeroHeightGenesisIsComplete ==
    genesis # NoGenesis /\ zeroHeight =>
        ctx = [commission |-> {}, rewards |-> {}, scraps |-> {}, pool |-> Validators,
               history |-> "new", tracked |-> "new", heights |-> {},
               jailed |-> IF jailAllowed = {} THEN {} ELSE Validators \ jailAllowed]

\* "the presence of the file always means the most recent export was degraded"
\* (ExportDiagnosticsReport): after an export that ended, whatever earlier ones
\* left behind, the metadata passes x/bank's Validate, and a genesis that
\* differs from the chain state either has its own report on disk or exit code
\* 3 and no report; an undamaged one has none.  Only a stale report that
\* cannot be removed, which the status says, is an exception.  And "a crash
\* cannot leave behind a truncated report" (writeExportDiagnosticsReportFor).
ReportDescribesTheExport ==
    /\ file.text # "torn"
    /\ step \in {"exit 0", "exit 3"} =>
          LET altered == issues \/ genesis # <<metadata>>
          IN  /\ \A md \in genesis[1] : Valid(md)
              /\ ~status.staleCleanupErr =>
                   file.id = IF altered /\ step = "exit 0" THEN exports ELSE NoReport.id
              /\ step = "exit 3" => altered
=============================================================================
