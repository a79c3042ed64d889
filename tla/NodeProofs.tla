----------------------------- MODULE NodeProofs -----------------------------
(***************************************************************************)
(* Proofs about the uptickd process: what "uptickd export" writes, for any *)
(* number of runs, failures and crashes and any set of validators and      *)
(* delegations, and what the ante handler lets into a block, for any set   *)
(* of transactions and any limits on nesting and count.                    *)
(***************************************************************************)
EXTENDS AnteHandler, StateExport, FiniteSetTheorems, SequenceTheorems, TLAPS

-----------------------------------------------------------------------------
(* The preparation of a zero-height genesis *)

\* The context after each call of prepForZeroHeightGenesis.
Paid == [Committed EXCEPT !.commission = {}, !.rewards = {}]
Purged == [Paid EXCEPT !.history = "none", !.tracked = "none"]
NewPeriod == [Purged EXCEPT !.pool = Validators, !.scraps = {}, !.history = "new"]
Tracked == [NewPeriod EXCEPT !.tracked = "new"]
Redelegated == [Tracked EXCEPT !.heights = {"unbondings", "validators", "signing infos"}]
Unbonded == [Tracked EXCEPT !.heights = {"validators", "signing infos"}]
Jailed(allowed) == IF allowed = {} THEN {} ELSE Validators \ allowed
Reset(allowed) == [Tracked EXCEPT !.heights = {"signing infos"}, !.jailed = Jailed(allowed)]
Complete(allowed) ==
    [commission |-> {}, rewards |-> {}, scraps |-> {}, pool |-> Validators,
     history |-> "new", tracked |-> "new", heights |-> {}, jailed |-> Jailed(allowed)]

PrepSteps ==
    {"withdraw commissions", "withdraw rewards", "check errors", "reinit validators",
     "reinit delegations", "reset redelegations", "reset unbondings", "reset validators",
     "reset signing infos"}

\* Where the preparation is, the context is what the calls so far have made
\* of it; an error is remembered until it is returned.
PreparedSoFar ==
    /\ step = "withdraw commissions" => ctx = Committed
    /\ step = "withdraw rewards" =>
          \E F : ctx = [Committed EXCEPT !.commission = F] /\ (~distributionErrs => F = {})
    /\ step = "check errors" =>
          \E F, G : /\ ctx = [Committed EXCEPT !.commission = F, !.rewards = G]
                    /\ ~distributionErrs => F = {} /\ G = {}
    /\ step = "reinit validators" => ctx = Purged
    /\ step = "reinit delegations" => ctx = NewPeriod
    /\ step = "reset redelegations" => ctx = Tracked
    /\ step = "reset unbondings" => ctx = Redelegated
    /\ step = "reset validators" => ctx = Unbonded
    /\ step = "reset signing infos" => ctx = Reset(jailAllowed)
    /\ step = "export modules" /\ zeroHeight => ctx = Complete(jailAllowed)

\* No genesis before the modules are exported.
ZInv ==
    /\ step \in PrepSteps \cup {"export modules"} => genesis = NoGenesis
    /\ PreparedSoFar
    /\ ZeroHeightGenesisIsComplete

\* It holds before the first run.
LEMMA InitZInv == ExportInit => ZInv
BY Zenon DEF ExportInit, ZInv, PrepSteps, PreparedSoFar, ZeroHeightGenesisIsComplete

\* Each call of the preparation takes the context one stage further.
LEMMA PrepareStep ==
    ASSUME ZInv, PrepForZeroHeightGenesis
    PROVE  ZInv'
<1>. USE DEF ZInv, PrepSteps, To, inputVars
<1>1. ASSUME NEW F \in SUBSET Validators, WithdrawCommissions(F) PROVE ZInv'
  <2>1. ctx' = [Committed EXCEPT !.commission = F]
    BY <1>1, Zenon DEF WithdrawCommissions, PreparedSoFar, Committed
  <2>2. step' = "withdraw rewards" /\ genesis' = NoGenesis /\ (~distributionErrs' => F = {})
    BY <1>1, Zenon DEF WithdrawCommissions
  <2>. QED
    BY <2>1, <2>2, Zenon DEF PreparedSoFar, ZeroHeightGenesisIsComplete
<1>2. ASSUME NEW G \in SUBSET Delegations, WithdrawRewards(G) PROVE ZInv'
  <2>1. PICK F : ctx = [Committed EXCEPT !.commission = F] /\ (~distributionErrs => F = {})
    BY <1>2, Zenon DEF WithdrawRewards, PreparedSoFar
  <2>2. ctx' = [Committed EXCEPT !.commission = F, !.rewards = G]
    BY <1>2, <2>1, Zenon DEF WithdrawRewards, Committed
  <2>3. step' = "check errors" /\ genesis' = NoGenesis /\ (~distributionErrs' => F = {} /\ G = {})
    BY <1>2, <2>1, Zenon DEF WithdrawRewards
  <2>. QED
    BY <2>2, <2>3, Zenon DEF PreparedSoFar, ZeroHeightGenesisIsComplete
<1>3. ASSUME DistributionPurge PROVE ZInv'
  <2>1. CASE distributionErrs
    BY <1>3, <2>1, Zenon DEF DistributionPurge, ReturnError, PreparedSoFar,
       ZeroHeightGenesisIsComplete
  <2>2. CASE ~distributionErrs
    <3>1. ctx = Paid
      BY <1>3, <2>2, Zenon DEF DistributionPurge, Prepare, PreparedSoFar, Paid, Committed
    <3>2. ctx' = Purged /\ step' = "reinit validators" /\ genesis' = NoGenesis
      BY <1>3, <2>2, <3>1, Zenon DEF DistributionPurge, Prepare, Purged
    <3>. QED
      BY <3>2, Zenon DEF PreparedSoFar, ZeroHeightGenesisIsComplete
  <2>. QED
    BY <2>1, <2>2, Zenon
<1>4. ASSUME ReinitValidators PROVE ZInv'
  <2>1. ctx = Purged /\ step' = "reinit delegations" /\ genesis' = NoGenesis
    BY <1>4, Zenon DEF ReinitValidators, Prepare, PreparedSoFar
  <2>2. ctx.scraps = Validators /\ ctx.pool = {}
    BY <2>1, Zenon DEF Purged, Paid, Committed
  <2>3. ctx' = [ctx EXCEPT !.pool = @ \cup ctx.scraps, !.scraps = {}, !.history = "new"]
    BY <1>4, Zenon DEF ReinitValidators, Prepare
  <2>4. ctx' = NewPeriod
    <3>. HIDE DEF ZInv, PrepSteps
    <3>1. ctx' = [ctx EXCEPT !.pool = Validators, !.scraps = {}, !.history = "new"]
      BY <2>2, <2>3, Zenon
    <3>. QED
      BY <2>1, <3>1, Zenon DEF NewPeriod, Purged, Paid, Committed
  <2>. QED
    BY <2>1, <2>4, Zenon DEF PreparedSoFar, ZeroHeightGenesisIsComplete
<1>5. ASSUME ReinitDelegations PROVE ZInv'
  <2>1. ctx' = Tracked /\ step' = "reset redelegations" /\ genesis' = NoGenesis
    BY <1>5, Zenon DEF ReinitDelegations, Prepare, PreparedSoFar, Tracked
  <2>. QED
    BY <2>1, Zenon DEF PreparedSoFar, ZeroHeightGenesisIsComplete
<1>6. ASSUME ResetHeights("reset redelegations", "reset unbondings", "redelegations") PROVE ZInv'
  <2>1. ctx = Tracked /\ step' = "reset unbondings" /\ genesis' = NoGenesis
        /\ ctx' = [ctx EXCEPT !.heights = @ \ {"redelegations"}]
    BY <1>6, Zenon DEF ResetHeights, Prepare, PreparedSoFar
  <2>2. ctx' = Redelegated
    BY <2>1, Zenon DEF Redelegated, Tracked, NewPeriod, Purged, Paid, Committed
  <2>. QED
    BY <2>1, <2>2, Zenon DEF PreparedSoFar, ZeroHeightGenesisIsComplete
<1>7. ASSUME ResetHeights("reset unbondings", "reset validators", "unbondings") PROVE ZInv'
  <2>1. ctx = Redelegated /\ step' = "reset validators" /\ genesis' = NoGenesis
        /\ ctx' = [ctx EXCEPT !.heights = @ \ {"unbondings"}]
    BY <1>7, Zenon DEF ResetHeights, Prepare, PreparedSoFar
  <2>2. ctx' = Unbonded
    BY <2>1 DEF Unbonded, Redelegated, Tracked, NewPeriod, Purged, Paid, Committed
  <2>. QED
    BY <2>1, <2>2, Zenon DEF PreparedSoFar, ZeroHeightGenesisIsComplete
<1>8. ASSUME ResetValidators PROVE ZInv'
  <2>1. /\ ctx = Unbonded /\ step' = "reset signing infos" /\ genesis' = NoGenesis
        /\ jailAllowed' = jailAllowed
        /\ ctx' = [ctx EXCEPT !.heights = @ \ {"validators"},
                              !.jailed = IF jailAllowed = {} THEN @ ELSE Validators \ jailAllowed]
    BY <1>8, Zenon DEF ResetValidators, Prepare, PreparedSoFar
  <2>2. ctx' = Reset(jailAllowed)
    <3>. HIDE DEF ZInv, PrepSteps
    <3>1. ctx.heights \ {"validators"} = {"signing infos"} /\ ctx.jailed = {}
      BY <2>1, Zenon DEF Unbonded, Tracked, NewPeriod, Purged, Paid, Committed
    <3>2. ctx' = [ctx EXCEPT !.heights = {"signing infos"}, !.jailed = Jailed(jailAllowed)]
      BY <2>1, <3>1, Zenon DEF Jailed
    <3>. QED
      BY <2>1, <3>2, Zenon DEF Reset, Unbonded, Tracked, NewPeriod, Purged, Paid, Committed
  <2>. QED
    BY <2>1, <2>2, Zenon DEF PreparedSoFar, ZeroHeightGenesisIsComplete
<1>9. ASSUME ResetHeights("reset signing infos", "export modules", "signing infos") PROVE ZInv'
  <2>1. /\ ctx = Reset(jailAllowed) /\ step' = "export modules" /\ genesis' = NoGenesis
        /\ jailAllowed' = jailAllowed
        /\ ctx' = [ctx EXCEPT !.heights = @ \ {"signing infos"}]
    BY <1>9, Zenon DEF ResetHeights, Prepare, PreparedSoFar
  <2>2. ctx' = Complete(jailAllowed)
    BY <2>1, Zenon DEF Complete, Reset, Jailed, Tracked, NewPeriod, Purged, Paid, Committed
  <2>. QED
    BY <2>1, <2>2, Zenon DEF PreparedSoFar, ZeroHeightGenesisIsComplete
<1>. QED
  BY <1>1, <1>2, <1>3, <1>4, <1>5, <1>6, <1>7, <1>8, <1>9, Zenon DEF PrepForZeroHeightGenesis

\* The rest of the command leaves the context alone.
LEMMA NextZInv == ZInv /\ [ExportNext]_exportVars => ZInv'
<1>. SUFFICES ASSUME ZInv, [ExportNext]_exportVars PROVE ZInv'
  BY Zenon
<1>. USE DEF ZInv, PrepSteps
<1>1. ASSUME NEW zero \in BOOLEAN, NEW damaged \in BOOLEAN, NEW allowed \in SUBSET Validators, NEW mds,
             Export(zero, allowed, mds, damaged)
      PROVE  ZInv'
  BY <1>1, Zenon DEF Export, PreparedSoFar, ZeroHeightGenesisIsComplete
<1>2. CASE StepFails
  BY <1>2, Zenon DEF StepFails, ReturnError, To, inputVars, PreparedSoFar,
     ZeroHeightGenesisIsComplete
<1>3. CASE ExportModules
  BY <1>3, Zenon DEF ExportModules, To, inputVars, PreparedSoFar, ZeroHeightGenesisIsComplete,
              Complete, Jailed
<1>4. CASE Encode
  BY <1>4, Zenon DEF Encode, To, inputVars, PreparedSoFar, ZeroHeightGenesisIsComplete
<1>a. ASSUME step' \notin PrepSteps \cup {"export modules"},
             UNCHANGED <<zeroHeight, jailAllowed, ctx, genesis>>
      PROVE  ZInv'
  BY <1>a, Zenon DEF PreparedSoFar, ZeroHeightGenesisIsComplete
<1>5. CASE WriteTemp \/ Sync \/ Rename \/ WriteFails \/ Killed
  <2>. HIDE DEF ZInv
  <2>1. UNCHANGED <<zeroHeight, jailAllowed, ctx, genesis>>
    BY <1>5, Zenon DEF WriteTemp, Sync, Rename, WriteFails, Killed, File, inputVars
  <2>2. step' \in {"sync report", "rename report", "write genesis", "remove report", "killed"}
    BY <1>5, Zenon DEF WriteTemp, Sync, Rename, WriteFails, Killed, File
  <2>. QED
    BY <1>a, <2>1, <2>2, Zenon
<1>6. ASSUME NEW fails \in BOOLEAN, RemoveStale(fails) \/ FinishExport(fails) PROVE ZInv'
  <2>. HIDE DEF ZInv
  <2>1. UNCHANGED <<zeroHeight, jailAllowed, ctx, genesis>>
    BY <1>6, Zenon DEF RemoveStale, FinishExport, File, inputVars
  <2>2. step' \in {"write genesis", "exit 0", "exit 1", "exit 3"}
    BY <1>6, Zenon DEF RemoveStale, FinishExport, ExitCode, File
  <2>3. step' \notin PrepSteps \cup {"export modules"}
    BY <2>2, Zenon
  <2>. QED
    BY <1>a, <2>1, <2>3, Zenon
<1>7. CASE UNCHANGED exportVars
  <2>1. UNCHANGED <<zeroHeight, jailAllowed, ctx, genesis, step, distributionErrs>>
    BY <1>7, Zenon DEF exportVars
  <2>2. PreparedSoFar' /\ ZeroHeightGenesisIsComplete'
    BY <2>1, ZenonT(40) DEF PreparedSoFar, ZeroHeightGenesisIsComplete
  <2>. QED
    BY <2>1, <2>2, Zenon
<1>. QED
  BY <1>1, <1>2, <1>3, <1>4, <1>5, <1>6, <1>7, PrepareStep, Zenon DEF ExportNext

\* A zero-height genesis is exported only from a context in which everything
\* was withdrawn, restarted and reset, in however many runs and whatever call
\* of whichever run failed.
THEOREM ZeroHeightExportIsComplete == ExportSpec => []ZeroHeightGenesisIsComplete
<1>1. ZInv => ZeroHeightGenesisIsComplete
  BY Zenon DEF ZInv
<1>. QED
  BY <1>1, InitZInv, NextZInv, PTL DEF ExportSpec

-----------------------------------------------------------------------------
(* The report of a degraded export *)

\* What the genesis holds is valid, and is what the chain holds exactly when
\* the normalisation had nothing to report.
LEMMA NormalizedFacts ==
    ASSUME NEW mds \in SUBSET Metadata
    PROVE  /\ \A md \in NormalizedMetadata(mds) : Valid(md)
           /\ BankDiags(mds) = {} <=> NormalizedMetadata(mds) = mds
<1>1. \A md \in mds : Valid(md) => Repaired(md) = md
  BY Zenon DEF Valid, Repaired, Metadata
<1>2. \A md \in NormalizedMetadata(mds) : Valid(md)
  BY Zenon DEF NormalizedMetadata
<1>3. ASSUME BankDiags(mds) = {} PROVE NormalizedMetadata(mds) = mds
  <2>1. \A md \in mds : Valid(md) /\ Repaired(md) = md
    BY <1>1, <1>3, Zenon DEF BankDiags
  <2>. QED
    BY <2>1, Zenon DEF NormalizedMetadata
<1>4. ASSUME NormalizedMetadata(mds) = mds PROVE BankDiags(mds) = {}
  BY <1>2, <1>4, Zenon DEF BankDiags
<1>. QED
  BY <1>2, <1>3, <1>4, Zenon

\* The calls of finalizeExportDiagnostics, and the ends of a run.
Reporting == {"write report", "sync report", "rename report"}
Ends == {"exit 0", "exit 3"}

\* The report on disk is a whole one.  Before the diagnostics are final the
\* status is clean; afterwards it says whose report the file is, and the
\* exit code follows from it.
RInv ==
    /\ metadata \in SUBSET Metadata
    /\ file.text \in {"none", "synced"}
    /\ before.text \in {"none", "synced"}
    /\ step = "rename report" => tmp = "synced"
    /\ step \in Reporting => Degraded
    /\ step \in PrepSteps \cup {"export modules", "encode", "remove report"} \cup Reporting =>
          status = Clean
    /\ step \in {"encode", "remove report", "write genesis"} \cup Reporting \cup Ends =>
          genesis = <<NormalizedMetadata(metadata)>>
    /\ step \in {"write genesis"} \cup Ends =>
          /\ status.reportWritten => Degraded /\ file.id = exports
          /\ ~status.reportWritten /\ ~status.staleCleanupErr => file.id = NoReport.id
    /\ step = "exit 0" => (Degraded => status.reportWritten)
    /\ step = "exit 3" => Degraded /\ ~status.reportWritten

\* It holds before the first run.
LEMMA InitRInv == ExportInit => RInv
BY DEF ExportInit, RInv, NoReport, Reporting, Ends, PrepSteps

\* Every call keeps it, a failing one and a crash included.
LEMMA NextRInv == RInv /\ [ExportNext]_exportVars => RInv'
<1>. SUFFICES ASSUME RInv, [ExportNext]_exportVars PROVE RInv'
  BY Zenon
<1>. USE DEF RInv, Reporting, Ends, PrepSteps
<1>1. ASSUME NEW zero \in BOOLEAN, NEW damaged \in BOOLEAN, NEW allowed \in SUBSET Validators,
             NEW mds \in {{}} \cup {{md} : md \in Metadata}, Export(zero, allowed, mds, damaged)
      PROVE  RInv'
  <2>1. mds \in SUBSET Metadata
    BY Zenon
  <2>. QED
    BY <1>1, <2>1, Zenon DEF Export, Degraded
<1>2. CASE PrepForZeroHeightGenesis
  <2>1. /\ step' \in PrepSteps \cup {"export modules", "exit 1"}
        /\ step \in PrepSteps
        /\ UNCHANGED <<metadata, issues, file, before, status>>
    BY <1>2, Zenon DEF PrepForZeroHeightGenesis, WithdrawCommissions, WithdrawRewards,
       DistributionPurge,
                ReinitValidators, ReinitDelegations, ResetHeights, ResetValidators, Prepare,
                ReturnError, To, inputVars
  <2>. QED
    BY <2>1, Zenon DEF Degraded
<1>3. CASE StepFails
  BY <1>3, Zenon DEF StepFails, ReturnError, To, inputVars, Degraded
<1>4. CASE ExportModules
  BY <1>4, Zenon DEF ExportModules, To, inputVars, Degraded
<1>5. CASE Encode
  BY <1>5, Zenon DEF Encode, To, inputVars, Degraded
<1>6. CASE WriteTemp \/ Sync \/ WriteFails
  BY <1>6, Zenon DEF WriteTemp, Sync, WriteFails, File, inputVars, Degraded
<1>7. CASE Rename
  BY <1>7, Zenon DEF Rename, File, inputVars, Degraded, Clean
<1>8. ASSUME RemoveStale(TRUE) PROVE RInv'
  <2>1. status' = [reportWritten |-> FALSE, staleCleanupErr |-> TRUE]
    <3>1. status = Clean
      BY <1>8, Zenon DEF RemoveStale
    <3>2. status' = [status EXCEPT !.staleCleanupErr = TRUE]
      BY <1>8, Zenon DEF RemoveStale
    <3>. QED
      BY <3>1, <3>2, Zenon DEF Clean
  <2>2. ~status'.reportWritten /\ status'.staleCleanupErr
    BY <2>1, Zenon
  <2>. QED
    BY <1>8, <2>2, Zenon DEF RemoveStale, File, inputVars
<1>b. ASSUME RemoveStale(FALSE) PROVE RInv'
  <2>1. status' = [reportWritten |-> FALSE, staleCleanupErr |-> FALSE]
    <3>1. status = Clean
      BY <1>b, Zenon DEF RemoveStale
    <3>2. status' = [status EXCEPT !.staleCleanupErr = FALSE]
      BY <1>b, Zenon DEF RemoveStale
    <3>. QED
      BY <3>1, <3>2, Zenon DEF Clean
  <2>2. ~status'.reportWritten
    BY <2>1, Zenon
  <2>. QED
    BY <1>b, <2>2, Zenon DEF RemoveStale, File, inputVars, NoReport
<1>c. ASSUME NEW fails \in BOOLEAN, RemoveStale(fails) PROVE RInv'
  <2>. HIDE DEF RInv
  <2>1. CASE fails = TRUE
    BY <1>8, <1>c, <2>1, Zenon
  <2>2. CASE fails = FALSE
    BY <1>b, <1>c, <2>2, Zenon
  <2>. QED
    BY <2>1, <2>2, Zenon
<1>9. ASSUME NEW fails \in BOOLEAN, FinishExport(fails) PROVE RInv'
  BY <1>9, Zenon DEF FinishExport, ExitCode, File, inputVars, Degraded
<1>10. CASE Killed
  BY <1>10, Zenon DEF Killed, File, inputVars, Degraded
<1>11. CASE UNCHANGED exportVars
  BY <1>11, Zenon DEF exportVars, Degraded
<1>. QED
  BY <1>1, <1>2, <1>3, <1>4, <1>5, <1>6, <1>7, <1>c, <1>9, <1>10, <1>11, Zenon DEF ExportNext

\* However many exports of whatever states came before, and whichever of them
\* failed or were killed: the report on disk after an export that ended is
\* that export's, and there is none where nothing was altered.
THEOREM ReportsDescribeTheirExport == ExportSpec => []ReportDescribesTheExport
<1>1. ASSUME RInv PROVE ReportDescribesTheExport
  <2>1. file.text # "torn"
    BY <1>1, Zenon DEF RInv
  <2>2. ASSUME step \in {"exit 0", "exit 3"}
        PROVE  LET altered == issues \/ genesis # <<metadata>>
               IN  /\ \A md \in genesis[1] : Valid(md)
                   /\ ~status.staleCleanupErr =>
                        file.id = IF altered /\ step = "exit 0" THEN exports ELSE NoReport.id
                   /\ step = "exit 3" => altered
    <3>1. genesis = <<NormalizedMetadata(metadata)>> /\ metadata \in SUBSET Metadata
      BY <1>1, <2>2, Zenon DEF RInv, Ends
    <3>2. (issues \/ genesis # <<metadata>>) <=> Degraded
      BY <3>1, NormalizedFacts, Zenon DEF Degraded
    <3>3. \A md \in genesis[1] : Valid(md)
      BY <3>1, NormalizedFacts, Zenon
    <3>. QED
      BY <1>1, <2>2, <3>2, <3>3, Zenon DEF RInv, Ends
  <2>. QED
    BY <2>1, <2>2, Zenon DEF ReportDescribesTheExport
<1>. QED
  BY <1>1, InitRInv, NextRInv, PTL DEF ExportSpec

-----------------------------------------------------------------------------
(* Lists *)

\* A prefix of a prefix is a prefix.
LEMMA PrefixOfPrefix ==
    ASSUME NEW S, NEW s \in Seq(S), NEW k \in Nat, k + 1 <= Len(s)
    PROVE  SubSeq(SubSeq(s, 1, k + 1), 1, k) = SubSeq(s, 1, k)
<1>. DEFINE r == SubSeq(s, 1, k + 1)
            q == SubSeq(s, 1, k)
<1>1. r \in Seq(S) /\ Len(r) = k + 1 /\ \A i \in 1..k : r[i] = s[i]
  OBVIOUS
<1>2. q \in Seq(S) /\ Len(q) = k /\ \A i \in 1..k : q[i] = s[i]
  OBVIOUS
<1>. HIDE DEF q, r
<1>3. SubSeq(r, 1, k) \in Seq(S) /\ Len(SubSeq(r, 1, k)) = k /\ \A i \in 1..k : SubSeq(r, 1, k)[i] = r[i]
  BY <1>1
<1>4. SubSeq(r, 1, k) = q
  BY <1>1, <1>2, <1>3
<1>. QED
  BY <1>4, Zenon DEF q, r

\* A list with one element more.
LEMMA RangeOfAppend ==
    ASSUME NEW S, NEW s \in Seq(S), NEW e \in S
    PROVE  /\ Append(s, e) \in Seq(S) /\ Len(Append(s, e)) = Len(s) + 1
           /\ Range(Append(s, e)) = Range(s) \cup {e}
<1>. DEFINE r == Append(s, e)
<1>1. /\ r \in Seq(S) /\ Len(s) \in Nat /\ Len(r) = Len(s) + 1
      /\ \A i \in 1..Len(s) : r[i] = s[i]
      /\ r[Len(s) + 1] = e
  OBVIOUS
<1>2. DOMAIN r = 1..Len(s) + 1 /\ DOMAIN s = 1..Len(s)
  BY <1>1
<1>. HIDE DEF r
<1>3. \A i \in 1..Len(s) + 1 : i \in 1..Len(s) \/ i = Len(s) + 1
  BY <1>1
<1>4. Range(r) = Range(s) \cup {e}
  BY <1>1, <1>2, <1>3 DEF Range
<1>. QED
  BY <1>1, <1>4, Zenon DEF r

\* Two lists, one after the other.
LEMMA RangeOfConcat ==
    ASSUME NEW S, NEW T \in Seq(S), NEW C \in Seq(S)
    PROVE  T \o C \in Seq(S) /\ Range(T \o C) = Range(T) \cup Range(C)
<1>1. /\ T \o C \in Seq(S) /\ Len(T \o C) = Len(T) + Len(C) /\ Len(T) \in Nat /\ Len(C) \in Nat
      /\ DOMAIN T = 1..Len(T) /\ DOMAIN C = 1..Len(C)
      /\ \A i \in 1..Len(T) : (T \o C)[i] = T[i]
      /\ \A i \in 1..Len(C) : (T \o C)[Len(T) + i] = C[i]
  OBVIOUS
<1>2. DOMAIN (T \o C) = 1..Len(T) + Len(C)
  BY <1>1, LenProperties, Zenon
<1>5. ASSUME NEW i \in 1..Len(T) + Len(C) PROVE (T \o C)[i] \in Range(T) \cup Range(C)
  <2>1. CASE i <= Len(T)
    BY <1>1, <1>2, <2>1 DEF Range
  <2>2. CASE ~(i <= Len(T))
    <3>1. i - Len(T) \in 1..Len(C) /\ i = Len(T) + (i - Len(T))
      BY <1>1, <2>2
    <3>2. (T \o C)[i] = C[i - Len(T)]
      BY <1>1, <3>1, Zenon
    <3>. QED
      BY <1>1, <3>1, <3>2, Zenon DEF Range
  <2>. QED
    BY <2>1, <2>2, Zenon
<1>3. ASSUME NEW i \in 1..Len(T) PROVE T[i] \in Range(T \o C)
  BY <1>1, <1>2 DEF Range
<1>4. ASSUME NEW i \in 1..Len(C) PROVE C[i] \in Range(T \o C)
  <2>1. Len(T) + i \in DOMAIN (T \o C) /\ (T \o C)[Len(T) + i] = C[i]
    BY <1>1, <1>2
  <2>. QED
    BY <2>1, Zenon DEF Range
<1>6. Range(T \o C) \subseteq Range(T) \cup Range(C)
  BY <1>2, <1>5, Zenon DEF Range
<1>7. Range(T) \subseteq Range(T \o C) /\ Range(C) \subseteq Range(T \o C)
  BY <1>1, <1>3, <1>4, Zenon DEF Range
<1>. QED
  BY <1>1, <1>6, <1>7, Zenon

\* A turn of a queue: the first element goes, others join at the end.
LEMMA RangeOfQueue ==
    ASSUME NEW S, NEW Q \in Seq(S), Q # <<>>, NEW C \in Seq(S)
    PROVE  /\ Q[1] \in Range(Q)
           /\ Tail(Q) \o C \in Seq(S)
           /\ Range(Tail(Q) \o C) \subseteq Range(Q) \cup Range(C)
           /\ Range(Q) \cup Range(C) \subseteq Range(Tail(Q) \o C) \cup {Q[1]}
<1>. DEFINE T == Tail(Q)
<1>1. /\ Len(Q) \in Nat \ {0} /\ T \in Seq(S) /\ Len(T) = Len(Q) - 1 /\ DOMAIN Q = 1..Len(Q)
      /\ \A i \in 1..Len(T) : T[i] = Q[i + 1]
  OBVIOUS
<1>. HIDE DEF T
<1>2. Range(T \o C) = Range(T) \cup Range(C) /\ T \o C \in Seq(S)
  BY <1>1, RangeOfConcat
<1>3. Range(T) \subseteq Range(Q)
  <2>1. \A i \in 1..Len(T) : i + 1 \in 1..Len(Q)
    BY <1>1
  <2>. QED
    BY <1>1, <2>1, SMTT(30) DEF Range
<1>4. Range(Q) \subseteq Range(T) \cup {Q[1]}
  <2>1. ASSUME NEW i \in 1..Len(Q), i # 1 PROVE Q[i] \in Range(T)
    <3>1. i - 1 \in 1..Len(T) /\ Q[i] = T[i - 1]
      BY <1>1, <2>1
    <3>. QED
      BY <1>1, <3>1 DEF Range
  <2>. QED
    BY <1>1, <2>1 DEF Range
<1>5. Q[1] \in Range(Q)
  BY <1>1 DEF Range
<1>. QED
  BY <1>2, <1>3, <1>4, <1>5, Zenon DEF T

\* A list has at most as many elements as positions.
LEMMA RangeBound ==
    ASSUME NEW S, NEW s \in Seq(S)
    PROVE  IsFiniteSet(Range(s)) /\ Cardinality(Range(s)) <= Len(s)
<1>1. Len(s) \in Nat /\ DOMAIN s = 1..Len(s) /\ s \in [1..Len(s) -> Range(s)]
  BY DEF Range
<1>2. s \in Surjection(1..Len(s), Range(s))
  BY <1>1, Zenon DEF Surjection, Range
<1>3. IsFiniteSet(1..Len(s)) /\ Cardinality(1..Len(s)) = Len(s)
  BY <1>1, FS_Interval, SMTT(30)
<1>. QED
  BY <1>2, <1>3, FS_Surjection

-----------------------------------------------------------------------------
(* The messages of a transaction *)

\* A message inside another is a child of each message on its path.
LEMMA ChildOfPrefix ==
    ASSUME NEW t \in Txs, NEW p \in DOMAIN t.msgs, NEW k \in Nat, k + 1 <= Len(p)
    PROVE  SubSeq(p, 1, k + 1) \in Children(t, SubSeq(p, 1, k))
<1>1. p \in Seq(Nat) /\ Len(p) \in Nat
  BY TxsAssumption
<1>2. Len(SubSeq(p, 1, k)) = k /\ Len(SubSeq(p, 1, k + 1)) = k + 1
  BY <1>1
<1>3. SubSeq(p, 1, k + 1) \in DOMAIN t.msgs
  <2>1. CASE k + 1 = Len(p)
    BY <1>1, <2>1, SubSeqFull, Zenon
  <2>2. CASE k + 1 # Len(p)
    <3>1. k + 1 \in 1..Len(p) - 1
      BY <1>1, <2>2
    <3>. QED
      BY <3>1, TxsAssumption, Zenon
  <2>. QED
    BY <2>1, <2>2, Zenon
<1>4. SubSeq(SubSeq(p, 1, k + 1), 1, k) = SubSeq(p, 1, k)
  BY <1>1, PrefixOfPrefix, Zenon
<1>. QED
  BY <1>2, <1>3, <1>4, Zenon DEF Children

\* InOrder lists exactly the children.
LEMMA InOrderFacts ==
    ASSUME NEW t \in Txs, NEW p \in DOMAIN t.msgs \cup {<<>>}
    PROVE  InOrder(t, p) \in Seq(DOMAIN t.msgs) /\ Range(InOrder(t, p)) = Children(t, p)
<1>. DEFINE n == Cardinality(Children(t, p))
<1>1. IsFiniteSet(DOMAIN t.msgs) /\ Children(t, p) \subseteq DOMAIN t.msgs
  BY TxsAssumption, Zenon DEF Children
<1>2. n \in Nat
  BY <1>1, FS_Subset, FS_CardinalityType, Zenon
<1>3. Children(t, p) = {Append(p, i) : i \in 1..n}
  BY TxsAssumption, Zenon
<1>4. InOrder(t, p) = [i \in 1..n |-> Append(p, i)]
  BY Zenon DEF InOrder
<1>. HIDE DEF n
<1>5. InOrder(t, p) \in [1..n -> DOMAIN t.msgs]
  BY <1>1, <1>3, <1>4, Zenon
<1>6. InOrder(t, p) \in Seq(DOMAIN t.msgs)
  BY <1>2, <1>5, SeqDef
<1>7. Range(InOrder(t, p)) = Children(t, p)
  BY <1>3, <1>4, Zenon DEF Range
<1>. QED
  BY <1>6, <1>7, Zenon

\* The loop of ExtractMessagesFromTx: what has been queued and collected is
\* within the limits, and every message has been collected or lies under a
\* queued one.
Loop ==
    /\ msgQueue \in Seq(DOMAIN tx.msgs)
    /\ allMsgs \in Seq(DOMAIN tx.msgs)
    /\ Len(allMsgs) <= MaxExtractedMessages
    /\ \A p \in Range(msgQueue) \cup Range(allMsgs) : Len(p) - 1 <= MaxAuthzNestingDepth
    /\ \A p \in DOMAIN tx.msgs :
          \/ p \in Range(allMsgs)
          \/ \E k \in 1..Len(p) : SubSeq(p, 1, k) \in Range(msgQueue)

\* It holds when the queue is filled with the messages of the transaction.
LEMMA LoopStarts ==
    ASSUME NEW t \in Txs, tx' = t, msgQueue' = InOrder(t, <<>>), allMsgs' = <<>>
    PROVE  Loop'
<1>1. InOrder(t, <<>>) \in Seq(DOMAIN t.msgs) /\ Range(InOrder(t, <<>>)) = Children(t, <<>>)
  BY InOrderFacts, Zenon
<1>2. /\ Len(<<>>) = 0 /\ <<>> \in Seq(DOMAIN t.msgs)
      /\ MaxAuthzNestingDepth \in Nat /\ MaxExtractedMessages \in Nat
  BY TxsAssumption
<1>3. Range(<<>>) = {}
  BY DEF Range
<1>4. \A p \in Children(t, <<>>) : Len(p) - 1 = 0
  BY <1>2 DEF Children
<1>5. ASSUME NEW p \in DOMAIN t.msgs PROVE \E k \in 1..Len(p) : SubSeq(p, 1, k) \in Children(t, <<>>)
  <2>1. p \in Seq(Nat) /\ p # <<>>
    BY TxsAssumption, Zenon
  <2>2. Len(p) \in Nat /\ 0 + 1 <= Len(p) /\ 1 \in 1..Len(p)
    BY <2>1
  <2>3. SubSeq(p, 1, 0 + 1) \in Children(t, SubSeq(p, 1, 0))
    BY <2>2, ChildOfPrefix, Zenon
  <2>4. SubSeq(p, 1, 0) = <<>> /\ 0 + 1 = 1
    BY <2>1
  <2>5. SubSeq(p, 1, 1) \in Children(t, <<>>)
    BY <2>3, <2>4, Zenon
  <2>. QED
    BY <2>2, <2>5, Zenon
<1>6. /\ msgQueue' \in Seq(DOMAIN tx'.msgs) /\ allMsgs' \in Seq(DOMAIN tx'.msgs)
      /\ Len(allMsgs') <= MaxExtractedMessages
  BY <1>1, <1>2
<1>7. \A p \in Range(msgQueue') \cup Range(allMsgs') : Len(p) - 1 <= MaxAuthzNestingDepth
  <2>1. \A p \in Children(t, <<>>) : Len(p) - 1 <= MaxAuthzNestingDepth
    BY <1>2, <1>4
  <2>2. Range(msgQueue') = Children(t, <<>>) /\ Range(allMsgs') = {}
    BY <1>1, <1>3, Zenon
  <2>. QED
    BY <2>1, <2>2, Zenon
<1>8. \A p \in DOMAIN tx'.msgs : \E k \in 1..Len(p) : SubSeq(p, 1, k) \in Range(msgQueue')
  BY <1>1, <1>5, Zenon
<1>. QED
  BY <1>6, <1>7, <1>8, Zenon DEF Loop

\* A turn of the loop keeps the invariant: the children of the message it
\* takes are queued in its place.
LEMMA LoopTurns ==
    ASSUME tx \in Txs, Loop, msgQueue # <<>>,
           Len(allMsgs) < MaxExtractedMessages,
           tx.msgs[msgQueue[1]] = "exec" => Len(msgQueue[1]) - 1 < MaxAuthzNestingDepth,
           allMsgs' = Append(allMsgs, msgQueue[1]),
           msgQueue' = Tail(msgQueue) \o InOrder(tx, msgQueue[1]),
           tx' = tx
    PROVE  Loop'
<1>. DEFINE msg == msgQueue[1]
            D == DOMAIN tx.msgs
<1>1. msgQueue \in Seq(D) /\ allMsgs \in Seq(D)
  BY Zenon DEF Loop
<1>2. msg \in D /\ msg \in Range(msgQueue)
  BY <1>1 DEF Range
<1>3. InOrder(tx, msg) \in Seq(D) /\ Range(InOrder(tx, msg)) = Children(tx, msg)
  BY <1>2, InOrderFacts, Zenon
<1>4. /\ msgQueue' \in Seq(D)
      /\ Range(msgQueue') \subseteq Range(msgQueue) \cup Children(tx, msg)
      /\ Range(msgQueue) \cup Children(tx, msg) \subseteq Range(msgQueue') \cup {msg}
  BY <1>1, <1>3, RangeOfQueue, Zenon
<1>5. /\ allMsgs' \in Seq(D) /\ Len(allMsgs') = Len(allMsgs) + 1 /\ Len(allMsgs) \in Nat
      /\ Range(allMsgs') = Range(allMsgs) \cup {msg}
  <2>1. Len(allMsgs) \in Nat
    BY <1>1, LenProperties, Zenon
  <2>2. allMsgs' = Append(allMsgs, msg)
    BY Zenon
  <2>. HIDE DEF msg, D
  <2>. QED
    BY <1>1, <1>2, <2>1, <2>2, RangeOfAppend
<1>6. MaxAuthzNestingDepth \in Nat /\ MaxExtractedMessages \in Nat
  BY TxsAssumption, Zenon
<1>7. \A p \in D : p \in Seq(Nat) /\ Len(p) \in Nat
  BY TxsAssumption
<1>8. Children(tx, msg) # {} => Len(msg) - 1 < MaxAuthzNestingDepth
  BY <1>2, TxsAssumption, Zenon
<1>9. \A p \in Children(tx, msg) : Len(p) = Len(msg) + 1
  BY Zenon DEF Children
<1>10. msg = msgQueue[1]
  BY Zenon
<1>. HIDE DEF msg
<1>11. \A p \in Range(msgQueue') \cup Range(allMsgs') : Len(p) - 1 <= MaxAuthzNestingDepth
  <2>1. \A p \in Children(tx, msg) : Len(p) - 1 <= MaxAuthzNestingDepth
    BY <1>2, <1>6, <1>7, <1>8, <1>9
  <2>2. \A p \in Range(msgQueue) \cup Range(allMsgs) : Len(p) - 1 <= MaxAuthzNestingDepth
    BY Zenon DEF Loop
  <2>. QED
    BY <1>2, <1>4, <1>5, <2>1, <2>2, Zenon
<1>12. ASSUME NEW p \in D
       PROVE  \/ p \in Range(allMsgs')
              \/ \E k \in 1..Len(p) : SubSeq(p, 1, k) \in Range(msgQueue')
  <2>1. CASE p \in Range(allMsgs)
    BY <1>5, <2>1, Zenon
  <2>2. ASSUME NEW k \in 1..Len(p), SubSeq(p, 1, k) \in Range(msgQueue), SubSeq(p, 1, k) # msg
        PROVE  SubSeq(p, 1, k) \in Range(msgQueue')
    BY <1>4, <2>2, Zenon
  <2>3. ASSUME NEW k \in 1..Len(p), SubSeq(p, 1, k) = msg, k = Len(p)
        PROVE  p \in Range(allMsgs')
    <3>1. p = msg
      BY <1>7, <2>3, SubSeqFull, Zenon
    <3>. QED
      BY <1>5, <3>1, Zenon
  <2>4. ASSUME NEW k \in 1..Len(p), SubSeq(p, 1, k) = msg, k # Len(p)
        PROVE  \E l \in 1..Len(p) : SubSeq(p, 1, l) \in Range(msgQueue')
    <3>1. k \in Nat /\ k + 1 <= Len(p) /\ k + 1 \in 1..Len(p)
      BY <1>7, <2>4
    <3>2. SubSeq(p, 1, k + 1) \in Children(tx, msg)
      BY <2>4, <3>1, ChildOfPrefix, Zenon
    <3>3. SubSeq(p, 1, k + 1) # msg
      <4>1. Len(SubSeq(p, 1, k + 1)) = Len(msg) + 1 /\ Len(msg) \in Nat
        BY <1>2, <1>7, <1>9, <3>2, Zenon
      <4>. QED
        BY <4>1
    <3>. QED
      BY <1>4, <3>1, <3>2, <3>3, Zenon
  <2>. QED
    BY <2>1, <2>2, <2>3, <2>4, Zenon DEF Loop
<1>13. Len(allMsgs') <= MaxExtractedMessages
  BY <1>5, <1>6
<1>. QED
  BY <1>4, <1>5, <1>11, <1>12, <1>13, Zenon DEF Loop

-----------------------------------------------------------------------------
(* The decorator chain of a block *)

\* What the decorators establish about a transaction, one after the other.
WithinLimits(t) ==
    /\ Cardinality(DOMAIN t.msgs) <= MaxExtractedMessages
    /\ \A p \in DOMAIN t.msgs : /\ t.msgs[p] \notin {"wasm_bad", "eth_bad"}
                                /\ Len(p) - 1 <= MaxAuthzNestingDepth

CommissionsInRange(t) == \A p \in DOMAIN t.msgs : t.msgs[p] \notin {"commission_low", "broken"}

NoneForOthers(t) == \A p \in DOMAIN t.msgs : Len(p) > 1 => t.msgs[p] \notin Disabled

Form(t) == CASE ExtensionOptionTypeURL(t) = "eth" -> "ethereum"
             [] ExtensionOptionTypeURL(t) = "web3" -> "eip712"
             [] OTHER -> "direct"

SignedAsRouted(t) == Len(t.sigs) = Len(t.signers) /\ \A i \in 1..Len(t.sigs) : t.sigs[i].form = Form(t)

\* The loop is done once the commissions' turn has come.
AfterLimits == {"ValidatorCommission", "AuthzLimiter", "ExtensionOptions", "SigVerification",
                "Eip712SigVerification", "IncrementSequence", "RunMsgs"}
AfterCommission == AfterLimits \ {"ValidatorCommission"}
AfterAuthz == AfterCommission \ {"AuthzLimiter"}
Verified == {"IncrementSequence", "RunMsgs"}

\* In a block: the route is that of the first known option, what a decorator
\* let pass holds from then on, and the sequences are those of the accounts.
DeliverInv ==
    mode = "deliver" =>
        /\ tx \in Txs
        /\ decorator = "EvmAnteHandler" => ExtensionOptionTypeURL(tx) = "eth"
        /\ decorator \in {"ExtractMessagesFromTx", "ValidatorCommission", "AuthzLimiter",
                          "ExtensionOptions"} => ExtensionOptionTypeURL(tx) # "eth"
        /\ decorator = "SigVerification" => ExtensionOptionTypeURL(tx) \notin {"eth", "web3"}
        /\ decorator = "Eip712SigVerification" => ExtensionOptionTypeURL(tx) = "web3"
        /\ decorator = "ExtractMessagesFromTx" => Loop
        /\ ExtensionOptionTypeURL(tx) # "eth" =>
              /\ decorator \in AfterLimits => WithinLimits(tx)
              /\ decorator \in AfterCommission => CommissionsInRange(tx)
              /\ decorator \in AfterAuthz => NoneForOthers(tx)
        /\ decorator \in Verified =>
              /\ SignedAsRouted(tx)
              /\ \A i \in 1..Len(tx.sigs) : tx.sigs[i].sequence = sequence[tx.signers[i]]

\* A transaction that has run carries a sequence its first signer has left
\* behind, and never comes back to.
AInv ==
    /\ sequence \in [Signers -> Nat]
    /\ \A t \in executed : /\ t \in Txs /\ t.sigs[1].sequence \in Nat
                           /\ t.sigs[1].sequence < sequence[t.signers[1]]
    /\ decorator = "RunMsgs" => mode = "deliver"
    /\ DeliverInv

\* It holds before the first transaction.
LEMMA InitAInv == AnteInit => AInv
BY DEF AnteInit, AInv, DeliverInv

\* A chain that ends in an error leaves sequences and executions as they were.
LEMMA RejectStep ==
    ASSUME AInv, Reject
    PROVE  AInv'
BY Zenon DEF Reject, Leave, Commit, stateVars, AInv, DeliverInv

\* A chain begins with a queue that covers the whole transaction.
LEMMA BeginStep ==
    ASSUME AInv, NEW m, NEW t, Begin(m, t), m = "deliver" => t \in Txs,
           UNCHANGED <<sequence, executed>>
    PROVE  AInv'
<1>1. mode' = m /\ tx' = t /\ decorator' \in {"EvmAnteHandler", "ExtractMessagesFromTx"}
  BY Zenon DEF Begin
<1>2. m = "deliver" => Loop'
  BY LoopStarts, Zenon DEF Begin
<1>3. DeliverInv'
  BY <1>1, <1>2, Zenon DEF Begin, DeliverInv, AfterLimits, AfterCommission, AfterAuthz, Verified
<1>. QED
  BY <1>1, <1>3, Zenon DEF AInv

\* A decorator that lets the transaction pass to the next one.
Passes(next) == decorator' = next /\ UNCHANGED <<mode, tx, msgQueue, allMsgs, stateVars>>

\* The end of the loop: every message has been collected and validated.
LEMMA ValidateStep ==
    ASSUME AInv, ValidateMessages
    PROVE  AInv'
<1>. DEFINE ok == \A i \in 1..Len(allMsgs) : tx.msgs[allMsgs[i]] \notin {"wasm_bad", "eth_bad"}
<1>1. CASE Reject
  BY <1>1, RejectStep, Zenon
<1>2. CASE ok /\ Passes("ValidatorCommission")
  <2>1. UNCHANGED <<mode, tx, sequence, executed>> /\ decorator' = "ValidatorCommission"
    BY <1>2, Zenon DEF Passes, stateVars
  <2>2. ASSUME mode = "deliver" PROVE WithinLimits(tx) /\ tx \in Txs /\ ExtensionOptionTypeURL(tx) # "eth"
    <3>1. tx \in Txs /\ Loop /\ msgQueue = <<>> /\ ExtensionOptionTypeURL(tx) # "eth"
      BY <2>2, Zenon DEF ValidateMessages, AInv, DeliverInv
    <3>2. Range(msgQueue) = {}
      BY <3>1 DEF Range
    <3>3. DOMAIN tx.msgs \subseteq Range(allMsgs)
      BY <3>1, <3>2, Zenon DEF Loop
    <3>4. allMsgs \in Seq(DOMAIN tx.msgs) /\ Len(allMsgs) <= MaxExtractedMessages /\ Len(allMsgs) \in Nat
      BY <3>1 DEF Loop
    <3>5. \A p \in Range(allMsgs) : tx.msgs[p] \notin {"wasm_bad", "eth_bad"}
      BY <1>2, <3>4 DEF Range
    <3>6. IsFiniteSet(Range(allMsgs)) /\ Cardinality(Range(allMsgs)) <= Len(allMsgs)
      BY <3>4, RangeBound, Zenon
    <3>7. /\ Cardinality(DOMAIN tx.msgs) <= Cardinality(Range(allMsgs))
          /\ Cardinality(DOMAIN tx.msgs) \in Nat /\ Cardinality(Range(allMsgs)) \in Nat
      BY <3>3, <3>6, FS_Subset, FS_CardinalityType, Zenon
    <3>8. Cardinality(DOMAIN tx.msgs) <= MaxExtractedMessages
      BY <3>4, <3>6, <3>7, TxsAssumption
    <3>9. \A p \in Range(allMsgs) : Len(p) - 1 <= MaxAuthzNestingDepth
      BY <3>1, Zenon DEF Loop
    <3>. QED
      BY <3>1, <3>3, <3>5, <3>8, <3>9, Zenon DEF WithinLimits
  <2>3. DeliverInv'
    BY <2>1, <2>2, Zenon DEF DeliverInv, AfterLimits, AfterCommission, AfterAuthz, Verified
  <2>. QED
    BY <2>1, <2>3, Zenon DEF AInv
<1>. QED
  BY <1>1, <1>2, Zenon DEF ValidateMessages, Pass, Passes

\* The other decorators add what they check.
LEMMA DecoratorStep ==
    ASSUME AInv,
           \/ ValidatorCommission \/ AuthzLimiter \/ ExtensionOptions
           \/ SigVerification \/ Eip712SigVerification \/ EvmAnteHandler
    PROVE  AInv'
<1>. USE DEF AfterLimits, AfterCommission, AfterAuthz, Verified
<1>1. CASE Reject
  BY <1>1, RejectStep, Zenon
<1>. SUFFICES ASSUME ~Reject PROVE AInv'
  BY <1>1, Zenon
<1>2. UNCHANGED <<mode, tx, sequence, executed>>
  BY Zenon DEF ValidatorCommission, AuthzLimiter, ExtensionOptions, SigVerification,
         Eip712SigVerification, EvmAnteHandler, Pass, stateVars
<1>3. decorator' # "RunMsgs" /\ decorator' # "ExtractMessagesFromTx"
  BY Zenon DEF ValidatorCommission, AuthzLimiter, ExtensionOptions, SigVerification,
         Eip712SigVerification, EvmAnteHandler, Pass
<1>. SUFFICES ASSUME mode = "deliver" PROVE DeliverInv'
  BY <1>2, <1>3, Zenon DEF AInv, DeliverInv
<1>4. CASE ValidatorCommission
  <2>1. /\ decorator = "ValidatorCommission" /\ decorator' = "AuthzLimiter"
        /\ CommissionsInRange(tx)
    BY <1>4, Zenon DEF ValidatorCommission, Pass, CommissionsInRange
  <2>. QED
    BY <1>2, <2>1, Zenon DEF AInv, DeliverInv
<1>5. CASE AuthzLimiter
  <2>1. /\ decorator = "AuthzLimiter" /\ decorator' = "ExtensionOptions"
        /\ \A p \in DOMAIN tx.msgs : tx.msgs[p] \in Disabled => Len(p) = 1
    BY <1>5, Zenon DEF AuthzLimiter, Pass
  <2>2. NoneForOthers(tx)
    BY <2>1 DEF NoneForOthers
  <2>. QED
    BY <1>2, <2>1, <2>2, Zenon DEF AInv, DeliverInv
<1>6. CASE ExtensionOptions
  <2>1. /\ decorator = "ExtensionOptions"
        /\ decorator' = IF ExtensionOptionTypeURL(tx) = "web3" THEN "Eip712SigVerification"
                        ELSE "SigVerification"
    BY <1>6, Zenon DEF ExtensionOptions, Pass
  <2>. QED
    BY <1>2, <2>1, Zenon DEF AInv, DeliverInv
<1>7. CASE SigVerification
  <2>1. /\ decorator = "SigVerification" /\ decorator' = "IncrementSequence" /\ SequencesMatch
        /\ \A i \in 1..Len(tx.sigs) : tx.sigs[i].form = "direct"
    BY <1>7, Zenon DEF SigVerification, Pass
  <2>2. ExtensionOptionTypeURL(tx) \notin {"eth", "web3"}
    BY <2>1, Zenon DEF AInv, DeliverInv
  <2>3. SignedAsRouted(tx)
    BY <2>1, <2>2, Zenon DEF SignedAsRouted, Form, SequencesMatch
  <2>. QED
    BY <1>2, <2>1, <2>3, Zenon DEF AInv, DeliverInv, SequencesMatch, StateSequences
<1>8. CASE Eip712SigVerification
  <2>1. /\ decorator = "Eip712SigVerification" /\ decorator' = "IncrementSequence" /\ SequencesMatch
        /\ Len(tx.sigs) = 1 /\ tx.sigs[1].form = "eip712"
    BY <1>8, Zenon DEF Eip712SigVerification, Pass
  <2>2. ExtensionOptionTypeURL(tx) = "web3"
    BY <2>1, Zenon DEF AInv, DeliverInv
  <2>3. SignedAsRouted(tx)
    BY <2>1, <2>2 DEF SignedAsRouted, Form, SequencesMatch
  <2>. QED
    BY <1>2, <2>1, <2>3, Zenon DEF AInv, DeliverInv, SequencesMatch, StateSequences
<1>9. CASE EvmAnteHandler
  <2>1. /\ decorator = "EvmAnteHandler" /\ decorator' = "IncrementSequence" /\ SequencesMatch
        /\ \A i \in 1..Len(tx.sigs) : tx.sigs[i].form = "ethereum"
    BY <1>9, Zenon DEF EvmAnteHandler, Pass
  <2>2. ExtensionOptionTypeURL(tx) = "eth"
    BY <2>1, Zenon DEF AInv, DeliverInv
  <2>3. SignedAsRouted(tx)
    BY <2>1, <2>2, Zenon DEF SignedAsRouted, Form, SequencesMatch
  <2>. QED
    BY <1>2, <2>1, <2>2, <2>3, Zenon DEF AInv, DeliverInv, SequencesMatch, StateSequences
<1>. QED
  BY <1>4, <1>5, <1>6, <1>7, <1>8, <1>9, Zenon

\* The messages run: the sequences of the signers go up.
LEMMA RunStep ==
    ASSUME AInv, RunMsgs
    PROVE  AInv'
<1>1. /\ mode = "deliver" /\ tx \in Txs /\ SignedAsRouted(tx) /\ sequence \in [Signers -> Nat]
      /\ \A i \in 1..Len(tx.sigs) : tx.sigs[i].sequence = sequence[tx.signers[i]]
  BY Zenon DEF RunMsgs, AInv, DeliverInv, Verified
<1>2. \A t \in Txs : t.signers \in Seq(Signers) /\ 1 \in 1..Len(t.signers) /\ t.signers[1] \in Signers
  <2>. SUFFICES ASSUME NEW t \in Txs
                PROVE  t.signers \in Seq(Signers) /\ 1 \in 1..Len(t.signers) /\ t.signers[1] \in Signers
    BY Zenon
  <2>1. t.signers \in Seq(Signers) /\ t.signers # <<>>
    BY TxsAssumption, Zenon
  <2>2. Len(t.signers) \in Nat \ {0}
    BY <2>1, EmptySeq, Zenon
  <2>. QED
    BY <2>1, <2>2, ElementOfSeq
<1>3. sequence' = [a \in Signers |-> sequence[a] + (IF a \in Range(tx.signers) THEN 1 ELSE 0)]
  BY <1>1, Zenon DEF RunMsgs, Commit, Bumped, StateSequences
<1>4. sequence' \in [Signers -> Nat] /\ \A a \in Signers : sequence[a] <= sequence'[a]
  BY <1>1, <1>3
<1>5. tx.sigs[1].sequence \in Nat /\ tx.sigs[1].sequence < sequence'[tx.signers[1]]
  <2>1. tx.signers[1] \in Range(tx.signers) /\ tx.signers[1] \in Signers
    BY <1>1, <1>2, LenProperties, Zenon DEF Range
  <2>2. tx.sigs[1].sequence = sequence[tx.signers[1]]
    BY <1>1, <1>2, Zenon DEF SignedAsRouted
  <2>. QED
    BY <1>1, <1>3, <2>1, <2>2
<1>6. \A t \in executed' : /\ t \in Txs /\ t.sigs[1].sequence \in Nat
                           /\ t.sigs[1].sequence < sequence'[t.signers[1]]
  <2>. SUFFICES ASSUME NEW t \in executed'
                PROVE  /\ t \in Txs /\ t.sigs[1].sequence \in Nat
                       /\ t.sigs[1].sequence < sequence'[t.signers[1]]
    BY Zenon
  <2>1. CASE t = tx
    BY <1>1, <1>5, <2>1, Zenon
  <2>2. CASE t \in executed
    <3>1. /\ t \in Txs /\ t.sigs[1].sequence \in Nat
          /\ t.sigs[1].sequence < sequence[t.signers[1]]
      BY <2>2, Zenon DEF AInv
    <3>2. t.signers[1] \in Signers
      BY <1>2, <3>1, Zenon
    <3>. QED
      BY <1>1, <1>4, <3>1, <3>2
  <2>. QED
    BY <2>1, <2>2, Zenon DEF RunMsgs
<1>7. mode' = "idle" /\ decorator' = "idle"
  BY Zenon DEF RunMsgs, Leave
<1>. QED
  BY <1>4, <1>6, <1>7, Zenon DEF AInv, DeliverInv

\* Every step of the node keeps the invariant.
LEMMA NextAInv == AInv /\ [AnteNext]_anteVars => AInv'
<1>. SUFFICES ASSUME AInv, [AnteNext]_anteVars PROVE AInv'
  BY Zenon
<1>1. ASSUME NEW t \in Txs, CheckTx(t) \/ Simulate(t) \/ DeliverTx(t) PROVE AInv'
  BY <1>1, BeginStep, Zenon DEF CheckTx, Simulate, DeliverTx, stateVars
<1>2. CASE RecheckTx
  BY <1>2, BeginStep, Zenon DEF RecheckTx, stateVars
<1>3. CASE ExtractMessagesFromTx
  <2>1. CASE Reject
    BY <2>1, RejectStep, Zenon
  <2>2. CASE ~Reject
    <3>1. /\ decorator = "ExtractMessagesFromTx" /\ msgQueue # <<>>
          /\ UNCHANGED <<mode, tx, decorator, sequence, executed>>
          /\ Len(allMsgs) < MaxExtractedMessages
          /\ tx.msgs[msgQueue[1]] = "exec" => Len(msgQueue[1]) - 1 < MaxAuthzNestingDepth
          /\ allMsgs' = Append(allMsgs, msgQueue[1])
          /\ msgQueue' = Tail(msgQueue) \o InOrder(tx, msgQueue[1])
      BY <1>3, <2>2, Zenon DEF ExtractMessagesFromTx, stateVars
    <3>2. mode = "deliver" => Loop'
      BY <3>1, LoopTurns, Zenon DEF AInv, DeliverInv
    <3>. QED
      BY <3>1, <3>2, Zenon DEF AInv, DeliverInv, AfterLimits, AfterCommission, AfterAuthz, Verified
  <2>. QED
    BY <2>1, <2>2, Zenon
<1>4. CASE ValidateMessages
  BY <1>4, ValidateStep, Zenon
<1>5. CASE \/ ValidatorCommission \/ AuthzLimiter \/ ExtensionOptions
           \/ SigVerification \/ Eip712SigVerification \/ EvmAnteHandler
  BY <1>5, DecoratorStep, Zenon
<1>6. CASE IncrementSequence
  <2>1. CASE mode = "deliver"
    BY <1>6, <2>1, Zenon DEF IncrementSequence, Leave, stateVars, AInv, DeliverInv, AfterLimits,
                      AfterCommission, AfterAuthz, Verified
  <2>2. CASE mode # "deliver"
    BY <1>6, <2>2, Zenon DEF IncrementSequence, Leave, stateVars, AInv, DeliverInv
  <2>. QED
    BY <2>1, <2>2, Zenon
<1>7. CASE RunMsgs
  BY <1>7, RunStep, Zenon
<1>8. CASE UNCHANGED anteVars
  BY <1>8, Zenon DEF anteVars, AInv, DeliverInv, Loop
<1>. QED
  BY <1>1, <1>2, <1>3, <1>4, <1>5, <1>6, <1>7, <1>8, Zenon DEF AnteNext

\* What a block's transaction has passed, at each decorator.
THEOREM AnteInvariant == AnteSpec => []AInv
BY InitAInv, NextAInv, PTL DEF AnteSpec

\* No message escapes the decorators by being wrapped, for any tree of messages
\* and any limits.
THEOREM EveryMessageIsVetted == AnteSpec => []OnlyVettedMessagesRun
<1>1. ASSUME AInv PROVE OnlyVettedMessagesRun
  BY <1>1, Zenon DEF AInv, DeliverInv, OnlyVettedMessagesRun, AfterLimits, AfterCommission,
     AfterAuthz,
              WithinLimits, CommissionsInRange, NoneForOthers
<1>. QED
  BY <1>1, AnteInvariant, PTL

\* A signature is good for one execution: the sequence it carries is the
\* account's when its transaction runs and below it ever after.
THEOREM EverySignatureIsUsedOnce == AnteSpec => []SignedAndRunOnce
<1>1. ASSUME AInv, decorator = "RunMsgs"
      PROVE  tx \notin executed /\ SignedAsRouted(tx)
  <2>1. /\ tx \in Txs /\ SignedAsRouted(tx) /\ sequence \in [Signers -> Nat]
        /\ \A i \in 1..Len(tx.sigs) : tx.sigs[i].sequence = sequence[tx.signers[i]]
    BY <1>1, Zenon DEF AInv, DeliverInv, Verified
  <2>2. tx.signers \in Seq(Signers) /\ tx.signers # <<>>
    BY <2>1, TxsAssumption, Zenon
  <2>3. 1 \in 1..Len(tx.sigs) /\ tx.signers[1] \in Signers
    BY <2>1, <2>2, EmptySeq, ElementOfSeq DEF SignedAsRouted
  <2>4. tx.sigs[1].sequence = sequence[tx.signers[1]] /\ sequence[tx.signers[1]] \in Nat
    BY <2>1, <2>3, Zenon
  <2>5. \A t \in executed : t.sigs[1].sequence < sequence[t.signers[1]]
    BY <1>1, Zenon DEF AInv
  <2>6. ASSUME tx \in executed PROVE FALSE
    <3>. DEFINE n == sequence[tx.signers[1]]
    <3>1. n \in Nat /\ n < n
      BY <2>4, <2>5, <2>6, Zenon
    <3>. HIDE DEF n
    <3>. QED
      BY <3>1
  <2>. QED
    BY <2>1, <2>6, Zenon
<1>2. AInv => SignedAndRunOnce
  BY <1>1, Zenon DEF SignedAndRunOnce, SignedAsRouted, Form
<1>. QED
  BY <1>2, AnteInvariant, PTL

=============================================================================
