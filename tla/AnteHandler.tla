---------------------------- MODULE AnteHandler ----------------------------
(***************************************************************************)
(* What a transaction passes before its messages run: the router of        *)
(* NewAnteHandler, the decorator chain of cosmosAnteDecorators with its    *)
(* two signature verifiers, and the states it runs on.  CheckTx works on   *)
(* the check state and fills the mempool, a block works on the committed   *)
(* state, and after each block the mempool is checked again.               *)
(*                                                                         *)
(* A transaction's messages are a tree, MsgExec holding others: a function *)
(* from paths (<<2, 1>> is the first message inside the second one) to     *)
(* what the decorators tell apart about a message.  Decoding makes every   *)
(* message an object of its own, so the pointer keys of msgDedupKey are    *)
(* the paths.  A step is a decorator, or a turn of a decorator's loop.     *)
(***************************************************************************)
EXTENDS Integers, Sequences, FiniteSets, Functions

CONSTANTS
    MaxAuthzNestingDepth, MaxExtractedMessages,   \* of message_security.go
    maxAuthzValidationDepth,                      \* of comission.go
    Signers, Txs,
    MaxBlocks,        \* bound on the blocks, one transaction each
    MaxMempool        \* bound on the transactions waiting

VARIABLES
    mode,         \* what runs the chain: check, recheck, deliver or simulate
    tx,           \* the transaction in the chain, or NoTx
    decorator,    \* the decorator whose turn it is, or idle
    msgQueue,     \* the queue of ExtractMessagesFromTx
    allMsgs,      \* the messages it has collected
    sequence,     \* the committed account sequences
    checkSequence,\* those of the check state
    mempool,
    rechecking,   \* the transactions of the mempool still to be rechecked
    executed,     \* the transactions whose messages ran in a block
    blocks

anteVars == <<mode, tx, decorator, msgQueue, allMsgs, sequence, checkSequence,
              mempool, rechecking, executed, blocks>>
stateVars == <<sequence, checkSequence, mempool, rechecking, executed, blocks>>

NoTx == [msgs |-> <<>>, ext |-> <<>>, signers |-> <<>>, sigs |-> <<>>]
Children(t, p) == {q \in DOMAIN t.msgs : Len(q) = Len(p) + 1 /\ SubSeq(q, 1, Len(p)) = p}
InOrder(t, p) == [i \in 1..Cardinality(Children(t, p)) |-> Append(p, i)]

\* What decoding and the SDK's ValidateBasic decorator leave: the messages of a
\* list are numbered from 1, only a MsgExec that can be unpacked holds others,
\* and somebody signs.
ASSUME TxsAssumption ==
    /\ MaxAuthzNestingDepth \in Nat /\ MaxExtractedMessages \in Nat
    /\ \A t \in Txs :
          /\ t.signers \in Seq(Signers) /\ t.signers # <<>>
          /\ IsFiniteSet(DOMAIN t.msgs)
          /\ \A p \in DOMAIN t.msgs :
                /\ p \in Seq(Nat) /\ p # <<>>
                /\ \A k \in 1..Len(p) - 1 : SubSeq(p, 1, k) \in DOMAIN t.msgs
                /\ Children(t, p) # {} => t.msgs[p] = "exec"
          /\ \A p \in DOMAIN t.msgs \cup {<<>>} :
                Children(t, p) = {Append(p, i) : i \in 1..Cardinality(Children(t, p))}

(***************************************************************************)
(* The router.  A transaction is routed by the first extension option the  *)
(* router knows, at whatever position it stands.                           *)
(***************************************************************************)

ExtensionOptionTypeURL(t) ==
    LET known == SelectSeq(t.ext, LAMBDA o : o \in {"eth", "web3"})
    IN  IF known = <<>> THEN "" ELSE known[1]

\* The sequences of the state the chain runs on.
StateSequences == IF mode = "deliver" THEN sequence ELSE checkSequence

Begin(m, t) ==
    /\ mode' = m /\ tx' = t
    /\ decorator' = IF ExtensionOptionTypeURL(t) = "eth" THEN "EvmAnteHandler"
                    ELSE "ExtractMessagesFromTx"
    /\ msgQueue' = InOrder(t, <<>>) /\ allMsgs' = <<>>

Idle == decorator = "idle" /\ rechecking = <<>>

CheckTx(t) ==
    /\ Idle /\ Len(mempool) < MaxMempool /\ t \notin Range(mempool)
    /\ Begin("check", t)
    /\ UNCHANGED stateVars

Simulate(t) == Idle /\ Begin("simulate", t) /\ UNCHANGED stateVars

\* A proposer may put any transaction into a block, checked or not.
DeliverTx(t) ==
    /\ Idle /\ blocks < MaxBlocks
    /\ Begin("deliver", t)
    /\ blocks' = blocks + 1
    /\ UNCHANGED <<sequence, checkSequence, mempool, rechecking, executed>>

RecheckTx ==
    /\ decorator = "idle" /\ rechecking # <<>>
    /\ Begin("recheck", rechecking[1])
    /\ UNCHANGED stateVars

(***************************************************************************)
(* The end of a chain.  A failed one leaves its state as it was; a block   *)
(* is committed either way, which resets the check state and starts the    *)
(* recheck of the transactions it did not hold.                            *)
(***************************************************************************)

Leave == mode' = "idle" /\ tx' = NoTx /\ decorator' = "idle" /\ msgQueue' = <<>> /\ allMsgs' = <<>>

Commit(sequences) ==
    /\ sequence' = sequences /\ checkSequence' = sequences
    /\ mempool' = SelectSeq(mempool, LAMBDA t : t # tx)
    /\ rechecking' = mempool'
    /\ UNCHANGED blocks

Reject ==
    /\ Leave
    /\ \/ mode \in {"check", "simulate"} /\ UNCHANGED stateVars
       \/ /\ mode = "recheck"
          /\ mempool' = SelectSeq(mempool, LAMBDA t : t # tx)
          /\ rechecking' = Tail(rechecking)
          /\ UNCHANGED <<sequence, checkSequence, executed, blocks>>
       \/ mode = "deliver" /\ Commit(sequence) /\ UNCHANGED executed

\* The next decorator, or the end when this one returns an error.
Pass(ok, next) ==
    \/ ok /\ decorator' = next /\ UNCHANGED <<mode, tx, msgQueue, allMsgs, stateVars>>
    \/ ~ok /\ Reject

(***************************************************************************)
(* The decorators of this chain, in the order of cosmosAnteDecorators.     *)
(***************************************************************************)

\* A turn of the breadth-first loop of ExtractMessagesFromTx.
ExtractMessagesFromTx ==
    /\ decorator = "ExtractMessagesFromTx" /\ msgQueue # <<>>
    /\ LET msg == msgQueue[1]
           exec == tx.msgs[msg] \in {"exec", "broken"}
       IN  \/ /\ \/ Len(allMsgs) >= MaxExtractedMessages
                 \/ exec /\ Len(msg) - 1 >= MaxAuthzNestingDepth
                 \/ tx.msgs[msg] = "broken"             \* GetMessages fails
              /\ Reject
           \/ /\ Len(allMsgs) < MaxExtractedMessages
              /\ exec => Len(msg) - 1 < MaxAuthzNestingDepth /\ tx.msgs[msg] = "exec"
              /\ allMsgs' = Append(allMsgs, msg)
              /\ msgQueue' = Tail(msgQueue) \o InOrder(tx, msg)
              /\ UNCHANGED <<mode, tx, decorator, stateVars>>

\* validateMessage of each: a wasm message is valid and at most 1MB, an EVM
\* message has a gas limit that is not 0 and at most maxTxGasWanted.
ValidateMessages ==
    /\ decorator = "ExtractMessagesFromTx" /\ msgQueue = <<>>
    /\ Pass(\A i \in 1..Len(allMsgs) : tx.msgs[allMsgs[i]] \notin {"wasm_bad", "eth_bad"},
            "ValidatorCommission")

\* Mutated form: a MsgExec inside a MsgExec is not looked into.
CommissionOneLevel ==
    /\ decorator = "ValidatorCommission"
    /\ Pass(\A p \in DOMAIN tx.msgs : Len(p) <= 2 => tx.msgs[p] # "commission_low",
            "AuthzLimiter")

\* validateMsg and validateAuthzDepth: no commission below minCommission at
\* any depth.  The walk stops at its first error, so that it passes exactly
\* when there is none.
ValidatorCommission ==
    /\ decorator = "ValidatorCommission"
    /\ Pass(\A p \in DOMAIN tx.msgs :
              /\ tx.msgs[p] \notin {"commission_low", "broken"}
              /\ tx.msgs[p] = "exec" => Len(p) - 1 < maxAuthzValidationDepth,
            "AuthzLimiter")

\* RejectMessages and AuthzLimiter of cosmos/evm, the latter given the list of
\* DisabledAuthzMsgTypeURLs: a listed message ("disabled", and every EVM
\* message) is neither granted nor executed for somebody else.
Disabled == {"disabled", "eth", "eth_bad"}

AuthzLimiter ==
    /\ decorator = "AuthzLimiter"
    /\ Pass(\A p \in DOMAIN tx.msgs :
              /\ tx.msgs[p] # "grant_disabled"
              /\ tx.msgs[p] \in Disabled => Len(p) = 1 /\ tx.msgs[p] = "disabled",
            "ExtensionOptions")

\* The option checker of each chain: HasWeb3ExtensionOption of the EIP-712
\* one, HasDynamicFeeExtensionOption of the other.
ExtensionOptions ==
    /\ decorator = "ExtensionOptions"
    /\ Pass(\A i \in 1..Len(tx.ext) :
              tx.ext[i] = IF ExtensionOptionTypeURL(tx) = "web3" THEN "web3" ELSE "dynamic_fee",
            IF ExtensionOptionTypeURL(tx) = "web3" THEN "Eip712SigVerification"
            ELSE "SigVerification")

SequencesMatch ==
    /\ Len(tx.sigs) = Len(tx.signers)
    /\ \A i \in 1..Len(tx.sigs) : tx.sigs[i].sequence = StateSequences[tx.signers[i]]

\* The SDK's verifier: the sequences always, the signatures when they count.
SigVerification ==
    /\ decorator = "SigVerification"
    /\ Pass(/\ SequencesMatch
            /\ mode \in {"check", "deliver"} =>
                 \A i \in 1..Len(tx.sigs) : tx.sigs[i].form = "direct",
            "IncrementSequence")

\* Mutated form: the sequence is left to the typed data, which is built with it.
Eip712WithoutSequence ==
    /\ decorator = "Eip712SigVerification"
    /\ Pass(/\ Len(tx.sigs) = 1 /\ Len(tx.signers) = 1
            /\ mode = "deliver" => tx.sigs[1].form = "eip712" /\ Len(tx.ext) = 1,
            "IncrementSequence")

\* Eip712SigVerificationDecorator: nothing on a recheck, and exactly one
\* signature, whose signer, key, sequence and, unless it is a simulation, typed
\* data are checked.
Eip712SigVerification ==
    /\ decorator = "Eip712SigVerification"
    /\ Pass(mode # "recheck" =>
              /\ Len(tx.sigs) = 1
              /\ SequencesMatch
              /\ mode # "simulate" => tx.sigs[1].form = "eip712" /\ Len(tx.ext) = 1,
            "IncrementSequence")

\* The chain of cosmos/evm for an Ethereum transaction.
EvmAnteHandler ==
    /\ decorator = "EvmAnteHandler"
    /\ Pass(/\ tx.ext[1] = "eth" /\ \A p \in DOMAIN tx.msgs : tx.msgs[p] = "eth"
            /\ SequencesMatch
            /\ \A i \in 1..Len(tx.sigs) : tx.sigs[i].form = "ethereum",
            "IncrementSequence")

\* IncrementSequence, the last decorator that decides anything, and then the
\* end of CheckTx, the recheck or the simulation, or the messages' turn.
Bumped == [a \in Signers |-> StateSequences[a] + (IF a \in Range(tx.signers) THEN 1 ELSE 0)]

IncrementSequence ==
    /\ decorator = "IncrementSequence"
    /\ \/ mode = "simulate" /\ Leave /\ UNCHANGED stateVars
       \/ /\ mode = "check"
          /\ Leave
          /\ checkSequence' = Bumped /\ mempool' = Append(mempool, tx)
          /\ UNCHANGED <<sequence, rechecking, executed, blocks>>
       \/ /\ mode = "recheck"
          /\ Leave
          /\ checkSequence' = Bumped /\ rechecking' = Tail(rechecking)
          /\ UNCHANGED <<sequence, mempool, executed, blocks>>
       \/ /\ mode = "deliver"
          /\ decorator' = "RunMsgs"
          /\ UNCHANGED <<mode, tx, msgQueue, allMsgs, stateVars>>

\* The messages run, those inside a MsgExec too, and the block is committed
\* with the sequences of the ante chain whether they succeed or not.
RunMsgs ==
    /\ decorator = "RunMsgs"
    /\ Leave
    /\ executed' = executed \cup {tx}
    /\ Commit(Bumped)

(***************************************************************************)
(* Specification                                                           *)
(***************************************************************************)

AnteInit ==
    /\ mode = "idle" /\ tx = NoTx /\ decorator = "idle" /\ msgQueue = <<>> /\ allMsgs = <<>>
    /\ sequence = [a \in Signers |-> 0] /\ checkSequence = sequence
    /\ mempool = <<>> /\ rechecking = <<>> /\ executed = {} /\ blocks = 0

AnteNext ==
    \/ \E t \in Txs : CheckTx(t) \/ Simulate(t) \/ DeliverTx(t)
    \/ RecheckTx
    \/ ExtractMessagesFromTx \/ ValidateMessages \/ ValidatorCommission
    \/ AuthzLimiter \/ ExtensionOptions \/ SigVerification \/ Eip712SigVerification
    \/ EvmAnteHandler \/ IncrementSequence \/ RunMsgs

AnteSpec == AnteInit /\ [][AnteNext]_anteVars

(***************************************************************************)
(* Properties                                                              *)
(***************************************************************************)

\* No message escapes the decorators by being wrapped: whatever runs, at any
\* depth of MsgExec and on either Cosmos chain, has a payload within bounds and
\* a commission of at least 5%, no listed message runs for somebody else, and
\* the tree is within the limits on count and depth.
OnlyVettedMessagesRun ==
    decorator = "RunMsgs" /\ ExtensionOptionTypeURL(tx) # "eth" =>
        /\ Cardinality(DOMAIN tx.msgs) <= MaxExtractedMessages
        /\ \A p \in DOMAIN tx.msgs :
              /\ tx.msgs[p] \notin {"wasm_bad", "eth_bad", "commission_low", "broken"}
              /\ Len(p) - 1 <= MaxAuthzNestingDepth
              /\ Len(p) > 1 => tx.msgs[p] \notin Disabled

\* A signature is good for one execution, on every route: what runs has not
\* run before, and carries for each signer a signature of the scheme of its
\* route, although an EIP-712 transaction is not verified on a recheck.
SignedAndRunOnce ==
    decorator = "RunMsgs" =>
        /\ tx \notin executed
        /\ Len(tx.sigs) = Len(tx.signers)
        /\ \A i \in 1..Len(tx.sigs) :
              tx.sigs[i].form = CASE ExtensionOptionTypeURL(tx) = "eth" -> "ethereum"
                                  [] ExtensionOptionTypeURL(tx) = "web3" -> "eip712"
                                  [] OTHER -> "direct"
=============================================================================
