-------------------------- MODULE TransactionQueue --------------------------
(***************************************************************************)
(* The transaction queue of libethereum: TransactionQueue.{h,cpp}.         *)
(*                                                                         *)
(* Transactions that may go into the next block are in m_current, ordered  *)
(* by PriorityCompare and indexed by hash and by account and nonce; those  *)
(* too far ahead of their account are in m_future. Every public operation  *)
(* is one critical section of m_lock, and an action below; the order in    *)
(* which the RPC, network and client threads call them is free.            *)
(*                                                                         *)
(* The operations are chains of calls of four private helpers (remove,     *)
(* insertCurrent, makeCurrent, and the limit loop of manageImport), each   *)
(* an operator here from a state of the containers to the states it may    *)
(* leave.                                                                  *)
(***************************************************************************)
EXTENDS Integers, Sequences, FiniteSets, SequencesExt, QueueOps

CONSTANTS
    Tx,             \* transaction hashes
    Account,
    Sender,         \* Sender[t]: the account t is from
    Nonce,          \* Nonce[t]
    GasPrice,       \* GasPrice[t]
    Limit,          \* m_limit
    FutureLimit     \* m_futureLimit

ASSUME TxAssumption ==
    /\ IsFiniteSet(Tx)
    /\ Sender \in [Tx -> Account]
    /\ Nonce \in [Tx -> Nat]
    /\ GasPrice \in [Tx -> Nat]
    /\ Limit \in Nat
    /\ FutureLimit \in Nat

VARIABLES
    current,    \* m_current, in the order of the multiset
    byHash,     \* m_currentByHash: the transactions it has an entry for
    byNonce,    \* m_currentByAddressAndNonce: the transaction of each entry
    future,     \* m_future
    futureSize, \* m_futureSize
    known,      \* m_known
    dropped,    \* m_dropped
    ready,      \* m_onReady was called, and the subscriber has not seen to it
    replaced    \* the same of m_onReplaced

vars == <<current, byHash, byNonce, future, futureSize, known, dropped, ready,
          replaced>>

TypeOK ==
    /\ current \in Seq(Tx)
    /\ byHash \subseteq Tx
    /\ byNonce \subseteq Tx
    /\ future \subseteq Tx
    /\ futureSize \in Nat
    /\ known \subseteq Tx
    /\ dropped \subseteq Tx
    /\ ready \in BOOLEAN
    /\ replaced \in BOOLEAN

Init ==
    /\ current = <<>>
    /\ byHash = {}
    /\ byNonce = {}
    /\ future = {}
    /\ futureSize = 0
    /\ known = {}
    /\ dropped = {}
    /\ ready = FALSE
    /\ replaced = FALSE

\* The containers the helpers work on, and the result of a chain of helpers.
Containers == [current |-> current, byHash |-> byHash, byNonce |-> byNonce,
               future |-> future, futureSize |-> futureSize, known |-> known]

Become(q) ==
    /\ current' = q.current
    /\ byHash' = q.byHash
    /\ byNonce' = q.byNonce
    /\ future' = q.future
    /\ futureSize' = q.futureSize
    /\ known' = q.known

-----------------------------------------------------------------------------
(* Slots and priorities                                                    *)

SameSlot(t, u) == Sender[t] = Sender[u] /\ Nonce[t] = Nonce[u]

\* The transactions of S at the account and nonce of a member of T.
InSlotsOf(S, T) == {u \in S : \E t \in T : SameSlot(t, u)}

\* The nonce of t, counted from the lowest the index has for its account.
Height(index, t) ==
    Nonce[t] - Min({Nonce[u] : u \in {w \in index : Sender[w] = Sender[t]}})

\* PriorityCompare: t goes before u.
Before(index, t, u) ==
    \/ Height(index, t) < Height(index, u)
    \/ Height(index, t) = Height(index, u) /\ GasPrice[t] > GasPrice[u]

\* multiset::emplace leaves s[i] behind its last equal: not before its left
\* neighbour, before its right one. Where heights have changed since the others
\* were placed, s is not sorted and several places fit; the shape of the tree
\* decides, any of them here.
Fits(index, s, i) ==
    /\ i > 1 => ~Before(index, s[i], s[i - 1])
    /\ i < Len(s) => Before(index, s[i], s[i + 1])

\* r is s after the members of added were placed in turn.
IsEmplaced(r, s, added, index) ==
    /\ Without(r, ToSet(added)) = s
    /\ \A k \in DOMAIN added :
          LET sofar == Without(r, {added[j] : j \in (k + 1)..Len(added)})
          IN  \A i \in DOMAIN sofar : sofar[i] = added[k] => Fits(index, sofar, i)

Emplaced(s, added, index) ==
    {r \in SetToSeqs(ToSet(s) \cup ToSet(added)) : IsEmplaced(r, s, added, index)}

-----------------------------------------------------------------------------
(* The private helpers                                                     *)

\* Faulty variant: the entries of m_currentByAddressAndNonce stay.
RemoveAllKeepSlots(q, S) ==
    LET T == S \cap q.byHash
    IN  [q EXCEPT !.current = Without(@, T),
                  !.byHash = @ \ T,
                  !.known = @ \ T]

\* Faulty variant: the hashes stay in m_known.
RemoveAllKeepKnown(q, S) ==
    LET T == S \cap q.byHash
    IN  [q EXCEPT !.current = Without(@, T),
                  !.byHash = @ \ T,
                  !.byNonce = @ \ InSlotsOf(@, T)]

\* remove_WITH_LOCK of each of S that m_currentByHash has.
RemoveAll(q, S) ==
    LET T == S \cap q.byHash
    IN  [q EXCEPT !.current = Without(@, T),
                  !.byHash = @ \ T,
                  !.byNonce = @ \ InSlotsOf(@, T),
                  !.known = @ \ T]

\* Faulty variant: takes the next nonce only.
RunAfterOne(q, t) ==
    LET next == {u \in q.future : Sender[u] = Sender[t] /\ Nonce[u] = Nonce[t] + 1}
    IN  SetToSeq(next)

\* The future transactions with the nonces that follow t's without a gap.
RunAfter(q, t) ==
    LET ofSender == {u \in q.future : Sender[u] = Sender[t] /\ Nonce[u] > Nonce[t]}
        run == {u \in ofSender : \A n \in (Nonce[t] + 1)..Nonce[u] :
                                    \E w \in ofSender : Nonce[w] = n}
    IN  [i \in 1..Cardinality(run) |-> CHOOSE u \in run : Nonce[u] = Nonce[t] + i]

\* The last loop of makeCurrent_WITH_LOCK drops from the highest nonce down of
\* an account, and from the next one when this has none left.
IsTrimmed(kept, all, excess) ==
    LET gone == all \ kept
        cut == {Sender[t] : t \in gone}
    IN  /\ Cardinality(gone) = excess
        /\ \A t \in gone : \A u \in kept : Sender[t] = Sender[u] => Nonce[u] < Nonce[t]
        /\ Cardinality({a \in cut : \E u \in kept : Sender[u] = a}) <= 1

\* Faulty variant: m_futureSize is not counted down.
TrimFutureUncounted(q) ==
    LET excess == IF q.futureSize > FutureLimit THEN q.futureSize - FutureLimit ELSE 0
    IN  {[q EXCEPT !.future = kept] :
            kept \in {S \in SUBSET q.future : IsTrimmed(S, q.future, excess)}}

TrimFuture(q) ==
    LET excess == IF q.futureSize > FutureLimit THEN q.futureSize - FutureLimit ELSE 0
    IN  {[q EXCEPT !.future = kept, !.futureSize = @ - excess] :
            kept \in {S \in SUBSET q.future : IsTrimmed(S, q.future, excess)}}

\* makeCurrent_WITH_LOCK. The heights do not change between the placements, as
\* the first has the lowest nonce of the run.
MakeCurrent(q, t) ==
    LET run == RunAfter(q, t)
        index == (q.byNonce \ InSlotsOf(q.byNonce, ToSet(run))) \cup ToSet(run)
    IN  UNION {TrimFuture([q EXCEPT !.current = r,
                                    !.byHash = @ \cup ToSet(run),
                                    !.byNonce = index,
                                    !.future = @ \ ToSet(run),
                                    !.futureSize = @ - Len(run)]) :
                  r \in Emplaced(q.current, run, index)}

\* insertCurrent_WITH_LOCK.
InsertCurrent(q, t) ==
    IF t \in q.byHash
    THEN {q}
    ELSE LET index == (q.byNonce \ InSlotsOf(q.byNonce, {t})) \cup {t}
             placed == {[q EXCEPT !.current = r, !.byHash = @ \cup {t}, !.byNonce = index] :
                           r \in Emplaced(q.current, <<t>>, index)}
         IN  {[p EXCEPT !.known = @ \cup {t}] :
                 p \in UNION {MakeCurrent(w, t) : w \in placed}}

\* Faulty variant: drops one at most.
EvictOne(q) == RemoveAll(q, IF Len(q.current) > Limit THEN {Last(q.current)} ELSE {})

\* The loop of manageImport_WITH_LOCK: the last of m_current go.
Evict(q) == RemoveAll(q, ToSet(SubSeq(q.current, Limit + 1, Len(q.current))))

-----------------------------------------------------------------------------
(* The operations                                                          *)

\* check_WITH_LOCK finds nothing against t; ik is Retry or Ignore.
Accepted(t, retry) ==
    /\ t \notin known
    /\ t \in dropped => retry

\* Faulty variant: no look at m_future.
OverbidInCurrent(q, t) == \E u \in InSlotsOf(q.byNonce, {t}) : GasPrice[t] < GasPrice[u]

\* OverbidGasPrice: the slot is taken, for a higher price. The code looks into
\* m_current, vacates the slot there, and then looks into m_future; no slot is
\* taken in both (OnePerSlot), so one look at both is the same.
Overbid(q, t) ==
    \E u \in InSlotsOf(q.byNonce \cup q.future, {t}) : GasPrice[t] < GasPrice[u]

\* Faulty variant: the transaction in m_future stays.
VacateCurrent(q, t) == RemoveAll(q, InSlotsOf(q.byNonce, {t}))

\* The transaction t replaces goes, from m_current or from m_future. m_known
\* keeps the hash of the latter.
Vacate(q, t) ==
    LET old == InSlotsOf(q.future, {t})
    IN  [RemoveAll(q, InSlotsOf(q.byNonce, {t}))
            EXCEPT !.future = @ \ old, !.futureSize = @ - Cardinality(old)]

\* Faulty variant: m_onReplaced is not called.
ImportUnheard(t, retry) ==
    /\ Accepted(t, retry)
    /\ ~Overbid(Containers, t)
    /\ \E q \in InsertCurrent(Vacate(Containers, t), t) : Become(Evict(q))
    /\ ready' = TRUE
    /\ UNCHANGED <<replaced, dropped>>

\* import(t, ik), where it does not return early: AlreadyKnown, AlreadyInChain
\* (m_dropped) and OverbidGasPrice leave everything as it is.
Import(t, retry) ==
    /\ Accepted(t, retry)
    /\ ~Overbid(Containers, t)
    /\ \E q \in InsertCurrent(Vacate(Containers, t), t) : Become(Evict(q))
    /\ ready' = TRUE
    /\ replaced' = (replaced \/ InSlotsOf(byNonce, {t}) # {})
    /\ UNCHANGED dropped

\* drop(t). A transaction in m_future is marked, and stays.
Drop(t) ==
    /\ t \in known
    /\ dropped' = dropped \cup {t}
    /\ Become(RemoveAll(Containers, {t}))
    /\ UNCHANGED <<ready, replaced>>

\* Faulty variant: nobody is told of what became current.
DropGoodSilent(t) ==
    /\ \E q \in MakeCurrent(Containers, t) : Become(RemoveAll(q, {t} \cap known))
    /\ UNCHANGED <<ready, dropped, replaced>>

\* dropGood(t), for any transaction t of an imported block.
DropGood(t) ==
    /\ \E q \in MakeCurrent(Containers, t) : Become(RemoveAll(q, {t} \cap known))
    /\ ready' = (ready \/ RunAfter(Containers, t) # <<>>)
    /\ UNCHANGED <<dropped, replaced>>

\* Faulty variant: m_futureSize is not counted up.
SetFutureUncounted(t) ==
    LET cutoff == {u \in byNonce : Sender[u] = Sender[t] /\ Nonce[u] >= Nonce[t]}
    IN  /\ t \in byHash
        /\ byHash' = byHash \ cutoff
        /\ byNonce' = byNonce \ cutoff
        /\ current' = Without(current, cutoff)
        /\ future' = future \cup (cutoff \ InSlotsOf(cutoff, future))
        /\ UNCHANGED <<futureSize, known, dropped, ready, replaced>>

\* setFuture(t): t and the transactions of its account with a higher nonce.
\* map::emplace leaves a slot alone that is taken.
SetFuture(t) ==
    LET cutoff == {u \in byNonce : Sender[u] = Sender[t] /\ Nonce[u] >= Nonce[t]}
    IN  /\ t \in byHash
        /\ byHash' = byHash \ cutoff
        /\ byNonce' = byNonce \ cutoff
        /\ current' = Without(current, cutoff)
        /\ future' = future \cup (cutoff \ InSlotsOf(cutoff, future))
        /\ futureSize' = futureSize + Cardinality(cutoff)
        /\ UNCHANGED <<known, dropped, ready, replaced>>

\* clear().
Clear ==
    /\ Become([current |-> <<>>, byHash |-> {}, byNonce |-> {}, future |-> {},
               futureSize |-> 0, known |-> {}])
    /\ dropped' = {}
    /\ UNCHANGED <<ready, replaced>>

\* The client thread sees to m_syncTransactionQueue and m_needStateReset.
Attend ==
    /\ ready \/ replaced
    /\ ready' = FALSE
    /\ replaced' = FALSE
    /\ UNCHANGED <<current, byHash, byNonce, future, futureSize, known, dropped>>

Next ==
    \/ \E t \in Tx : \E retry \in BOOLEAN : Import(t, retry)
    \/ \E t \in Tx : Drop(t)
    \/ \E t \in Tx : DropGood(t)
    \/ \E t \in Tx : SetFuture(t)
    \/ Clear
    \/ Attend

Spec == Init /\ [][Next]_vars

-----------------------------------------------------------------------------
(* Properties                                                              *)

Queued == ToSet(current) \cup future

\* The three containers of the current transactions hold the same ones, once:
\* m_currentByHash and m_currentByAddressAndNonce keep iterators into m_current,
\* and one left behind would dangle.
IndicesAgree ==
    /\ IsInjective(current)
    /\ byHash = ToSet(current)
    /\ byNonce = ToSet(current)

\* An account has one transaction per nonce, in m_current or in m_future. The
\* operations never look into both for a collision: makeCurrent and setFuture
\* move transactions from one to the other as if their slots were free.
OnePerSlot ==
    /\ ToSet(current) \cap future = {}
    /\ \A t, u \in Queued : SameSlot(t, u) => t = u

\* m_futureSize, counted up and down by four operations, is the number of
\* transactions in m_future: the loop that trims m_future trusts it.
FutureCounted == futureSize = Cardinality(future)

\* A transaction in the queue is known, so that import() does not take it twice.
KnownCovers == Queued \subseteq known

\* m_known: "Headers of transactions in both sets". What is queued is known, and a
\* transaction that was current is forgotten when it leaves the queue, replaced,
\* evicted or dropped, and whatever moved at the same time: only what was in
\* m_future leaves its hash behind, to be refused as AlreadyKnown from then on.
KnownFollowsQueue ==
    [][/\ KnownCovers'
       /\ known' \ Queued' \subseteq known \ ToSet(current)]_vars

\* "up to _limit transactions ordered by nonce and gas price": an account's
\* transactions are given out in the order of their nonces.
NonceOrder ==
    \A i, j \in DOMAIN current :
        i < j /\ Sender[current[i]] = Sender[current[j]]
            => Nonce[current[i]] < Nonce[current[j]]

\* After an import that changed something both queues are within their limits,
\* whatever dropGood() and setFuture() had moved before.
LimitsAfterImport ==
    [][\A t \in Tx : t \notin known /\ t \in known' =>
          Len(current') <= Limit /\ Cardinality(future') <= FutureLimit]_vars

\* A transaction gives up its place only to one that pays at least as much,
\* whichever of the containers they are in.
NeverUnderbid ==
    [][\A t \in Queued : \A u \in Queued' :
          SameSlot(t, u) => GasPrice[t] <= GasPrice[u]]_vars

\* m_onReady is called by every step that adds to the current transactions,
\* from outside or out of m_future.
ReadyToldOfNew ==
    [][ToSet(current') \subseteq ToSet(current) \/ ready']_vars

\* m_onReplaced is called when a current transaction, which the pending block
\* may contain already, makes room for another.
ReplacedTold ==
    [][\A t \in ToSet(current) : \A u \in ToSet(current') :
          SameSlot(t, u) /\ t # u => replaced']_vars

\* When a transaction becomes current, the next one of its account does not
\* stay behind in m_future.
SuccessorFollows ==
    [][\A t \in ToSet(current') \ ToSet(current) : \A u \in future' :
          Sender[u] = Sender[t] => Nonce[u] # Nonce[t] + 1]_vars
=============================================================================
