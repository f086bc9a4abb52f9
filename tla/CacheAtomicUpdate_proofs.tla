---------------------- MODULE CacheAtomicUpdate_proofs ----------------------
(***************************************************************************)
(* Theorems about CacheAtomicUpdate, for any processes, any calls and any  *)
(* retry budget.                                                           *)
(*                                                                         *)
(* The argument: the promise chain makes the calls of a process run in the *)
(* order they were made (ChainInv, EntryInv); so whatever an update reads  *)
(* reflects only earlier calls of its own process (RecordInv); a casSet    *)
(* that finds another value than the one read was overtaken by somebody    *)
(* else since (BudgetInv).                                                 *)
(***************************************************************************)
EXTENDS CacheAtomicUpdate, TLAPS

Called(u) == pc[u] # "idle"
Pending(u) == pc[u] = "cas" \/ u \in late

TicketInv ==
    /\ \A u \in Upd : Called(u) => ticket[u] \in 1..calls[Owner[u]]
    /\ \A u, v \in Upd :
         (Called(u) /\ Called(v) /\ Owner[u] = Owner[v] /\ ticket[u] = ticket[v])
            => u = v

(* v's predecessors: the calls its process made before it.                 *)
Before(u, v) == Called(u) /\ Owner[u] = Owner[v] /\ ticket[u] < ticket[v]

ChainInv ==
    \A v \in Upd :
        /\ Begun(v) => \A u \in Upd : Before(u, v) => pc[u] = "settled"
        /\ (pc[v] = "queued" /\ previous[v] = NoUpd)
              => \A u \in Upd : Before(u, v) => pc[u] = "settled"
        /\ (pc[v] = "queued" /\ previous[v] # NoUpd)
              => /\ Before(previous[v], v)
                 /\ \A u \in Upd : Before(u, v) => ticket[u] <= ticket[previous[v]]

EntryInv ==
    \A p \in Proc :
        /\ inflightUpdates[p] = NoUpd
              => \A u \in Mine(p) : Called(u) => pc[u] = "settled"
        /\ inflightUpdates[p] # NoUpd
              => /\ Owner[inflightUpdates[p]] = p
                 /\ pc[inflightUpdates[p]] \notin {"idle", "settled"}
                 /\ ticket[inflightUpdates[p]] = calls[p]

OnceInv ==
    \A u \in Upd :
        /\ pc[u] \in {"idle", "queued", "get", "cas"} => u \notin late \union applied
        /\ u \in late => u \notin applied

(* What a record holds was applied; what an update read was applied by     *)
(* earlier calls of its process, in order.                                 *)
Reflects(s, S) == \A i \in 1..Len(s) : s[i] \in S

RecordInv ==
    /\ value # NoValue => Reflects(value, applied) /\ InCallOrder(value)
    /\ \A u \in Upd : (Pending(u) /\ raw[u] # NoValue)
          => /\ Reflects(raw[u], applied)
             /\ InCallOrder(raw[u])
             /\ \A i \in 1..Len(raw[u]) :
                    Owner[raw[u][i]] = Owner[u] => ticket[raw[u][i]] < ticket[u]

BudgetInv ==
    \A u \in Upd :
        /\ pc[u] \in {"idle", "queued"} => attempt[u] = 0
        /\ Running(u) => attempt[u] < MaxRetries /\ attempt[u] <= clash[u]
        /\ (pc[u] = "cas" /\ value # raw[u]) => attempt[u] < clash[u]

IInv ==
    /\ TypeOK
    /\ TicketInv
    /\ ChainInv
    /\ EntryInv
    /\ OnceInv
    /\ RecordInv
    /\ BudgetInv
    /\ NoSilentDrop

-----------------------------------------------------------------------------
(* What mutate does to a record: it stays a record, gains one last element.*)
LEMMA MutateProperties ==
    ASSUME NEW v \in Values, NEW u \in Upd
    PROVE  /\ mutate(u, v) \in Seq(Upd)
           /\ mutate(u, v) # NoValue
           /\ Len(mutate(u, v)) = Len(Base(v)) + 1
           /\ mutate(u, v)[Len(Base(v)) + 1] = u
           /\ \A i \in 1..Len(Base(v)) : mutate(u, v)[i] = Base(v)[i]
           /\ Base(v) \in Seq(Upd)
<1>1. Base(v) \in Seq(Upd)
  BY DEF Values, Base
<1>2. mutate(u, v) \in Seq(Upd)
  BY <1>1 DEF mutate
<1> QED
  BY <1>1, <1>2, NoValueAssumption DEF mutate

(* Before the first call the strengthened invariant holds.                 *)
LEMMA InitInv == Init => IInv
<1> SUFFICES ASSUME Init PROVE IInv
  OBVIOUS
<1> USE DEF Init
<1>1. TypeOK
  <2>1. value \in Values /\ raw \in [Upd -> Values]
    <3>1. <<>> \in Seq(Upd)
      OBVIOUS
    <3> QED
      BY <3>1 DEF Values
  <2>2. attempt \in [Upd -> 0..MaxRetries]
    BY MaxRetriesAssumption
  <2> QED
    BY <2>1, <2>2 DEF TypeOK, Steps
<1>2. TicketInv /\ ChainInv
  BY DEF TicketInv, ChainInv, Called, Begun, Before
<1>3. EntryInv /\ OnceInv
  BY DEF EntryInv, OnceInv, Called, Mine
<1>4. RecordInv
  BY DEF RecordInv, Reflects, InCallOrder, Pending
<1>5. BudgetInv /\ NoSilentDrop
  BY DEF BudgetInv, NoSilentDrop, Running
<1> QED
  BY <1>1, <1>2, <1>3, <1>4, <1>5 DEF IInv

(* Every step keeps the types; the loop counter needs its budget.          *)
LEMMA TypeStep == TypeOK /\ BudgetInv /\ [Next]_vars => TypeOK'
<1> SUFFICES ASSUME TypeOK, BudgetInv, [Next]_vars PROVE TypeOK'
  OBVIOUS
<1> USE OwnerAssumption, MaxRetriesAssumption
<1> USE DEF TypeOK, Steps, Goto, Excuse, Hit, map, store, loop, hist
<1>1. ASSUME NEW u \in Upd, cacheAtomicUpdate(u) PROVE TypeOK'
  BY <1>1 DEF cacheAtomicUpdate
<1>2. ASSUME NEW u \in Upd, Begin(u) \/ BeginWithoutClient(u) PROVE TypeOK'
  BY <1>2 DEF Begin, BeginWithoutClient
<1>3. ASSUME NEW u \in Upd, Get(u) \/ GetFails(u) PROVE TypeOK'
  BY <1>3 DEF Get, GetFails
<1>4. ASSUME NEW u \in Upd, CasCommits(u) \/ CasCommitsUnanswered(u) \/ LateCommits(u)
      PROVE TypeOK'
  <2>1. mutate(u, raw[u]) \in Values
    BY MutateProperties DEF Values
  <2> QED
    BY <1>4, <2>1 DEF CasCommits, CasCommitsUnanswered, LateCommits, Write
<1>5. ASSUME NEW u \in Upd, CasConflicts(u) PROVE TypeOK'
  <2>1. attempt[u] + 1 \in 0..MaxRetries
    BY <1>5 DEF CasConflicts, BudgetInv, Running
  <2> QED
    BY <1>5, <2>1 DEF CasConflicts
<1>6. ASSUME NEW u \in Upd, CasFails(u) \/ LateConflicts(u) \/ Finally(u) PROVE TypeOK'
  BY <1>6 DEF CasFails, LateConflicts, Finally
<1>7. ASSUME NEW p \in Proc, Crash(p) PROVE TypeOK'
  BY <1>7 DEF Crash, Mine
<1>8. CASE Disappear
  BY <1>8 DEF Disappear, Values
<1>9. CASE UNCHANGED vars
  BY <1>9 DEF vars
<1> QED
  BY <1>1, <1>2, <1>3, <1>4, <1>5, <1>6, <1>7, <1>8, <1>9 DEF Next, casUpdate

(* The tickets number the calls of a process without repetition.           *)
LEMMA TicketStep == TypeOK /\ TicketInv /\ [Next]_vars => TicketInv'
<1> SUFFICES ASSUME TypeOK, TicketInv, [Next]_vars PROVE TicketInv'
  OBVIOUS
<1> USE OwnerAssumption
<1> USE DEF TypeOK, TicketInv, Called, Steps, Goto, map
<1>1. ASSUME NEW u \in Upd, cacheAtomicUpdate(u) PROVE TicketInv'
  BY <1>1 DEF cacheAtomicUpdate
<1>2. ASSUME NEW u \in Upd, casUpdate(u) PROVE TicketInv'
  BY <1>2 DEF casUpdate, Begin, BeginWithoutClient, MayBegin, Get, GetFails, CasCommits,
              CasCommitsUnanswered, CasConflicts, CasFails, Finally
<1>3. ASSUME NEW p \in Proc, Crash(p) PROVE TicketInv'
  BY <1>3 DEF Crash, Mine
<1>4. CASE Disappear \/ \E u \in Upd : LateCommits(u) \/ LateConflicts(u)
  BY <1>4 DEF Disappear, LateCommits, LateConflicts, loop
<1>5. CASE UNCHANGED vars
  BY <1>5 DEF vars, loop
<1> QED
  BY <1>1, <1>2, <1>3, <1>4, <1>5 DEF Next

(* A step that calls nothing keeps the order of the chain, if those it     *)
(* begins have no predecessor left to settle.                              *)
LEMMA ChainFrame ==
    ASSUME TypeOK, ChainInv, UNCHANGED <<ticket, previous>>,
           \A x \in Upd : pc[x] = "settled" => pc'[x] = "settled",
           \A x \in Upd : pc'[x] = "idle" <=> pc[x] = "idle",
           \A x \in Upd : pc'[x] = "queued" => pc[x] = "queued",
           \A x \in Upd : Begun(x)' =>
               Begun(x) \/ \A w \in Upd : Before(w, x) => pc'[w] = "settled"
    PROVE  ChainInv'
<1>1. \A x, y : x \in Upd /\ y \in Upd => (Before(x, y)' <=> Before(x, y))
  BY DEF Before, Called
<1> SUFFICES ASSUME NEW v \in Upd
             PROVE  /\ Begun(v)' => \A u \in Upd : Before(u, v)' => pc'[u] = "settled"
                    /\ (pc'[v] = "queued" /\ previous'[v] = NoUpd)
                         => \A u \in Upd : Before(u, v)' => pc'[u] = "settled"
                    /\ (pc'[v] = "queued" /\ previous'[v] # NoUpd)
                         => /\ Before(previous[v], v)'
                            /\ \A u \in Upd :
                                  Before(u, v)' => ticket'[u] <= ticket'[previous'[v]]
  BY DEF ChainInv
<1>2. Begun(v)' => \A u \in Upd : Before(u, v)' => pc'[u] = "settled"
  BY <1>1 DEF ChainInv
<1>3. (pc'[v] = "queued" /\ previous'[v] = NoUpd)
         => \A u \in Upd : Before(u, v)' => pc'[u] = "settled"
  BY <1>1 DEF ChainInv
<1>4. (pc'[v] = "queued" /\ previous'[v] # NoUpd)
         => /\ Before(previous[v], v)'
            /\ \A u \in Upd : Before(u, v)' => ticket'[u] <= ticket'[previous'[v]]
  BY <1>1 DEF ChainInv, TypeOK
<1> QED
  BY <1>2, <1>3, <1>4

(* A call never overtakes an earlier call of its process.                  *)
LEMMA ChainStep == IInv /\ [Next]_vars => ChainInv'
<1> SUFFICES ASSUME IInv, [Next]_vars PROVE ChainInv'
  OBVIOUS
<1> USE OwnerAssumption, NoUpdAssumption
<1> USE DEF IInv, TypeOK, ChainInv, Called, Before, Begun, Steps, Goto, map
<1>1. ASSUME NEW u \in Upd, cacheAtomicUpdate(u) PROVE ChainInv'
  BY <1>1 DEF cacheAtomicUpdate, EntryInv, TicketInv, Mine
<1>2. ASSUME NEW u \in Upd, Begin(u) \/ BeginWithoutClient(u) PROVE ChainInv'
  <2>1. ASSUME NEW w \in Upd, Before(w, u) PROVE pc[w] = "settled"
    <3>1. CASE previous[u] = NoUpd
      BY <1>2, <2>1, <3>1 DEF Begin, BeginWithoutClient, MayBegin
    <3>2. CASE previous[u] # NoUpd
      <4>1. /\ previous[u] \in Upd /\ pc[previous[u]] = "settled"
            /\ Before(previous[u], u) /\ ticket[w] <= ticket[previous[u]]
        BY <1>2, <2>1, <3>2 DEF Begin, BeginWithoutClient, MayBegin
      <4>2. w = previous[u] \/ Before(w, previous[u])
        <5>1. ticket[w] \in Nat /\ ticket[previous[u]] \in Nat
          BY <4>1
        <5>2. CASE ticket[w] = ticket[previous[u]]
          BY <2>1, <4>1, <5>2 DEF TicketInv
        <5>3. CASE ticket[w] < ticket[previous[u]]
          BY <2>1, <4>1, <5>3
        <5>4. ticket[w] <= ticket[previous[u]]
          BY <4>1
        <5> HIDE DEF IInv, TypeOK, ChainInv, Called, Before, Begun
        <5> QED
          BY <5>1, <5>2, <5>3, <5>4
      <4> QED
        BY <4>1, <4>2
    <3> QED
      BY <3>1, <3>2
  <2> QED
    BY <1>2, <2>1, ChainFrame DEF Begin, BeginWithoutClient, MayBegin
<1>3. ASSUME NEW u \in Upd,
             Get(u) \/ GetFails(u) \/ CasCommits(u) \/ CasCommitsUnanswered(u)
               \/ CasConflicts(u) \/ CasFails(u) \/ Finally(u)
      PROVE  ChainInv'
  <2>1. UNCHANGED <<ticket, previous>> /\ pc[u] \in {"get", "cas", "resolved"}
    BY <1>3 DEF Get, GetFails, CasCommits, CasCommitsUnanswered, CasConflicts, CasFails, Finally
  <2>2. \E step \in {"get", "cas", "resolved", "settled"} : Goto(u, step)
    BY <1>3 DEF Get, GetFails, CasCommits, CasCommitsUnanswered, CasConflicts, CasFails, Finally
  <2> QED
    BY <2>1, <2>2, ChainFrame
<1>4. ASSUME NEW p \in Proc, Crash(p) PROVE ChainInv'
  BY <1>4, ChainFrame DEF Crash, Mine
<1>5. CASE Disappear \/ \E u \in Upd : LateCommits(u) \/ LateConflicts(u)
  BY <1>5 DEF Disappear, LateCommits, LateConflicts, loop
<1>6. CASE UNCHANGED vars
  BY <1>6 DEF vars, loop
<1> QED
  BY <1>1, <1>2, <1>3, <1>4, <1>5, <1>6 DEF Next, casUpdate

(* The map's entry of a process is its last call until that call settles.  *)
LEMMA EntryStep == IInv /\ [Next]_vars => EntryInv'
<1> SUFFICES ASSUME IInv, [Next]_vars PROVE EntryInv'
  OBVIOUS
<1> USE OwnerAssumption, NoUpdAssumption
<1> USE DEF IInv, TypeOK, EntryInv, Called, Mine, Steps, Goto, map
<1>1. ASSUME NEW u \in Upd, cacheAtomicUpdate(u) PROVE EntryInv'
  BY <1>1 DEF cacheAtomicUpdate
<1>2. ASSUME NEW u \in Upd,
             Begin(u) \/ BeginWithoutClient(u) \/ Get(u) \/ GetFails(u) \/ CasCommits(u)
               \/ CasCommitsUnanswered(u) \/ CasConflicts(u) \/ CasFails(u)
      PROVE  EntryInv'
  BY <1>2 DEF Begin, BeginWithoutClient, MayBegin, Get, GetFails, CasCommits,
              CasCommitsUnanswered, CasConflicts, CasFails
<1>3. ASSUME NEW u \in Upd, Finally(u) PROVE EntryInv'
  <2>1. inflightUpdates[Owner[u]] = u
          => \A w \in Mine(Owner[u]) : Called(w) /\ w # u => pc[w] = "settled"
    <3> SUFFICES ASSUME inflightUpdates[Owner[u]] = u,
                        NEW w \in Mine(Owner[u]), Called(w), w # u
                 PROVE  pc[w] = "settled"
      OBVIOUS
    <3>1. pc[u] = "resolved" /\ ticket[u] = calls[Owner[u]] /\ Owner[w] = Owner[u]
      BY <1>3 DEF Finally
    <3>2. ticket[w] \in 1..calls[Owner[u]] /\ ticket[w] # ticket[u]
      BY <3>1 DEF TicketInv
    <3>3. Before(w, u)
      BY <3>1, <3>2 DEF Before
    <3> QED
      BY <3>1, <3>3 DEF ChainInv, Begun
  <2> QED
    BY <1>3, <2>1 DEF Finally
<1>4. ASSUME NEW p \in Proc, Crash(p) PROVE EntryInv'
  BY <1>4 DEF Crash
<1>5. CASE Disappear \/ \E u \in Upd : LateCommits(u) \/ LateConflicts(u)
  BY <1>5 DEF Disappear, LateCommits, LateConflicts, loop
<1>6. CASE UNCHANGED vars
  BY <1>6 DEF vars, loop
<1> QED
  BY <1>1, <1>2, <1>3, <1>4, <1>5, <1>6 DEF Next, casUpdate

(* An update is written at most once: neither its loop nor a command left  *)
(* at the server runs after the write.                                     *)
LEMMA OnceStep == TypeOK /\ OnceInv /\ [Next]_vars => OnceInv'
<1> SUFFICES ASSUME TypeOK, OnceInv, [Next]_vars PROVE OnceInv'
  OBVIOUS
<1> USE DEF TypeOK, OnceInv, Steps, Goto, store, loop, hist, Write
<1>1. ASSUME NEW u \in Upd, cacheAtomicUpdate(u) PROVE OnceInv'
  BY <1>1 DEF cacheAtomicUpdate
<1>2. ASSUME NEW u \in Upd, casUpdate(u) PROVE OnceInv'
  BY <1>2 DEF casUpdate, Begin, BeginWithoutClient, MayBegin, Get, GetFails, CasCommits,
              CasCommitsUnanswered, CasConflicts, CasFails, Finally
<1>3. ASSUME NEW p \in Proc, Crash(p) PROVE OnceInv'
  BY <1>3 DEF Crash, Mine
<1>4. CASE Disappear \/ \E u \in Upd : LateCommits(u) \/ LateConflicts(u)
  BY <1>4 DEF Disappear, LateCommits, LateConflicts
<1>5. CASE UNCHANGED vars
  BY <1>5 DEF vars
<1> QED
  BY <1>1, <1>2, <1>3, <1>4, <1>5 DEF Next

(* Adding u to a record that reflects, in order, only earlier calls of its *)
(* process keeps the order.                                                *)
LEMMA AppendKeepsOrder ==
    ASSUME NEW v \in Values, NEW u \in Upd,
           v # NoValue => /\ InCallOrder(v) /\ Reflects(v, applied)
                          /\ \A i \in 1..Len(v) : Owner[v[i]] = Owner[u] => ticket[v[i]] < ticket[u]
    PROVE  /\ InCallOrder(mutate(u, v))
           /\ Reflects(mutate(u, v), applied \union {u})
<1> DEFINE b == Base(v)
           m == mutate(u, v)
<1>1. /\ Len(m) = Len(b) + 1 /\ m[Len(b) + 1] = u
      /\ \A i \in 1..Len(b) : m[i] = b[i]
      /\ b \in Seq(Upd) /\ Len(b) \in Nat
  BY MutateProperties
<1>2. /\ \A i, j \in 1..Len(b) :
             (i < j /\ Owner[b[i]] = Owner[b[j]]) => ticket[b[i]] < ticket[b[j]]
      /\ \A i \in 1..Len(b) : b[i] \in applied
      /\ \A i \in 1..Len(b) : Owner[b[i]] = Owner[u] => ticket[b[i]] < ticket[u]
  <2>1. CASE v = NoValue
    BY <2>1 DEF Base
  <2>2. CASE v # NoValue
    BY <2>2 DEF Base, InCallOrder, Reflects
  <2> QED
    BY <2>1, <2>2
<1> HIDE DEF b, m
<1>3. Reflects(m, applied \union {u})
  BY <1>1, <1>2 DEF Reflects
<1>4. InCallOrder(m)
  <2> SUFFICES ASSUME NEW i \in 1..Len(m), NEW j \in 1..Len(m), i < j,
                      Owner[m[i]] = Owner[m[j]]
               PROVE  ticket[m[i]] < ticket[m[j]]
    BY DEF InCallOrder
  <2>1. i \in 1..Len(b)
    BY <1>1
  <2>2. CASE j \in 1..Len(b)
    BY <1>1, <1>2, <2>1, <2>2
  <2>3. CASE j = Len(b) + 1
    BY <1>1, <1>2, <2>1, <2>3
  <2> QED
    BY <1>1, <2>2, <2>3
<1> QED
  BY <1>3, <1>4 DEF m

(* A record, what an update read, and the tickets in them stay as they are *)
(* in a step that writes nothing and reads nothing.                        *)
LEMMA RecordFrame ==
    ASSUME TypeOK, OnceInv, RecordInv,
           value' \in {value, NoValue}, UNCHANGED <<raw, applied>>,
           \A u \in applied : ticket'[u] = ticket[u],
           \A u \in Upd : Pending(u)' => Pending(u) /\ ticket'[u] = ticket[u]
    PROVE  RecordInv'
<1>1. ASSUME NEW s \in Seq(Upd), Reflects(s, applied)
      PROVE  InCallOrder(s) => InCallOrder(s)'
  BY <1>1 DEF InCallOrder, Reflects
<1>2. value' # NoValue => Reflects(value', applied') /\ InCallOrder(value)'
  BY <1>1 DEF RecordInv, Reflects, TypeOK, Values
<1>3. ASSUME NEW u \in Upd, Pending(u)', raw'[u] # NoValue
      PROVE  /\ Reflects(raw[u], applied)'
             /\ InCallOrder(raw[u])'
             /\ \A i \in 1..Len(raw'[u]) :
                    Owner[raw'[u][i]] = Owner[u] => ticket'[raw'[u][i]] < ticket'[u]
  <2>1. /\ Reflects(raw[u], applied) /\ InCallOrder(raw[u]) /\ raw[u] \in Seq(Upd)
        /\ \A i \in 1..Len(raw[u]) : Owner[raw[u][i]] = Owner[u] => ticket[raw[u][i]] < ticket[u]
    BY <1>3 DEF RecordInv, TypeOK, Values
  <2>2. Reflects(raw[u], applied)'
    BY <2>1 DEF Reflects
  <2>3. InCallOrder(raw[u])'
    BY <1>1, <2>1 DEF InCallOrder
  <2>4. \A i \in 1..Len(raw[u]) :
           Owner[raw[u][i]] = Owner[u] => ticket'[raw[u][i]] < ticket'[u]
    BY <1>3, <2>1 DEF Reflects
  <2> QED
    BY <2>2, <2>3, <2>4
<1> QED
  BY <1>2, <1>3 DEF RecordInv

(* The write of an update that is due, whoever executes it.                *)
LEMMA RecordWrite ==
    ASSUME TypeOK, OnceInv, RecordInv, NEW u \in Upd, Pending(u), Write(u),
           UNCHANGED <<raw, ticket>>, \A w \in Upd : Pending(w)' => Pending(w)
    PROVE  RecordInv'
<1>1. raw[u] \in Values /\ value = raw[u] /\ value' = mutate(u, raw[u])
      /\ applied' = applied \union {u}
  BY DEF TypeOK, Write
<1>2. raw[u] # NoValue =>
         /\ InCallOrder(raw[u]) /\ Reflects(raw[u], applied)
         /\ \A i \in 1..Len(raw[u]) : Owner[raw[u][i]] = Owner[u] => ticket[raw[u][i]] < ticket[u]
  BY DEF RecordInv
<1>3. InCallOrder(mutate(u, raw[u])) /\ Reflects(mutate(u, raw[u]), applied \union {u})
  BY <1>1, <1>2, AppendKeepsOrder
<1>4. Reflects(value', applied') /\ InCallOrder(value)'
  BY <1>1, <1>3 DEF InCallOrder
<1>5. ASSUME NEW w \in Upd, Pending(w)', raw'[w] # NoValue
      PROVE  /\ Reflects(raw[w], applied)'
             /\ InCallOrder(raw[w])'
             /\ \A i \in 1..Len(raw'[w]) :
                    Owner[raw'[w][i]] = Owner[w] => ticket'[raw'[w][i]] < ticket'[w]
  BY <1>1, <1>5 DEF RecordInv, Reflects, InCallOrder
<1> QED
  BY <1>4, <1>5 DEF RecordInv

(* Every step keeps the record in the order of its process's calls.        *)
LEMMA RecordStep == IInv /\ [Next]_vars => RecordInv'
<1> SUFFICES ASSUME IInv, [Next]_vars PROVE RecordInv'
  OBVIOUS
<1>0. TypeOK /\ OnceInv /\ RecordInv /\ TicketInv /\ ChainInv
  BY DEF IInv
<1>1. ASSUME NEW u \in Upd, cacheAtomicUpdate(u) PROVE RecordInv'
  <2>1. u \notin applied /\ ~Pending(u)'
    BY <1>0, <1>1 DEF cacheAtomicUpdate, OnceInv, Pending, Goto, TypeOK, store
  <2>2. \A w \in Upd : w # u => ticket'[w] = ticket[w]
    BY <1>0, <1>1 DEF cacheAtomicUpdate, TypeOK
  <2>3. \A w \in Upd : Pending(w)' => Pending(w) /\ ticket'[w] = ticket[w]
    BY <1>0, <1>1, <2>1, <2>2 DEF cacheAtomicUpdate, Pending, Goto, TypeOK, store
  <2>4. \A w \in applied : ticket'[w] = ticket[w]
    BY <1>0, <2>1, <2>2 DEF TypeOK
  <2>5. value' = value /\ UNCHANGED <<raw, applied>>
    BY <1>1 DEF cacheAtomicUpdate, store, hist
  <2> QED
    BY <1>0, <2>3, <2>4, <2>5, RecordFrame
<1>2. ASSUME NEW u \in Upd,
             Begin(u) \/ BeginWithoutClient(u) \/ GetFails(u) \/ CasConflicts(u)
               \/ CasFails(u) \/ LateConflicts(u) \/ Finally(u)
      PROVE  RecordInv'
  <2>1. /\ value' = value /\ UNCHANGED <<raw, applied, ticket>>
        /\ \A w \in Upd : Pending(w)' => Pending(w)
    BY <1>0, <1>2 DEF Begin, BeginWithoutClient, MayBegin, GetFails, CasConflicts, CasFails,
       LateConflicts, Finally, Pending, Goto, TypeOK, store, map, loop, hist
  <2> QED
    BY <1>0, <2>1, RecordFrame DEF TypeOK
<1>3. ASSUME NEW u \in Upd, Get(u) PROVE RecordInv'
  <2>1. /\ UNCHANGED <<value, late, applied, ticket>> /\ raw' = [raw EXCEPT ![u] = value]
        /\ pc[u] = "get" /\ \A w \in Upd : w # u => (Pending(w)' <=> Pending(w))
    BY <1>0, <1>3 DEF Get, Pending, Goto, TypeOK, store, map, hist
  <2>2. ASSUME value # NoValue, NEW i \in 1..Len(value), Owner[value[i]] = Owner[u]
        PROVE  ticket[value[i]] < ticket[u]
    <3> DEFINE w == value[i]
    <3>1. w \in applied /\ w \in Upd /\ ticket[w] \in Nat /\ ticket[u] \in Nat
      BY <1>0, <2>2 DEF RecordInv, Reflects, TypeOK
    <3>2. w # u /\ pc[w] \in {"resolved", "settled"}
      BY <1>0, <2>1, <3>1 DEF OnceInv, TypeOK, Steps
    <3>3. ticket[w] # ticket[u]
      BY <1>0, <2>1, <2>2, <3>1, <3>2 DEF TicketInv, Called
    <3>4. ~Before(u, w)
      BY <1>0, <2>1, <3>1, <3>2 DEF ChainInv, Begun
    <3>5. ~(ticket[u] < ticket[w])
      BY <2>1, <2>2, <3>4 DEF Before, Called
    <3> QED
      BY <3>1, <3>3, <3>5
  <2>3. value # NoValue => Reflects(value, applied) /\ InCallOrder(value)
    BY <1>0 DEF RecordInv
  <2>4. value' # NoValue => Reflects(value', applied') /\ InCallOrder(value)'
    BY <2>1, <2>3 DEF InCallOrder
  <2>5. ASSUME NEW w \in Upd, Pending(w)', raw'[w] # NoValue
        PROVE  /\ Reflects(raw[w], applied)'
               /\ InCallOrder(raw[w])'
               /\ \A i \in 1..Len(raw'[w]) :
                      Owner[raw'[w][i]] = Owner[w] => ticket'[raw'[w][i]] < ticket'[w]
    <3>1. CASE w = u
      <4>1. raw'[w] = value
        BY <1>0, <2>1, <3>1 DEF TypeOK
      <4> QED
        BY <2>1, <2>2, <2>3, <2>5, <3>1, <4>1 DEF InCallOrder
    <3>2. CASE w # u
      <4>1. raw'[w] = raw[w] /\ Pending(w)
        BY <1>0, <2>1, <2>5, <3>2 DEF TypeOK
      <4> QED
        BY <1>0, <2>1, <2>5, <4>1 DEF RecordInv, InCallOrder, Reflects
    <3> QED
      BY <3>1, <3>2
  <2> QED
    BY <2>4, <2>5 DEF RecordInv
<1>4. ASSUME NEW u \in Upd, CasCommits(u) \/ CasCommitsUnanswered(u) \/ LateCommits(u)
      PROVE  RecordInv'
  <2>1. /\ Pending(u) /\ Write(u) /\ UNCHANGED <<raw, ticket>>
        /\ \A w \in Upd : Pending(w)' => Pending(w)
    BY <1>0, <1>4 DEF CasCommits, CasCommitsUnanswered, LateCommits, Pending, Goto, TypeOK,
       map, loop
  <2> QED
    BY <1>0, <2>1, RecordWrite
<1>5. ASSUME NEW p \in Proc, Crash(p) PROVE RecordInv'
  <2>1. /\ value' = value /\ UNCHANGED <<raw, applied, ticket>>
        /\ \A w \in Upd : Pending(w)' => Pending(w)
    BY <1>0, <1>5 DEF Crash, Mine, Pending, TypeOK
  <2> QED
    BY <1>0, <2>1, RecordFrame DEF TypeOK
<1>6. CASE Disappear
  BY <1>0, <1>6, RecordFrame DEF Disappear, TypeOK, Pending, map, loop
<1>7. CASE UNCHANGED vars
  BY <1>0, <1>7, RecordFrame DEF vars, store, map, loop, hist, TypeOK, Pending
<1> QED
  BY <1>1, <1>2, <1>3, <1>4, <1>5, <1>6, <1>7 DEF Next, casUpdate

(* Updates of one process never run together.                              *)
LEMMA SerializedLemma == TypeOK /\ TicketInv /\ ChainInv => Serialized
<1> SUFFICES ASSUME TypeOK, TicketInv, ChainInv, NEW u \in Upd, NEW v \in Upd,
                    Owner[u] = Owner[v], Running(u), Running(v), u # v
             PROVE  FALSE
  BY DEF Serialized
<1>1. ticket[u] \in Nat /\ ticket[v] \in Nat /\ ticket[u] # ticket[v]
  BY DEF TicketInv, Running, Called, TypeOK
<1>2. ~Before(u, v) /\ ~Before(v, u)
  BY DEF ChainInv, Begun, Running
<1> QED
  BY <1>1, <1>2 DEF Before, Called, Running

(* A casSet that finds another value than the one read was overtaken by    *)
(* somebody outside this process's loops since that read.                  *)
LEMMA BudgetStep == IInv /\ [Next]_vars => BudgetInv' /\ NoSilentDrop'
<1> SUFFICES ASSUME IInv, [Next]_vars PROVE BudgetInv' /\ NoSilentDrop'
  OBVIOUS
<1>0. TypeOK /\ OnceInv /\ BudgetInv /\ NoSilentDrop /\ Serialized
  BY SerializedLemma DEF IInv
<1> USE MaxRetriesAssumption
<1> USE DEF BudgetInv, NoSilentDrop, Running, Goto, TypeOK, Steps, store, map, loop, hist
<1>1. ASSUME NEW u \in Upd, cacheAtomicUpdate(u) PROVE BudgetInv' /\ NoSilentDrop'
  BY <1>0, <1>1 DEF cacheAtomicUpdate
<1>2. ASSUME NEW u \in Upd, Begin(u) \/ BeginWithoutClient(u)
      PROVE  BudgetInv' /\ NoSilentDrop'
  BY <1>0, <1>2 DEF Begin, BeginWithoutClient, MayBegin, Excuse
<1>3. ASSUME NEW u \in Upd, Get(u) \/ GetFails(u) PROVE BudgetInv' /\ NoSilentDrop'
  BY <1>0, <1>3 DEF Get, GetFails, Excuse
<1>4. ASSUME NEW u \in Upd, CasCommits(u) \/ CasCommitsUnanswered(u)
      PROVE  BudgetInv' /\ NoSilentDrop'
  <2>1. \A w \in Upd : w # u /\ Running(w) => w \in Upd \ Mine(Owner[u])
    BY <1>0, <1>4 DEF Serialized, CasCommits, CasCommitsUnanswered, Mine
  <2> QED
    BY <1>0, <1>4, <2>1 DEF CasCommits, CasCommitsUnanswered, Write, Hit, Excuse
<1>5. ASSUME NEW u \in Upd, LateCommits(u) PROVE BudgetInv' /\ NoSilentDrop'
  BY <1>0, <1>5 DEF LateCommits, Write, Hit, OnceInv
<1>6. ASSUME NEW u \in Upd, CasConflicts(u) PROVE BudgetInv' /\ NoSilentDrop'
  BY <1>0, <1>6 DEF CasConflicts
<1>7. ASSUME NEW u \in Upd, CasFails(u) \/ LateConflicts(u) \/ Finally(u)
      PROVE  BudgetInv' /\ NoSilentDrop'
  BY <1>0, <1>7 DEF CasFails, LateConflicts, Finally, Excuse
<1>8. ASSUME NEW p \in Proc, Crash(p) PROVE BudgetInv' /\ NoSilentDrop'
  BY <1>0, <1>8 DEF Crash, Mine
<1>9. CASE Disappear
  BY <1>0, <1>9 DEF Disappear, Hit
<1>10. CASE UNCHANGED vars
  BY <1>0, <1>10 DEF vars
<1> QED
  BY <1>1, <1>2, <1>3, <1>4, <1>5, <1>6, <1>7, <1>8, <1>9, <1>10 DEF Next, casUpdate

-----------------------------------------------------------------------------
(* The strengthening holds in every reachable state.                       *)
LEMMA Invariance == Spec => []IInv
<1>1. IInv /\ [Next]_vars => IInv'
  <2> SUFFICES ASSUME IInv, [Next]_vars PROVE IInv'
    OBVIOUS
  <2>1. TypeOK /\ TicketInv /\ OnceInv /\ BudgetInv
    BY DEF IInv
  <2>2. TypeOK' /\ TicketInv' /\ OnceInv'
    BY <2>1, TypeStep, TicketStep, OnceStep
  <2>3. ChainInv' /\ EntryInv' /\ RecordInv' /\ BudgetInv' /\ NoSilentDrop'
    BY ChainStep, EntryStep, RecordStep, BudgetStep
  <2> QED
    BY <2>2, <2>3 DEF IInv
<1> QED
  BY <1>1, InitInv, PTL DEF Spec

(* Type correctness of the two-level protocol of cacheAtomicUpdate.        *)
THEOREM TypeCorrect == Spec => []TypeOK
<1>1. IInv => TypeOK
  BY DEF IInv
<1> QED
  BY <1>1, Invariance, PTL

(* The promise chain of inflightUpdates really serializes a process's      *)
(* updates of a key, with crashes and restarts, for any number of them.    *)
THEOREM SerializedAlways == Spec => []Serialized
<1>1. IInv => Serialized
  BY SerializedLemma DEF IInv
<1> QED
  BY <1>1, Invariance, PTL

(* The in-flight map has an entry exactly while a call is open.            *)
THEOREM EntryIsTailAlways == Spec => []EntryIsTail
<1>1. IInv => EntryIsTail
  <2> SUFFICES ASSUME IInv, NEW p \in Proc
               PROVE  LET open == {u \in Mine(p) : pc[u] \notin {"idle", "settled"}} IN
                      IF open = {} THEN inflightUpdates[p] = NoUpd
                      ELSE /\ inflightUpdates[p] \in open
                           /\ \A u \in open : ticket[u] <= ticket[inflightUpdates[p]]
    BY DEF EntryIsTail
  <2> DEFINE open == {u \in Mine(p) : pc[u] \notin {"idle", "settled"}}
  <2>1. CASE inflightUpdates[p] = NoUpd
    BY <2>1 DEF IInv, EntryInv, Called
  <2>2. CASE inflightUpdates[p] # NoUpd
    <3>1. inflightUpdates[p] \in open /\ ticket[inflightUpdates[p]] = calls[p]
      BY <2>2 DEF IInv, TypeOK, EntryInv, Mine
    <3>2. \A u \in open : ticket[u] <= calls[p]
      BY DEF IInv, TypeOK, TicketInv, Called, Mine
    <3> QED
      BY <3>1, <3>2
  <2> QED
    BY <2>1, <2>2
<1> QED
  BY <1>1, Invariance, PTL

(* Writes of a process land in the order of its calls, late ones included. *)
THEOREM RecordInCallOrderAlways == Spec => []RecordInCallOrder
<1>1. IInv => RecordInCallOrder
  BY DEF IInv, RecordInv, RecordInCallOrder
<1> QED
  BY <1>1, Invariance, PTL

(* Only a failing backend, a crash or MaxRetries foreign changes drop one. *)
THEOREM NoSilentDropAlways == Spec => []NoSilentDrop
<1>1. IInv => NoSilentDrop
  BY DEF IInv
<1> QED
  BY <1>1, Invariance, PTL

(* Every step of the protocol is a step of the atomic record or stutters:  *)
(* no stale commit and no lost or repeated update, for any processes,      *)
(* calls and retry budget, whatever commands time out or execute late.     *)
THEOREM Refinement == Spec => ImplementsAtomicRecord
<1>1. Init => Atomic!AInit
  BY DEF Init, Atomic!AInit
<1>2. IInv /\ [Next]_vars => [Atomic!ANext]_(Atomic!avars)
  <2> SUFFICES ASSUME IInv, [Next]_vars PROVE [Atomic!ANext]_(Atomic!avars)
    OBVIOUS
  <2>1. ASSUME NEW u \in Upd, CasCommits(u) \/ CasCommitsUnanswered(u) \/ LateCommits(u)
        PROVE  Atomic!Apply(u)
    <3>1. u \notin applied
      BY <2>1 DEF IInv, OnceInv, CasCommits, CasCommitsUnanswered, LateCommits
    <3> QED
      BY <2>1, <3>1 DEF CasCommits, CasCommitsUnanswered, LateCommits, Write, mutate, Base,
         Atomic!Apply, Atomic!Base
  <2>2. CASE Disappear
    BY <2>2 DEF Disappear, Atomic!ANext, Atomic!Disappear
  <2>3. ASSUME NEW u \in Upd,
               cacheAtomicUpdate(u) \/ Begin(u) \/ BeginWithoutClient(u) \/ Get(u)
                 \/ GetFails(u) \/ CasConflicts(u) \/ CasFails(u) \/ LateConflicts(u)
                 \/ Finally(u)
        PROVE  UNCHANGED Atomic!avars
    BY <2>3 DEF cacheAtomicUpdate, Begin, BeginWithoutClient, Get, GetFails, CasConflicts,
       CasFails, LateConflicts, Finally, store, hist, Atomic!avars
  <2>4. ASSUME NEW p \in Proc, Crash(p) PROVE UNCHANGED Atomic!avars
    BY <2>4 DEF Crash, Atomic!avars
  <2>5. CASE UNCHANGED vars
    BY <2>5 DEF vars, store, hist, Atomic!avars
  <2> QED
    BY <2>1, <2>2, <2>3, <2>4, <2>5 DEF Next, casUpdate, Atomic!ANext
<1> QED
  BY <1>1, <1>2, Invariance, PTL DEF Spec, ImplementsAtomicRecord, Atomic!ASpec
=============================================================================
