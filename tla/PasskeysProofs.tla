--------------------------- MODULE PasskeysProofs ---------------------------
(***************************************************************************)
(* What Passkeys promises of the credentials of registrations: proofs for  *)
(* every set of ceremonies and operations, every history limit and every   *)
(* order of answers, expiries, reconciliations, saves and locks.           *)
(***************************************************************************)
EXTENDS Passkeys, SequenceTheorems, FiniteSetTheorems, TLAPS

\* What a record of the vault can hold, and how far a ceremony has come in
\* the eyes of its extension.
Held == Credentials \cup {None}
Statuses ==
    {"idle", "working", "resolved", "created", "saved", "committed", "completed", "failing", "stuck", "done", "gone"}
Fates == [deleted : SUBSET Held, discarded : SUBSET Held, cut : SUBSET Held, published : SUBSET Held,
          abandoned : SUBSET Held, committed : SUBSET Held]

\* The credentials an entry has had, as far as its history goes.
Line(r) == [i \in 1..Len(r.hist) + 1 |-> IF i \in DOMAIN r.hist THEN r.hist[i].cred ELSE r.cred]

\* How what a ceremony or an operation did to its entry can be undone; L is
\* the ledger, Ls the leases.
UndoOf(L, Ls) ==
    [m \in Makers |-> IF m \in Ops THEN IF Ls[m] = None THEN None ELSE Ls[m].rollback
                      ELSE IF L[m] = None THEN None ELSE L[m].rollback]

\* Registrations whose credential may still be undone in the unlocked vault.
UncommittedOf(L, Ls) ==
    {m \in Makers : IF m \in Tokens THEN L[m] # None /\ L[m].durable = "mutated"
                    ELSE Ls[m] # None /\ Ls[m].rollback # None}

\* Makers whose credential somebody answers for; F is what became of them.
AccountedOf(L, Ls, F) ==
    {m \in Makers : IF m \in Ops THEN Ls[m] # None /\ Ls[m].rollback # None
                    ELSE L[m] # None /\ L[m].phase = "s4" /\ L[m].rollback # None}
      \cup F.committed \cup F.published \cup F.abandoned

\* Credentials that were saved, or of which it is known why they were not.
Exempt(S, F) == S \cup F.deleted \cup F.cut \cup F.discarded

\* Registrations that the extension takes for made and that wait for a save.
WaitingOf(L, cl, X) == {t \in Tokens \ X : cl[t] = "created" /\ L[t] # None /\ L[t].durable = "mutated"}

\* The entry of each credential that was made is known; mk is makers.
Placed(mk, v) ==
    \A e \in DOMAIN v :
      /\ \A i \in DOMAIN Line(v[e]) : Line(v[e])[i] \in Makers => e \in DOMAIN mk /\ Line(v[e])[i] \in mk[e]
      /\ e \in Makers => e \in DOMAIN mk /\ e \in mk[e]

\* Each maker has set one entry.
Sole(mk) == \A e, x \in DOMAIN mk : \A m \in mk[e] : m \in mk[x] => e = x

\* A copy to be brought back is of the entry that the registration changed.
Undoable(R, mk) ==
    \A m \in Makers : R[m] # None =>
      /\ R[m].cred = m /\ R[m].entry \in DOMAIN mk /\ m \in mk[R[m].entry]
      /\ ~R[m].created =>
           /\ R[m].copy \in Entry /\ R[m].copy.cred # m
           /\ R[m].copy.cred \in Makers => R[m].copy.cred \in mk[R[m].entry]

\* An entry that holds the only credential made for it is answered for.
Accounted(mk, A, v) ==
    \A e \in DOMAIN v : v[e].cred \in Makers /\ mk[e] = {v[e].cred} => v[e].cred \in A

\* A registration that can be undone is in the file only if it was published.
FileKnown(M, f, P) == \A e \in DOMAIN f : f[e].cred \in M => f[e].cred \in P

\* A waiting credential lies below what undoing a later one brings back.
Between(R, z, i, j) == ~R[z[j]].created /\ \E k \in i..(j - 1) : z[k] = R[z[j]].copy.cred

Stacked(R, W, v) ==
    \A e \in DOMAIN v : \A i, j \in DOMAIN Line(v[e]) :
      i < j /\ Line(v[e])[i] \in W /\ Line(v[e])[j] # Line(v[e])[i] /\ Line(v[e])[j] \in Makers /\ R[Line(v[e])[j]] # None
        => Between(R, Line(v[e]), i, j)

\* A ceremony has a rollback exactly from its mutation to its commit.
LedgerKept(L, F, cl) ==
    \A t \in Tokens : L[t] # None =>
      /\ L[t].rollback # None <=> L[t].durable \in {"mutated", "saved"}
      /\ L[t].durable # "none" => L[t].id.kind = "create" /\ L[t].phase \in {"s4"} \cup Closed
      /\ L[t].rollback # None /\ L[t].phase # "s4" => cl[t] = "done" /\ t \in F.abandoned
      /\ cl[t] \in {"committed", "completed"} /\ L[t].id.kind = "create" => L[t].rollback = None

\* late: ceremonies that are being rolled back under their extension
Attended(L, F, cl, late) ==
    \A t \in Tokens : cl[t] = "created" /\ L[t] # None =>
      \/ L[t].id.kind = "create" /\ L[t].phase = "s4" /\ L[t].durable = "mutated"
      \/ L[t].phase \in Closed /\ t \in F.discarded \cup late

\* What the extension was told is saved has been saved.
Answered(L, cl, X) ==
    \A t \in Tokens : cl[t] = "saved" \/ (cl[t] \in {"committed", "completed"} /\ L[t] # None /\ L[t].id.kind = "create")
      => t \in X

\* A maker that has used its verification does not make a credential again.
Spent(m, cl, Ls, pr) ==
    IF m \in Ops THEN pr[m] > 0 /\ (Ls[m] # None => Ls[m].consumed) ELSE cl[m] \notin {"idle", "working", "resolved"}

LeasesKept(Ls, pr) == \A p \in Ops : Ls[p] # None => pr[p] > 0 /\ (Ls[p].rollback # None => Ls[p].consumed)

AllSpent(mk, cl, Ls, pr) == \A e \in DOMAIN mk : \A m \in mk[e] : Spent(m, cl, Ls, pr)
HandedOver(S, R, cl, Ls, pr) == \A m \in S \cap Makers : R[m] = None /\ Spent(m, cl, Ls, pr)

\* The invariant of a store, in the middle of a handler too: late are the
\* ceremonies a reconciliation is about to close.
StoreTyped(st) ==
    /\ st = [ledger |-> st.ledger, live |-> st.live, file |-> st.file, stored |-> st.stored, fate |-> st.fate]
    /\ st.ledger \in [Tokens -> PasskeyCeremony \cup {None}]
    /\ st.live # Locked => IsVault(st.live)
    /\ IsVault(st.file)
    /\ st.stored \in SUBSET Held
    /\ st.fate \in Fates

UndoIn(st) == UndoOf(st.ledger, leases)
AccountedIn(st) == AccountedOf(st.ledger, leases, st.fate)
UncommittedIn(st) == UncommittedOf(st.ledger, leases)
ExemptIn(st) == Exempt(st.stored, st.fate)
WaitingIn(st) == WaitingOf(st.ledger, client, ExemptIn(st))

LiveSound(st, late) ==
    /\ StoreTyped(st)
    /\ LedgerKept(st.ledger, st.fate, client)
    /\ Undoable(UndoIn(st), makers)
    /\ st.live # Locked =>
         Placed(makers, st.live) /\ Accounted(makers, AccountedIn(st), st.live) /\ Stacked(UndoIn(st), WaitingIn(st), st.live)
    /\ WaitingIn(st) # {} => st.live # Locked /\ WaitingIn(st) \subseteq CredsOf(st.live)
    /\ Attended(st.ledger, st.fate, client, late)
    /\ Answered(st.ledger, client, ExemptIn(st))
    /\ HandedOver(site, UndoIn(st), client, leases, proofs)
    /\ site \subseteq ExemptIn(st)

FileSound(st, M) ==
    /\ Placed(makers, st.file)
    /\ Accounted(makers, AccountedIn(st), st.file)
    /\ FileKnown(M, st.file, st.fate.published)

StoreSound(st, late) == LiveSound(st, late) /\ FileSound(st, UncommittedIn(st))

Typed ==
    /\ gen \in Nat /\ now \in Nat /\ conn \in Nat
    /\ leases \in [Ops -> PlatformLease \cup {None}]
    /\ client \in [Tokens -> Statuses]
    /\ site \in SUBSET Held
    /\ \E E \in SUBSET Entries : makers \in [E -> SUBSET Makers]
    /\ proofs \in [Makers -> Nat]

\* The inductive invariant.
IInv ==
    /\ Typed
    /\ StoreSound(Store, {})
    /\ Sole(makers)
    /\ LeasesKept(leases, proofs)
    /\ AllSpent(makers, client, leases, proofs)

(***************************************************************************)
(* Vaults, entries and their histories                                     *)
(***************************************************************************)

LEMMA WithTyped ==
    ASSUME NEW v, IsVault(v), NEW e \in Entries, NEW r \in Entry
    PROVE  /\ IsVault(With(v, e, r)) /\ DOMAIN With(v, e, r) = DOMAIN v \cup {e}
           /\ With(v, e, r)[e] = r /\ \A x \in DOMAIN v : x # e => With(v, e, r)[x] = v[x]
  <1>1. PICK E \in SUBSET Entries : v \in [E -> Entry]
    BY DEF IsVault
  <1>2. With(v, e, r) \in [E \cup {e} -> Entry] /\ E \cup {e} \in SUBSET Entries
    BY <1>1 DEF With
  <1> QED BY <1>1, <1>2 DEF IsVault, With

LEMMA WithoutTyped ==
    ASSUME NEW v, IsVault(v), NEW e
    PROVE  /\ IsVault(Without(v, e)) /\ DOMAIN Without(v, e) = DOMAIN v \ {e}
           /\ \A x \in DOMAIN v : x # e => Without(v, e)[x] = v[x]
  BY DEF IsVault, Without

LEMMA EntryTyped ==
    ASSUME NEW v, IsVault(v)
    PROVE  /\ DOMAIN v \subseteq Entries
           /\ \A e \in DOMAIN v : /\ v[e] \in Entry /\ v[e].cred \in Held /\ v[e].hist \in Seq(Snapshots)
  BY DEF IsVault, Entry, Held

LEMMA LineFacts ==
    ASSUME NEW r \in Entry
    PROVE  /\ r.hist \in Seq(Snapshots) /\ Len(r.hist) \in Nat
           /\ DOMAIN Line(r) = 1..Len(r.hist) + 1
           /\ \A i \in 1..Len(r.hist) : Line(r)[i] = r.hist[i].cred /\ Line(r)[i] \in Held
           /\ Line(r)[Len(r.hist) + 1] = r.cred /\ r.cred \in Held
  <1>1. r.hist \in Seq(Snapshots) /\ r.cred \in Held
    BY DEF Entry, Held
  <1>2. Len(r.hist) \in Nat /\ DOMAIN r.hist = 1..Len(r.hist)
    BY <1>1
  <1>3. ASSUME NEW i \in 1..Len(r.hist) PROVE r.hist[i].cred \in Held
    <2>1. r.hist[i] \in Snapshots
      BY <1>1, <1>2
    <2> QED BY <2>1 DEF Snapshots, Held
  <1>4. \A i \in 1..Len(r.hist) + 1 : Line(r)[i] = IF i \in DOMAIN r.hist THEN r.hist[i].cred ELSE r.cred
    BY DEF Line
  <1>5. DOMAIN Line(r) = 1..Len(r.hist) + 1
    BY DEF Line
  <1>6. Line(r)[Len(r.hist) + 1] = r.cred
    BY <1>2, <1>4
  <1>7. \A i \in 1..Len(r.hist) : Line(r)[i] = r.hist[i].cred
    BY <1>2, <1>4
  <1> QED BY <1>1, <1>2, <1>3, <1>5, <1>6, <1>7

LEMMA CredsOnLine ==
    ASSUME NEW v, IsVault(v), NEW c
    PROVE  c \in CredsOf(v) <=> \E e \in DOMAIN v : \E i \in DOMAIN Line(v[e]) : Line(v[e])[i] = c
  <1>1. ASSUME NEW e \in DOMAIN v
        PROVE  (c = v[e].cred \/ c \in {h.cred : h \in Range(v[e].hist)}) <=> \E i \in DOMAIN Line(v[e]) : Line(v[e])[i] = c
    <2>1. v[e] \in Entry
      BY EntryTyped
    <2>2. Range(v[e].hist) = {v[e].hist[i] : i \in 1..Len(v[e].hist)}
      BY <2>1, LineFacts DEF Range
    <2>3. c \in {h.cred : h \in Range(v[e].hist)} <=> \E i \in 1..Len(v[e].hist) : v[e].hist[i].cred = c
      BY <2>2
    <2> DEFINE n == Len(v[e].hist)
               z == Line(v[e])
    <2>4. /\ n \in Nat /\ DOMAIN z = 1..n + 1 /\ z[n + 1] = v[e].cred
          /\ \A i \in 1..n : z[i] = v[e].hist[i].cred
      BY <2>1, LineFacts
    <2>5. (\E i \in 1..n + 1 : z[i] = c) <=> (z[n + 1] = c \/ \E i \in 1..n : z[i] = c)
      <3> HIDE DEF n, z
      <3> QED BY <2>4
    <2> QED BY <2>3, <2>4, <2>5
  <1> QED BY <1>1 DEF CredsOf

LEMMA FrontTyped ==
    ASSUME NEW S, NEW s \in Seq(S), s # <<>>
    PROVE  /\ Front(s) \in Seq(S) /\ Len(Front(s)) = Len(s) - 1 /\ Len(s) \in Nat \ {0}
           /\ \A i \in 1..Len(s) - 1 : Front(s)[i] = s[i]
  <1> DEFINE n == Len(s) - 1
  <1>1. Len(s) \in Nat \ {0} /\ n \in Nat /\ Len(s) = n + 1
    BY EmptySeq, LenProperties
  <1>2. \A i \in 1..n : s[i] \in S
    BY <1>1, ElementOfSeq
  <1>3. Front(s) = SubSeq(s, 1, n)
    BY DEF Front
  <1> HIDE DEF n
  <1>4. /\ SubSeq(s, 1, n) \in Seq(S) /\ Len(SubSeq(s, 1, n)) = IF 1 <= n THEN n - 1 + 1 ELSE 0
        /\ \A i \in 1..n - 1 + 1 : SubSeq(s, 1, n)[i] = s[1 + i - 1]
    BY <1>1, <1>2, SubSeqProperties
  <1>5. n - 1 + 1 = n /\ Len(SubSeq(s, 1, n)) = n /\ \A i \in 1..n : 1 + i - 1 = i
    BY <1>1, <1>4
  <1>6. \A i \in 1..n : SubSeq(s, 1, n)[i] = s[i]
    BY <1>4, <1>5
  <1> QED BY <1>1, <1>3, <1>4, <1>5, <1>6

LEMMA LimitTyped ==
    ASSUME NEW S, NEW s \in Seq(S), MaxHistory \in Nat
    PROVE  /\ enforce_history_limits(s) \in Seq(S)
           /\ \E d \in 0..Len(s) : /\ Len(enforce_history_limits(s)) = Len(s) - d
                                   /\ \A i \in 1..Len(s) - d : enforce_history_limits(s)[i] = s[i + d]
  <1>1. CASE Len(s) > MaxHistory
    <2> DEFINE d == Len(s) - MaxHistory
               u == SubSeq(s, d + 1, Len(s))
    <2>1. d \in 1..Len(s) /\ Len(s) \in Nat
      BY <1>1
    <2>2. u \in Seq(S) /\ Len(u) = Len(s) - d /\ \A i \in 1..Len(s) - d : u[i] = s[i + d]
      BY <2>1
    <2>3. enforce_history_limits(s) = u
      BY <1>1 DEF enforce_history_limits
    <2>4. \E k \in 0..Len(s) : Len(u) = Len(s) - k /\ \A i \in 1..Len(s) - k : u[i] = s[i + k]
      <3>1. d \in 0..Len(s)
        BY <2>1
      <3> HIDE DEF u, d
      <3> QED BY <2>2, <3>1
    <2> HIDE DEF u, d
    <2> QED BY <2>2, <2>3, <2>4
  <1>2. CASE ~(Len(s) > MaxHistory)
    <2>1. enforce_history_limits(s) = s
      BY <1>2 DEF enforce_history_limits
    <2> QED BY <2>1
  <1> QED BY <1>1, <1>2

(***************************************************************************)
(* Rolling a registration back                                             *)
(***************************************************************************)

Restored(v, rb) ==
    IF restore_passkey_registration_rollback(v, rb) = None THEN v ELSE restore_passkey_registration_rollback(v, rb)

\* What a rollback needs of the vault and of the rollback states.
Ready(R, mk, v) == IsVault(v) /\ Undoable(R, mk) /\ Placed(mk, v) /\ Sole(mk)

LEMMA OnlyItsEntry ==
    ASSUME NEW v, NEW mk, NEW R, Ready(R, mk, v), NEW m \in Makers, R[m] # None, NEW x \in DOMAIN v, NEW i \in DOMAIN Line(v[x]),
           Line(v[x])[i] = m
    PROVE  x = R[m].entry
  BY DEF Ready, Undoable, Placed, Sole

LEMMA CurrentOnLine ==
    ASSUME NEW v, IsVault(v), NEW x \in DOMAIN v
    PROVE  /\ v[x] \in Entry /\ Len(v[x].hist) \in Nat
           /\ Len(v[x].hist) + 1 \in DOMAIN Line(v[x]) /\ Line(v[x])[Len(v[x].hist) + 1] = v[x].cred
  <1>1. v[x] \in Entry
    BY EntryTyped
  <1> QED BY <1>1, LineFacts

LEMMA NoneIsNoVault == ~IsVault(None) /\ ~IsVault(Locked)
  BY PasskeyNames

LEMMA KeptTyped ==
    ASSUME NEW v, IsVault(v), NEW e \in DOMAIN v
    PROVE  (IF HistoryMatches(v[e]) THEN Front(v[e].hist) ELSE v[e].hist) \in Seq(Snapshots)
  <1>1. v[e].hist \in Seq(Snapshots)
    BY EntryTyped
  <1>2. HistoryMatches(v[e]) => v[e].hist # <<>>
    BY DEF HistoryMatches
  <1>3. v[e].hist # <<>> => Front(v[e].hist) \in Seq(Snapshots)
    BY <1>1, FrontTyped
  <1> QED BY <1>1, <1>2, <1>3

LEMMA RestoredElsewhere ==
    ASSUME NEW v, NEW mk, NEW R, Ready(R, mk, v), NEW m \in Makers, R[m] # None, R[m] \in Rollback
    PROVE  LET r == Restored(v, R[m])
           IN /\ IsVault(r) /\ DOMAIN r \subseteq DOMAIN v
              /\ \A x \in DOMAIN v : v[x].cred # m => x \in DOMAIN r /\ r[x] = v[x]
  <1> DEFINE rb == R[m]
             e == rb.entry
             kept == IF HistoryMatches(v[e]) THEN Front(v[e].hist) ELSE v[e].hist
             w == restore_passkey_registration_rollback(v, rb)
  <1>1. rb.cred = m /\ rb.created \in BOOLEAN /\ e \in Entries
    BY DEF Ready, Undoable, Rollback
  <1>2. IsVault(v)
    BY DEF Ready
  <1>3. CASE rb.created /\ entry_has_passkey_credential(v, e, m)
    <2>1. w = Without(v, e)
      BY <1>1, <1>3 DEF restore_passkey_registration_rollback
    <2>2. v[e].cred = m
      BY <1>3 DEF entry_has_passkey_credential
    <2>3. Restored(v, rb) = Without(v, e)
      <3>1. IsVault(Without(v, e))
        BY <1>2, WithoutTyped
      <3>2. Without(v, e) # None
        BY <3>1, NoneIsNoVault
      <3> QED BY <2>1, <3>2 DEF Restored
    <2>4. /\ IsVault(Without(v, e)) /\ DOMAIN Without(v, e) = DOMAIN v \ {e}
          /\ \A x \in DOMAIN v : x # e => Without(v, e)[x] = v[x]
      BY <1>2, WithoutTyped
    <2> HIDE DEF w
    <2> QED BY <2>2, <2>3, <2>4
  <1>4. CASE ~rb.created /\ e \in DOMAIN v /\ entry_has_passkey_credential(v, e, m)
    <2> DEFINE x == [rb.copy EXCEPT !.hist = kept, !.recycled = v[e].recycled]
    <2>1. w = With(v, e, x)
      BY <1>1, <1>4 DEF restore_passkey_registration_rollback
    <2>2. v[e].cred = m /\ v[e] \in Entry
      BY <1>2, <1>4, EntryTyped DEF entry_has_passkey_credential
    <2>3. kept \in Seq(Snapshots)
      BY <1>2, <1>4, KeptTyped
    <2>4. x \in Entry
      <3>1. rb.copy \in Entry
        BY <1>4 DEF Ready, Undoable
      <3> HIDE DEF kept
      <3> QED BY <2>2, <2>3, <3>1 DEF Entry
    <2> HIDE DEF x
    <2>5. Restored(v, rb) = With(v, e, x)
      <3>1. IsVault(With(v, e, x))
        BY <1>1, <1>2, <2>4, WithTyped
      <3>2. With(v, e, x) # None
        BY <3>1, NoneIsNoVault
      <3> QED BY <2>1, <3>2 DEF Restored
    <2> QED BY <1>1, <1>2, <1>4, <2>2, <2>4, <2>5, WithTyped
  <1>5. CASE ~entry_has_passkey_credential(v, e, m)
    <2>1. w \in {v, None}
      BY <1>1, <1>5 DEF restore_passkey_registration_rollback
    <2> QED BY <1>2, <2>1 DEF Restored
  <1> QED BY <1>1, <1>3, <1>4, <1>5 DEF entry_has_passkey_credential

\* The entry that has the credential of the registration loses it.
LEMMA RestoredItsEntry ==
    ASSUME NEW v, NEW mk, NEW R, Ready(R, mk, v), NEW m \in Makers, R[m] # None, R[m] \in Rollback,
           NEW x \in DOMAIN v, v[x].cred = m
    PROVE  LET r == Restored(v, R[m])
               k == Len(r[x].hist)
           IN /\ x = R[m].entry
              /\ R[m].created => x \notin DOMAIN r
              /\ ~R[m].created =>
                   /\ x \in DOMAIN r /\ r[x].cred = R[m].copy.cred /\ k \in Nat
                   /\ \A i \in 1..k : Line(r[x])[i] = Line(v[x])[i]
                   /\ \/ k = Len(v[x].hist)
                      \/ k + 1 = Len(v[x].hist) /\ Line(v[x])[k + 1] # m
  <1> DEFINE rb == R[m]
             e == rb.entry
             kept == IF HistoryMatches(v[e]) THEN Front(v[e].hist) ELSE v[e].hist
             w == restore_passkey_registration_rollback(v, rb)
  <1>1. rb.cred = m /\ rb.created \in BOOLEAN /\ e \in Entries /\ IsVault(v)
    BY DEF Ready, Undoable, Rollback
  <1>2. x = e
    BY <1>1, CurrentOnLine, OnlyItsEntry
  <1>3. entry_has_passkey_credential(v, e, m)
    BY <1>2 DEF entry_has_passkey_credential
  <1>4. CASE rb.created
    <2>1. w = Without(v, e)
      BY <1>1, <1>3, <1>4 DEF restore_passkey_registration_rollback
    <2>2. Restored(v, rb) = Without(v, e)
      <3>1. IsVault(Without(v, e))
        BY <1>1, WithoutTyped
      <3>2. Without(v, e) # None
        BY <3>1, NoneIsNoVault
      <3> QED BY <2>1, <3>2 DEF Restored
    <2>3. /\ IsVault(Without(v, e)) /\ DOMAIN Without(v, e) = DOMAIN v \ {e}
          /\ \A y \in DOMAIN v : y # e => Without(v, e)[y] = v[y]
      BY <1>1, WithoutTyped
    <2> HIDE DEF w
    <2> QED BY <1>2, <1>4, <2>2, <2>3
  <1>5. CASE ~rb.created
    <2> DEFINE y == [rb.copy EXCEPT !.hist = kept, !.recycled = v[e].recycled]
    <2>1. w = With(v, e, y)
      BY <1>1, <1>2, <1>3, <1>5 DEF restore_passkey_registration_rollback
    <2>2. v[e] \in Entry /\ v[e].hist \in Seq(Snapshots)
      BY <1>1, <1>2, EntryTyped
    <2>3. kept \in Seq(Snapshots)
      BY <1>1, <1>2, KeptTyped
    <2>4. y \in Entry /\ y.hist = kept /\ y.cred = rb.copy.cred
      <3>1. rb.copy \in Entry
        BY <1>5 DEF Ready, Undoable
      <3> HIDE DEF kept
      <3> QED BY <2>2, <2>3, <3>1 DEF Entry
    <2>5. Restored(v, rb)[e] = y /\ e \in DOMAIN Restored(v, rb)
      <3> HIDE DEF y
      <3>1. Restored(v, rb) = With(v, e, y)
        <4>1. IsVault(With(v, e, y))
          BY <1>1, <2>4, WithTyped
        <4>2. With(v, e, y) # None
          BY <4>1, NoneIsNoVault
        <4> QED BY <2>1, <4>2 DEF Restored
      <3>2. With(v, e, y)[e] = y /\ DOMAIN With(v, e, y) = DOMAIN v \cup {e}
        <4> HIDE DEF e
        <4> QED BY <1>1, <2>4, WithTyped
      <3> QED BY <3>1, <3>2
    <2>6. CASE HistoryMatches(v[e])
      <3>1. /\ v[e].hist # <<>> /\ kept = Front(v[e].hist)
            /\ v[e].hist[Len(v[e].hist)].cred # m
        BY <1>2, <2>6 DEF HistoryMatches, Last
      <3>2. /\ Len(kept) = Len(v[e].hist) - 1 /\ Len(v[e].hist) \in Nat \ {0}
            /\ \A i \in 1..Len(v[e].hist) - 1 : kept[i] = v[e].hist[i]
        BY <2>2, <3>1, FrontTyped
      <3>3. ASSUME NEW i \in 1..Len(kept) PROVE Line(y)[i] = Line(v[e])[i]
        <4> HIDE DEF kept, y
        <4>1. i \in 1..Len(v[e].hist) - 1 /\ i \in 1..Len(v[e].hist) /\ i \in 1..Len(y.hist)
          BY <2>4, <3>2
        <4>2. Line(y)[i] = kept[i].cred /\ Line(v[e])[i] = v[e].hist[i].cred
          BY <2>2, <2>4, <4>1, LineFacts
        <4> QED BY <3>2, <4>1, <4>2
      <3>4. Line(v[e])[Len(kept) + 1] # m
        <4> HIDE DEF kept, y
        <4> QED BY <2>2, <3>1, <3>2, LineFacts
      <3> HIDE DEF kept, y
      <3> QED BY <1>2, <1>5, <2>4, <2>5, <3>2, <3>3, <3>4
    <2>7. CASE ~HistoryMatches(v[e])
      <3>1. kept = v[e].hist
        BY <2>7
      <3>2. \A i \in 1..Len(kept) : Line(y)[i] = Line(v[e])[i]
        <4> HIDE DEF kept, y
        <4> QED BY <2>2, <2>4, <3>1, LineFacts
      <3>3. Len(kept) \in Nat
        BY <2>2, <3>1
      <3> HIDE DEF kept, y
      <3> QED BY <1>2, <1>5, <2>4, <2>5, <3>1, <3>2, <3>3
    <2> QED BY <2>6, <2>7
  <1> QED BY <1>1, <1>4, <1>5

\* How the lines of a vault change when a registration is rolled back.
LEMMA RestoredLine ==
    ASSUME NEW v, NEW mk, NEW R, Ready(R, mk, v), NEW m \in Makers, R[m] # None, R[m] \in Rollback,
           NEW x \in DOMAIN Restored(v, R[m])
    PROVE  LET r == Restored(v, R[m])
               k == Len(r[x].hist)
               n == Len(v[x].hist)
           IN /\ x \in DOMAIN v
              /\ \/ r[x] = v[x] /\ v[x].cred # m
                 \/ /\ x = R[m].entry /\ ~R[m].created /\ v[x].cred = m /\ r[x].cred = R[m].copy.cred
                    /\ k \in Nat /\ n \in Nat
                    /\ DOMAIN Line(r[x]) = 1..k + 1 /\ DOMAIN Line(v[x]) = 1..n + 1
                    /\ Line(v[x])[n + 1] = m /\ Line(r[x])[k + 1] = R[m].copy.cred
                    /\ \A i \in 1..k : Line(r[x])[i] = Line(v[x])[i]
                    /\ k = n \/ (k + 1 = n /\ Line(v[x])[n] # m)
  <1> DEFINE r == Restored(v, R[m])
             k == Len(r[x].hist)
             n == Len(v[x].hist)
  <1>1. IsVault(r) /\ x \in DOMAIN v /\ IsVault(v)
    BY RestoredElsewhere DEF Ready
  <1>2. CASE v[x].cred # m
    BY <1>1, <1>2, RestoredElsewhere
  <1>3. CASE v[x].cred = m
    <2>1. r[x] \in Entry /\ v[x] \in Entry
      BY <1>1, EntryTyped
    <2>2. ~R[m].created /\ x = R[m].entry
      BY <1>1, <1>3, RestoredItsEntry
    <2>3. /\ r[x].cred = R[m].copy.cred /\ k \in Nat
          /\ \A i \in 1..k : Line(r[x])[i] = Line(v[x])[i]
          /\ k = n \/ (k + 1 = n /\ Line(v[x])[k + 1] # m)
      BY <1>1, <1>3, <2>2, RestoredItsEntry
    <2>4. /\ DOMAIN Line(r[x]) = 1..k + 1 /\ Line(r[x])[k + 1] = r[x].cred
          /\ DOMAIN Line(v[x]) = 1..n + 1 /\ Line(v[x])[n + 1] = v[x].cred /\ n \in Nat
      BY <2>1, LineFacts
    <2>5. k + 1 = n => Line(v[x])[k + 1] = Line(v[x])[n]
      OBVIOUS
    <2> HIDE DEF r, k, n
    <2>6. k = n \/ (k + 1 = n /\ Line(v[x])[n] # m)
      BY <2>3, <2>5
    <2> QED BY <1>1, <1>3, <2>2, <2>3, <2>4, <2>6 DEF r, k, n
  <1> QED BY <1>2, <1>3

LEMMA RestoredPlaced ==
    ASSUME NEW v, NEW mk, NEW R, Ready(R, mk, v), NEW m \in Makers, R[m] # None, R[m] \in Rollback
    PROVE  Placed(mk, Restored(v, R[m]))
  <1> DEFINE r == Restored(v, R[m])
  <1> SUFFICES ASSUME NEW x \in DOMAIN r
               PROVE  /\ \A i \in DOMAIN Line(r[x]) : Line(r[x])[i] \in Makers => x \in DOMAIN mk /\ Line(r[x])[i] \in mk[x]
                      /\ x \in Makers => x \in DOMAIN mk /\ x \in mk[x]
    BY DEF Placed
  <1>1. x \in DOMAIN v
    BY RestoredLine
  <1>2. /\ \A i \in DOMAIN Line(v[x]) : Line(v[x])[i] \in Makers => x \in DOMAIN mk /\ Line(v[x])[i] \in mk[x]
        /\ x \in Makers => x \in DOMAIN mk /\ x \in mk[x]
    BY <1>1 DEF Ready, Placed
  <1>3. CASE r[x] = v[x]
    BY <1>2, <1>3
  <1>4. CASE r[x] # v[x]
    <2> DEFINE k == Len(r[x].hist)
               n == Len(v[x].hist)
    <2>1. /\ x = R[m].entry /\ ~R[m].created
          /\ k \in Nat /\ n \in Nat
          /\ DOMAIN Line(r[x]) = 1..k + 1 /\ DOMAIN Line(v[x]) = 1..n + 1
          /\ Line(r[x])[k + 1] = R[m].copy.cred
          /\ \A i \in 1..k : Line(r[x])[i] = Line(v[x])[i]
          /\ k = n \/ k + 1 = n
      BY <1>4, RestoredLine
    <2>2. R[m].copy.cred \in Makers => x \in DOMAIN mk /\ R[m].copy.cred \in mk[x]
      BY <2>1 DEF Ready, Undoable
    <2>3. ASSUME NEW i \in DOMAIN Line(r[x]), Line(r[x])[i] \in Makers PROVE x \in DOMAIN mk /\ Line(r[x])[i] \in mk[x]
      <3> HIDE DEF r, k, n
      <3>1. CASE i = k + 1
        BY <2>1, <2>2, <2>3, <3>1
      <3>2. CASE i # k + 1
        <4>1. i \in 1..k /\ i \in DOMAIN Line(v[x])
          BY <2>1, <2>3, <3>2
        <4> QED BY <1>2, <2>1, <2>3, <4>1
      <3> QED BY <3>1, <3>2
    <2> QED BY <1>2, <2>3
  <1> QED BY <1>3, <1>4

LEMMA RestoredAccounted ==
    ASSUME NEW v, NEW mk, NEW R, Ready(R, mk, v), NEW m \in Makers, R[m] # None, R[m] \in Rollback,
           NEW A, Accounted(mk, A, v)
    PROVE  Accounted(mk, A \ {m}, Restored(v, R[m]))
  <1> DEFINE r == Restored(v, R[m])
  <1> SUFFICES ASSUME NEW x \in DOMAIN r, r[x].cred \in Makers, mk[x] = {r[x].cred}
               PROVE  r[x].cred \in A \ {m}
    BY DEF Accounted
  <1>1. x \in DOMAIN v
    BY RestoredLine
  <1>2. CASE r[x] = v[x] /\ v[x].cred # m
    BY <1>1, <1>2 DEF Accounted
  <1>3. CASE ~(r[x] = v[x] /\ v[x].cred # m)
    <2>1. x = R[m].entry /\ ~R[m].created /\ r[x].cred = R[m].copy.cred
      BY <1>3, RestoredLine
    <2>2. m \in mk[x] /\ R[m].copy.cred # m
      BY <2>1 DEF Ready, Undoable
    <2> QED BY <2>1, <2>2
  <1> QED BY <1>2, <1>3

\* What a token that waits to be saved has in the line of an entry stays
\* there: the lines above it can only be taken off one registration at a time.
LEMMA RestoredCovered ==
    ASSUME NEW v, NEW mk, NEW R, Ready(R, mk, v), NEW m \in Makers, R[m] # None, R[m] \in Rollback,
           NEW W \in SUBSET Makers, Stacked(R, W, v), W \subseteq CredsOf(v)
    PROVE  W \ {m} \subseteq CredsOf(Restored(v, R[m]))
  <1> DEFINE r == Restored(v, R[m])
  <1> SUFFICES ASSUME NEW t \in W \ {m} PROVE t \in CredsOf(r)
    OBVIOUS
  <1>1. IsVault(v) /\ IsVault(r)
    BY RestoredElsewhere DEF Ready
  <1>2. PICK x \in DOMAIN v : \E i \in DOMAIN Line(v[x]) : Line(v[x])[i] = t
    BY <1>1, CredsOnLine
  <1>3. PICK i \in DOMAIN Line(v[x]) : Line(v[x])[i] = t
    BY <1>2
  <1> SUFFICES \E y \in DOMAIN r : \E j \in DOMAIN Line(r[y]) : Line(r[y])[j] = t
    BY <1>1, CredsOnLine
  <1>4. CASE v[x].cred # m
    <2>1. x \in DOMAIN r /\ r[x] = v[x]
      BY <1>4, RestoredElsewhere
    <2> QED BY <1>3, <2>1
  <1>5. CASE v[x].cred = m
    <2> DEFINE n == Len(v[x].hist)
               z == Line(v[x])
               c == R[m].copy.cred
    <2>1. n \in Nat /\ DOMAIN z = 1..n + 1 /\ z[n + 1] = m
      <3>1. v[x] \in Entry
        BY <1>1, EntryTyped
      <3> QED BY <1>5, <3>1, LineFacts
    <2>2. i \in 1..n /\ z[i] = t /\ t # m
      <3> HIDE DEF n
      <3> QED BY <1>3, <2>1
    <2>3. n + 1 \in DOMAIN z /\ i < n + 1
      <3> HIDE DEF n
      <3> QED BY <2>1, <2>2
    <2>4. Between(R, z, i, n + 1)
      BY <2>1, <2>2, <2>3 DEF Stacked
    <2>5. ~R[m].created /\ \E j \in i..n : z[j] = c
      <3> HIDE DEF n
      <3>1. (n + 1) - 1 = n
        BY <2>1
      <3> QED BY <2>1, <2>4, <3>1 DEF Between
    <2>6. x \in DOMAIN r
      BY <1>5, <2>5, RestoredItsEntry
    <2> DEFINE k == Len(r[x].hist)
    <2>7. /\ k \in Nat /\ DOMAIN Line(r[x]) = 1..k + 1 /\ Line(r[x])[k + 1] = c
          /\ \A j \in 1..k : Line(r[x])[j] = z[j]
          /\ k = n \/ k + 1 = n
      BY <1>5, <2>6, RestoredLine
    <2>8. \E j \in 1..k + 1 : Line(r[x])[j] = t
      <3> HIDE DEF n, k, r, z, c
      <3>1. CASE i \in 1..k
        BY <2>2, <2>7, <3>1
      <3>2. CASE i \notin 1..k
        <4>1. i = n
          BY <2>1, <2>2, <2>7, <3>2
        <4>2. \A j \in i..n : j = n
          BY <2>1, <4>1
        <4>3. z[n] = c /\ t = c
          BY <2>2, <2>5, <4>1, <4>2
        <4> QED BY <2>7, <4>3
      <3> QED BY <3>1, <3>2
    <2> QED BY <2>6, <2>7, <2>8
  <1> QED BY <1>4, <1>5

LEMMA RestoredStacked ==
    ASSUME NEW v, NEW mk, NEW R, Ready(R, mk, v), NEW m \in Makers, R[m] # None, R[m] \in Rollback,
           NEW W \in SUBSET Makers, Stacked(R, W, v)
    PROVE  Stacked(R, W \ {m}, Restored(v, R[m]))
  <1> DEFINE r == Restored(v, R[m])
  <1> SUFFICES ASSUME NEW x \in DOMAIN r, NEW i \in DOMAIN Line(r[x]), NEW j \in DOMAIN Line(r[x]),
                      i < j, Line(r[x])[i] \in W \ {m}, Line(r[x])[j] # Line(r[x])[i],
                      Line(r[x])[j] \in Makers, R[Line(r[x])[j]] # None
               PROVE  Between(R, Line(r[x]), i, j)
    BY DEF Stacked
  <1>1. x \in DOMAIN v
    BY RestoredLine
  <1>2. CASE r[x] = v[x]
    BY <1>1, <1>2 DEF Stacked
  <1>3. CASE r[x] # v[x]
    <2> DEFINE n == Len(v[x].hist)
               k == Len(r[x].hist)
               z == Line(v[x])
               u == Line(r[x])
               c == R[m].copy.cred
               y == u[j]
    <2>1. /\ ~R[m].created /\ k \in Nat /\ n \in Nat
          /\ DOMAIN u = 1..k + 1 /\ DOMAIN z = 1..n + 1
          /\ z[n + 1] = m /\ u[k + 1] = c
          /\ \A l \in 1..k : u[l] = z[l]
          /\ k = n \/ k + 1 = n
      BY <1>3, RestoredLine
    <2>2. Stacked(R, W, v)
      OBVIOUS
    <2>3. \A a, b \in DOMAIN z : a < b /\ z[a] \in W /\ z[b] # z[a] /\ z[b] \in Makers /\ R[z[b]] # None => Between(R, z, a, b)
      BY <1>1, <2>2 DEF Stacked
    <2>4. i \in 1..k /\ j \in 1..k + 1 /\ z[i] = u[i] /\ z[i] \in W /\ z[i] # m
      <3> HIDE DEF n, k, r, z, c, u
      <3>1. i \in 1..k
        BY <2>1 DEF u
      <3> QED BY <2>1, <3>1 DEF u
    <2>5. CASE j \in 1..k
      <3>1. Between(R, z, i, j)
        <4> HIDE DEF n, k, r, z, c
        <4>1. i \in DOMAIN z /\ j \in DOMAIN z /\ z[j] = y
          BY <2>1, <2>4, <2>5
        <4> QED BY <2>3, <2>4, <4>1
      <3>2. PICK l \in i..(j - 1) : z[l] = R[z[j]].copy.cred
        BY <3>1 DEF Between
      <3>3. l \in 1..k /\ z[j] = u[j]
        <4> HIDE DEF n, k, r, z, c, u
        <4> QED BY <2>1, <2>4, <2>5
      <3> HIDE DEF n, k, r, z, c, u
      <3>4. u[l] = z[l]
        BY <2>1, <3>3
      <3> QED BY <3>1, <3>2, <3>3, <3>4 DEF Between, u
    <2>6. CASE j = k + 1
      <3>1. Between(R, z, i, n + 1)
        <4> HIDE DEF n, k, r, z, c, u
        <4>1. i \in DOMAIN z /\ n + 1 \in DOMAIN z /\ i < n + 1
          BY <2>1, <2>4
        <4> QED BY <2>1, <2>3, <2>4, <4>1
      <3>2. PICK l \in i..n : z[l] = c
        <4> HIDE DEF n
        <4>1. (n + 1) - 1 = n
          BY <2>1
        <4> QED BY <2>1, <3>1, <4>1 DEF Between
      <3>3. y = c /\ z[l] = y
        BY <2>1, <2>6, <3>2
      <3>4. l # i
        BY <2>4, <3>3
      <3>5. i < l /\ i \in DOMAIN z /\ l \in DOMAIN z
        <4> HIDE DEF n, k, r, z, c, u, y
        <4> QED BY <2>1, <2>4, <3>2, <3>4
      <3>6. Between(R, z, i, l)
        BY <2>3, <2>4, <3>3, <3>5
      <3>7. PICK a \in i..(l - 1) : z[a] = R[y].copy.cred
        BY <3>3, <3>6 DEF Between
      <3>8. a \in 1..k /\ a \in i..(j - 1)
        <4> HIDE DEF n, k, r, z, c, u, y
        <4> QED BY <2>1, <2>4, <2>6, <3>2
      <3>9. u[a] = R[y].copy.cred /\ ~R[y].created
        <4>1. ~R[y].created
          BY <3>3, <3>6 DEF Between
        <4>2. u[a] = z[a]
          BY <2>1, <3>8
        <4> QED BY <3>7, <4>1, <4>2
      <3> HIDE DEF n, k, r, z, c
      <3> QED BY <3>8, <3>9 DEF Between
    <2> QED
      <3> HIDE DEF n, k, r, z, c, u, y
      <3> QED BY <2>1, <2>4, <2>5, <2>6
  <1> QED BY <1>2, <1>3

(***************************************************************************)
(* What follows when less is owed                                          *)
(***************************************************************************)

LEMMA AccountedMono ==
    ASSUME NEW mk, NEW A, NEW B, NEW v, A \subseteq B, Accounted(mk, A, v)
    PROVE  Accounted(mk, B, v)
  BY DEF Accounted

LEMMA UndoableMono ==
    ASSUME NEW R, NEW R2, NEW mk, \A m \in Makers : R2[m] = None \/ R2[m] = R[m], Undoable(R, mk)
    PROVE  Undoable(R2, mk)
  BY DEF Undoable

LEMMA StackedMono ==
    ASSUME NEW R, NEW R2, NEW W, NEW W2, NEW v, W2 \subseteq W, \A m \in Makers : R2[m] = None \/ R2[m] = R[m],
           Stacked(R, W, v)
    PROVE  Stacked(R2, W2, v)
  <1> SUFFICES ASSUME NEW e \in DOMAIN v, NEW i \in DOMAIN Line(v[e]), NEW j \in DOMAIN Line(v[e]),
                      i < j, Line(v[e])[i] \in W2, Line(v[e])[j] # Line(v[e])[i],
                      Line(v[e])[j] \in Makers, R2[Line(v[e])[j]] # None
               PROVE  Between(R2, Line(v[e]), i, j)
    BY DEF Stacked
  <1>1. R2[Line(v[e])[j]] = R[Line(v[e])[j]]
    OBVIOUS
  <1>2. Between(R, Line(v[e]), i, j)
    BY <1>1 DEF Stacked
  <1> QED BY <1>1, <1>2 DEF Between

LEMMA FileKnownMono ==
    ASSUME NEW M, NEW M2, NEW P, NEW P2, NEW f, M2 \subseteq M, P \subseteq P2, FileKnown(M, f, P)
    PROVE  FileKnown(M2, f, P2)
  BY DEF FileKnown

LEMMA Names ==
    /\ Tokens \cap Ops = {} /\ Makers = Tokens \cup Ops /\ Makers \subseteq Credentials /\ Makers \subseteq Entries
    /\ None \notin Makers /\ None \notin Entry /\ None \notin Rollback /\ None \notin PasskeyCeremony /\ None \notin PlatformLease
    /\ None \notin Entries
    /\ IsFiniteSet(Tokens)
    /\ IsVault(InitialVault) /\ (DOMAIN InitialVault \cup CredsOf(InitialVault)) \cap Makers = {}
  BY PasskeyNames DEF Makers, Entries

LEMMA UndoTyped ==
    ASSUME NEW L \in [Tokens -> PasskeyCeremony \cup {None}], NEW Ls \in [Ops -> PlatformLease \cup {None}]
    PROVE  /\ UndoOf(L, Ls) \in [Makers -> Rollback \cup {None}]
           /\ \A t \in Tokens : UndoOf(L, Ls)[t] = IF L[t] = None THEN None ELSE L[t].rollback
           /\ \A p \in Ops : UndoOf(L, Ls)[p] = IF Ls[p] = None THEN None ELSE Ls[p].rollback
  <1>1. \A t \in Tokens : L[t] # None => L[t].rollback \in Rollback \cup {None}
    BY DEF PasskeyCeremony
  <1>2. \A p \in Ops : Ls[p] # None => Ls[p].rollback \in Rollback \cup {None}
    BY DEF PlatformLease
  <1>3. UndoOf(L, Ls) = [m \in Makers |-> IF m \in Ops THEN IF Ls[m] = None THEN None ELSE Ls[m].rollback
                                          ELSE IF L[m] = None THEN None ELSE L[m].rollback]
    BY DEF UndoOf
  <1>4. \A m \in Makers : UndoOf(L, Ls)[m] \in Rollback \cup {None}
    BY <1>1, <1>2, <1>3, Names
  <1>5. \A t \in Tokens : UndoOf(L, Ls)[t] = IF L[t] = None THEN None ELSE L[t].rollback
    BY <1>3, Names
  <1>6. \A p \in Ops : UndoOf(L, Ls)[p] = IF Ls[p] = None THEN None ELSE Ls[p].rollback
    BY <1>3, Names
  <1> QED BY <1>3, <1>4, <1>5, <1>6

(***************************************************************************)
(* Saves and aborts                                                        *)
(***************************************************************************)

StoreOf(L, v, f, S, F) == [ledger |-> L, live |-> v, file |-> f, stored |-> S, fate |-> F]

ClosedBy(c, next) == [c EXCEPT !.phase = next, !.durable = "none", !.rollback = None]

\* A ceremony closed and its rollback applied, a vault saved, a rollback
\* applied alone.
ClosedStore(st, t, next, v) ==
    StoreOf([st.ledger EXCEPT ![t] = ClosedBy(st.ledger[t], next)], v, st.file, st.stored, st.fate)
Publishes(st, by) == [st.fate EXCEPT !.published = @ \cup (UncommittedIn(st) \ {by})]
SavedStore(st, by) == StoreOf(st.ledger, st.live, st.live, st.stored \cup CredsOf(st.live), Publishes(st, by))
RestoredStore(st, v) == StoreOf(st.ledger, v, st.file, st.stored, st.fate)

LEMMA ClosedStoreIs ==
    ASSUME NEW st, StoreTyped(st), NEW t \in Tokens, NEW next, NEW v
    PROVE  Closing(st, t, next, v) = ClosedStore(st, t, next, v)
  <1> DEFINE x == [st.ledger[t] EXCEPT !.phase = next, !.durable = "none", !.rollback = None]
             L == [st.ledger EXCEPT ![t] = x]
  <1>1. Closing(st, t, next, v) = [[st EXCEPT !.ledger[t] = x] EXCEPT !.live = v]
    BY DEF Closing, StoreTyped
  <1>2. [st EXCEPT !.ledger[t] = x] = StoreOf(L, st.live, st.file, st.stored, st.fate)
    <2> HIDE DEF x
    <2> QED BY DEF StoreTyped, StoreOf
  <1>3. \A s, y : s = StoreOf(y, st.live, st.file, st.stored, st.fate)
                   => [s EXCEPT !.live = v] = StoreOf(y, v, st.file, st.stored, st.fate)
    BY DEF StoreOf
  <1> QED BY <1>1, <1>2, <1>3 DEF ClosedStore, ClosedBy

LEMMA SavedStoreIs ==
    ASSUME NEW st, StoreTyped(st), NEW by
    PROVE  Saved(st, by) = SavedStore(st, by)
  <1> DEFINE P == UncommittedIn(st) \ {by}
             S == st.stored \cup CredsOf(st.live)
             v == st.live
  <1>1. {m \in Makers : Uncommitted(st, m)} = UncommittedIn(st)
    BY DEF Uncommitted, UncommittedIn, UncommittedOf
  <1>2. Saved(st, by) = [[[st EXCEPT !.file = v] EXCEPT !.stored = S] EXCEPT !.fate.published = @ \cup P]
    BY <1>1 DEF Saved
  <1>3. [st EXCEPT !.file = v] = StoreOf(st.ledger, st.live, v, st.stored, st.fate)
    BY DEF StoreTyped, StoreOf
  <1>4. \A s : s = StoreOf(st.ledger, st.live, v, st.stored, st.fate)
                => [s EXCEPT !.stored = S] = StoreOf(st.ledger, st.live, v, S, st.fate)
    BY DEF StoreOf
  <1>5. ASSUME NEW s, s = StoreOf(st.ledger, st.live, v, S, st.fate)
        PROVE  [s EXCEPT !.fate.published = @ \cup P]
                 = StoreOf(st.ledger, st.live, v, S, [st.fate EXCEPT !.published = @ \cup P])
    <2>1. s.fate = st.fate
      BY <1>5 DEF StoreOf
    <2>2. [s EXCEPT !.fate.published = @ \cup P] = [s EXCEPT !.fate = [s.fate EXCEPT !.published = @ \cup P]]
      OBVIOUS
    <2>3. \A y : [s EXCEPT !.fate = y] = StoreOf(st.ledger, st.live, v, S, y)
      BY <1>5 DEF StoreOf
    <2> QED BY <2>1, <2>2, <2>3
  <1> QED BY <1>2, <1>3, <1>4, <1>5 DEF SavedStore, Publishes

LEMMA RestoredStoreIs ==
    ASSUME NEW st, StoreTyped(st), NEW v
    PROVE  [st EXCEPT !.live = v] = RestoredStore(st, v)
  BY DEF StoreTyped, RestoredStore, StoreOf

LEMMA StoreOfParts ==
    ASSUME NEW L, NEW v, NEW f, NEW S, NEW F
    PROVE  /\ StoreOf(L, v, f, S, F).ledger = L /\ StoreOf(L, v, f, S, F).live = v /\ StoreOf(L, v, f, S, F).file = f
           /\ StoreOf(L, v, f, S, F).stored = S /\ StoreOf(L, v, f, S, F).fate = F
           /\ L \in [Tokens -> PasskeyCeremony \cup {None}] /\ (v # Locked => IsVault(v)) /\ IsVault(f)
                /\ S \in SUBSET Held /\ F \in Fates
              => StoreTyped(StoreOf(L, v, f, S, F))
  BY DEF StoreOf, StoreTyped

LEMMA ClosedByTyped ==
    ASSUME NEW c \in PasskeyCeremony, NEW next \in Closed
    PROVE  /\ ClosedBy(c, next) \in PasskeyCeremony /\ ClosedBy(c, next) # None /\ ClosedBy(c, next).phase = next
           /\ ClosedBy(c, next).durable = "none" /\ ClosedBy(c, next).rollback = None /\ ClosedBy(c, next).id = c.id
  <1>1. ClosedBy(c, next) \in PasskeyCeremony
    BY DEF ClosedBy, PasskeyCeremony
  <1> QED BY <1>1, Names DEF ClosedBy, PasskeyCeremony

\* The rollback states are those of the ceremonies and leases.
LEMMA UndoInTyped ==
    ASSUME Typed, NEW st, StoreTyped(st)
    PROVE  /\ UndoIn(st) \in [Makers -> Rollback \cup {None}]
           /\ \A t \in Tokens : UndoIn(st)[t] = IF st.ledger[t] = None THEN None ELSE st.ledger[t].rollback
           /\ \A p \in Ops : UndoIn(st)[p] = IF leases[p] = None THEN None ELSE leases[p].rollback
  BY UndoTyped DEF Typed, StoreTyped, UndoIn

LEMMA LiveReady ==
    ASSUME Typed, Sole(makers), NEW st, NEW late, LiveSound(st, late), st.live # Locked
    PROVE  Ready(UndoIn(st), makers, st.live)
  BY DEF LiveSound, StoreTyped, Ready

LEMMA CloseChanges ==
    ASSUME Typed, NEW st, StoreTyped(st), NEW t \in Tokens, st.ledger[t] # None, NEW next \in Closed, NEW v
    PROVE  LET s == ClosedStore(st, t, next, v)
           IN /\ s.ledger[t] = ClosedBy(st.ledger[t], next) /\ \A x \in Tokens : x # t => s.ledger[x] = st.ledger[x]
              /\ s.ledger \in [Tokens -> PasskeyCeremony \cup {None}]
              /\ UndoIn(s)[t] = None /\ \A m \in Makers : m # t => UndoIn(s)[m] = UndoIn(st)[m]
              /\ AccountedIn(st) \ {t} \subseteq AccountedIn(s)
              /\ st.ledger[t].rollback = None => AccountedIn(st) \subseteq AccountedIn(s)
              /\ UncommittedIn(s) \subseteq UncommittedIn(st) \ {t}
              /\ WaitingIn(s) \subseteq WaitingIn(st) \ {t}
              /\ s.live = v /\ s.file = st.file /\ s.stored = st.stored /\ s.fate = st.fate
              /\ ((v # Locked => IsVault(v)) => StoreTyped(s))
  <1> DEFINE s == ClosedStore(st, t, next, v)
             c == st.ledger[t]
             d == ClosedBy(c, next)
  <1>1. c \in PasskeyCeremony /\ st.ledger \in [Tokens -> PasskeyCeremony \cup {None}]
    BY DEF StoreTyped
  <1>2. /\ d \in PasskeyCeremony /\ d # None /\ d.phase = next /\ d.durable = "none" /\ d.rollback = None
    BY <1>1, ClosedByTyped
  <1>3. /\ s.ledger = [st.ledger EXCEPT ![t] = d] /\ s.live = v /\ s.file = st.file /\ s.stored = st.stored
        /\ s.fate = st.fate
    BY StoreOfParts DEF ClosedStore
  <1>4. /\ s.ledger[t] = d /\ \A x \in Tokens : x # t => s.ledger[x] = st.ledger[x]
        /\ s.ledger \in [Tokens -> PasskeyCeremony \cup {None}]
    <2> HIDE DEF s, d
    <2> QED BY <1>1, <1>2, <1>3
  <1>5. (v # Locked => IsVault(v)) => StoreTyped(s)
    <2>1. IsVault(st.file) /\ st.stored \in SUBSET Held /\ st.fate \in Fates
      BY DEF StoreTyped
    <2>2. s = StoreOf(s.ledger, v, st.file, st.stored, st.fate)
      BY <1>3 DEF ClosedStore
    <2> HIDE DEF s
    <2> QED BY <1>4, <2>1, <2>2, StoreOfParts
  <1>6. UndoIn(s)[t] = None /\ \A m \in Makers : m # t => UndoIn(s)[m] = UndoIn(st)[m]
    <2>1. UndoIn(s) = UndoOf(s.ledger, leases) /\ UndoIn(st) = UndoOf(st.ledger, leases)
      BY DEF UndoIn
    <2> HIDE DEF s, d
    <2> QED BY <1>1, <1>2, <1>4, <2>1, UndoTyped, Names DEF Typed
  <1> HIDE DEF s, d
  <1>7. /\ AccountedIn(st) \ {t} \subseteq AccountedIn(s)
        /\ c.rollback = None => AccountedIn(st) \subseteq AccountedIn(s)
    BY <1>2, <1>3, <1>4, Names DEF AccountedIn, AccountedOf
  <1>8. UncommittedIn(s) \subseteq UncommittedIn(st) \ {t}
    BY <1>2, <1>4, Names DEF UncommittedIn, UncommittedOf
  <1>9. WaitingIn(s) \subseteq WaitingIn(st) \ {t}
    <2>1. ExemptIn(s) = ExemptIn(st)
      BY <1>3 DEF ExemptIn
    <2> QED BY <1>2, <1>4, <2>1 DEF WaitingIn, WaitingOf
  <1> QED BY <1>2, <1>3, <1>4, <1>5, <1>6, <1>7, <1>8, <1>9 DEF s, d

LEMMA RestoredVault ==
    ASSUME NEW v, NEW mk, NEW R, Ready(R, mk, v), NEW m \in Makers, R[m] # None, R[m] \in Rollback
    PROVE  IsVault(Restored(v, R[m])) /\ Restored(v, R[m]) # Locked
  BY RestoredElsewhere, NoneIsNoVault

\* The vault of a ceremony that is being closed, once it is rolled back.
LEMMA CloseVault ==
    ASSUME Typed, Sole(makers), NEW st, NEW late, LiveSound(st, late),
           NEW t \in Tokens, st.ledger[t] # None, NEW next \in Closed, NEW v,
           st.ledger[t].rollback = None => v = st.live,
           st.ledger[t].rollback # None => st.live # Locked /\ v = Restored(st.live, st.ledger[t].rollback)
    PROVE  LET s == ClosedStore(st, t, next, v)
           IN /\ v # Locked => IsVault(v) /\ Placed(makers, v) /\ Accounted(makers, AccountedIn(s), v)
                                 /\ Stacked(UndoIn(s), WaitingIn(s), v)
              /\ WaitingIn(s) # {} => v # Locked /\ WaitingIn(s) \subseteq CredsOf(v)
  <1> DEFINE s == ClosedStore(st, t, next, v)
             R == UndoIn(st)
             A == AccountedIn(st)
             W == WaitingIn(st)
             c == st.ledger[t]
  <1>1. StoreTyped(st) /\ W \in SUBSET Makers /\ t \in Makers
    BY Names DEF LiveSound, WaitingIn, WaitingOf
  <1>2. /\ \A m \in Makers : UndoIn(s)[m] = None \/ UndoIn(s)[m] = R[m]
        /\ A \ {t} \subseteq AccountedIn(s) /\ (c.rollback = None => A \subseteq AccountedIn(s))
        /\ WaitingIn(s) \subseteq W \ {t}
    BY <1>1, CloseChanges
  <1>3. /\ st.live # Locked => IsVault(st.live) /\ Placed(makers, st.live) /\ Accounted(makers, A, st.live) /\ Stacked(R, W, st.live)
        /\ W # {} => st.live # Locked /\ W \subseteq CredsOf(st.live)
    BY DEF LiveSound, StoreTyped
  <1>4. CASE c.rollback = None
    <2>1. v = st.live
      BY <1>4
    <2> HIDE DEF s, R, A, W
    <2>2. v # Locked => Accounted(makers, AccountedIn(s), v)
      BY <1>2, <1>3, <1>4, <2>1, AccountedMono
    <2>3. v # Locked => Stacked(UndoIn(s), WaitingIn(s), v)
      <3>1. WaitingIn(s) \subseteq W
        BY <1>2
      <3> QED BY <1>2, <1>3, <2>1, <3>1, StackedMono
    <2> QED BY <1>2, <1>3, <2>1, <2>2, <2>3 DEF s
  <1>5. CASE c.rollback # None
    <2>1. R[t] = c.rollback /\ R[t] # None /\ R[t] \in Rollback /\ st.live # Locked
      BY <1>1, <1>5, UndoInTyped
    <2>2. Ready(R, makers, st.live)
      BY <2>1, LiveReady
    <2>3. v = Restored(st.live, R[t])
      BY <1>5, <2>1
    <2> HIDE DEF s, R, A, W, c
    <2>4. IsVault(v) /\ v # Locked
      BY <1>1, <2>1, <2>2, <2>3, RestoredVault
    <2>5. Placed(makers, v)
      BY <1>1, <2>1, <2>2, <2>3, RestoredPlaced
    <2>6. Accounted(makers, AccountedIn(s), v)
      <3>1. Accounted(makers, A \ {t}, v)
        BY <1>1, <1>3, <2>1, <2>2, <2>3, RestoredAccounted
      <3> QED BY <1>2, <3>1, AccountedMono
    <2>7. Stacked(UndoIn(s), WaitingIn(s), v)
      <3>1. Stacked(R, W \ {t}, v)
        BY <1>1, <1>3, <2>1, <2>2, <2>3, RestoredStacked
      <3> QED BY <1>2, <3>1, StackedMono
    <2>8. WaitingIn(s) # {} => WaitingIn(s) \subseteq CredsOf(v)
      <3>1. W # {} => W \ {t} \subseteq CredsOf(v)
        BY <1>1, <1>3, <2>1, <2>2, <2>3, RestoredCovered
      <3> QED BY <1>2, <3>1
    <2> QED BY <2>4, <2>5, <2>6, <2>7, <2>8 DEF s
  <1> QED BY <1>4, <1>5

LEMMA CloseLive ==
    ASSUME Typed, Sole(makers), NEW st, NEW late, LiveSound(st, late),
           NEW t \in Tokens, st.ledger[t] # None, st.ledger[t].durable # "committed", NEW next \in Closed, NEW v,
           st.ledger[t].rollback = None => v = st.live,
           st.ledger[t].rollback # None => st.live # Locked /\ v = Restored(st.live, st.ledger[t].rollback)
    PROVE  LiveSound(ClosedStore(st, t, next, v), late \cup {t})
  <1> DEFINE s == ClosedStore(st, t, next, v)
             c == st.ledger[t]
             d == ClosedBy(c, next)
  <1>1. StoreTyped(st) /\ c \in PasskeyCeremony
    BY DEF LiveSound, StoreTyped
  <1>2. /\ d # None /\ d.phase = next /\ d.durable = "none" /\ d.rollback = None /\ d.id = c.id
    BY <1>1, ClosedByTyped
  <1>3. /\ s.ledger[t] = d /\ \A x \in Tokens : x # t => s.ledger[x] = st.ledger[x]
        /\ UndoIn(s)[t] = None /\ \A m \in Makers : m # t => UndoIn(s)[m] = UndoIn(st)[m]
        /\ s.live = v /\ s.fate = st.fate /\ ExemptIn(s) = ExemptIn(st)
        /\ ((v # Locked => IsVault(v)) => StoreTyped(s))
    BY <1>1, CloseChanges DEF ExemptIn
  <1>4. /\ v # Locked => IsVault(v) /\ Placed(makers, v) /\ Accounted(makers, AccountedIn(s), v)
                           /\ Stacked(UndoIn(s), WaitingIn(s), v)
        /\ WaitingIn(s) # {} => v # Locked /\ WaitingIn(s) \subseteq CredsOf(v)
    BY CloseVault
  <1> HIDE DEF s, d
  <1>5. StoreTyped(s)
    BY <1>3, <1>4
  <1>6. LedgerKept(s.ledger, s.fate, client)
    BY <1>2, <1>3 DEF LiveSound, LedgerKept
  <1>7. Undoable(UndoIn(s), makers)
    BY <1>3, UndoableMono DEF LiveSound
  <1>8. Attended(s.ledger, s.fate, client, late \cup {t})
    BY <1>2, <1>3 DEF LiveSound, Attended
  <1>9. Answered(s.ledger, client, ExemptIn(s))
    BY <1>2, <1>3 DEF LiveSound, Answered
  <1>10. HandedOver(site, UndoIn(s), client, leases, proofs)
    BY <1>3 DEF LiveSound, HandedOver
  <1>11. site \subseteq ExemptIn(s)
    BY <1>3 DEF LiveSound
  <1> QED BY <1>3, <1>4, <1>5, <1>6, <1>7, <1>8, <1>9, <1>10, <1>11 DEF LiveSound, s

\* Nothing of the ceremony that is closed is in the file, unless another
\* save published it.
LEMMA CloseFile ==
    ASSUME Typed, NEW st, NEW late, LiveSound(st, late), FileSound(st, UncommittedIn(st)),
           NEW t \in Tokens, st.ledger[t] # None, st.ledger[t].durable \in {"none", "mutated"}, NEW next \in Closed, NEW v
    PROVE  LET s == ClosedStore(st, t, next, v) IN FileSound(s, UncommittedIn(s))
  <1> DEFINE s == ClosedStore(st, t, next, v)
             c == st.ledger[t]
  <1>1. StoreTyped(st)
    BY DEF LiveSound
  <1>2. /\ AccountedIn(st) \ {t} \subseteq AccountedIn(s) /\ (c.rollback = None => AccountedIn(st) \subseteq AccountedIn(s))
        /\ UncommittedIn(s) \subseteq UncommittedIn(st)
        /\ s.file = st.file /\ s.fate = st.fate
    BY <1>1, CloseChanges
  <1> HIDE DEF s
  <1>3. FileKnown(UncommittedIn(s), s.file, s.fate.published)
    BY <1>2, FileKnownMono DEF FileSound
  <1>4. Accounted(makers, AccountedIn(s), s.file)
    <2>1. CASE c.rollback = None
      BY <1>2, <2>1, AccountedMono DEF FileSound
    <2>2. CASE c.rollback # None
      <3>1. t \in UncommittedIn(st)
        <4>1. c.durable = "mutated"
          BY <2>2 DEF LiveSound, LedgerKept
        <4> QED BY <4>1, Names DEF UncommittedIn, UncommittedOf
      <3>2. \A e \in DOMAIN st.file : st.file[e].cred = t => t \in s.fate.published
        BY <1>2, <3>1 DEF FileSound, FileKnown
      <3>3. s.fate.published \subseteq AccountedIn(s)
        BY DEF AccountedIn, AccountedOf
      <3> QED BY <1>2, <3>2, <3>3 DEF FileSound, Accounted
    <2> QED BY <2>1, <2>2
  <1> QED BY <1>2, <1>3, <1>4 DEF FileSound, s

LEMMA CredsHeld ==
    ASSUME NEW v, IsVault(v)
    PROVE  CredsOf(v) \subseteq Held
  <1> SUFFICES ASSUME NEW c \in CredsOf(v) PROVE c \in Held
    OBVIOUS
  <1>1. PICK e \in DOMAIN v : \E i \in DOMAIN Line(v[e]) : Line(v[e])[i] = c
    BY CredsOnLine
  <1>2. PICK i \in DOMAIN Line(v[e]) : Line(v[e])[i] = c
    BY <1>1
  <1>3. v[e] \in Entry
    BY EntryTyped
  <1> DEFINE n == Len(v[e].hist)
  <1>4. /\ n \in Nat /\ DOMAIN Line(v[e]) = 1..n + 1 /\ \A j \in 1..n : Line(v[e])[j] \in Held
        /\ Line(v[e])[n + 1] \in Held
    BY <1>3, LineFacts
  <1> HIDE DEF n
  <1> QED BY <1>2, <1>4

LEMMA SaveChanges ==
    ASSUME NEW st, StoreTyped(st), st.live # Locked, NEW by
    PROVE  LET s == SavedStore(st, by)
           IN /\ StoreTyped(s) /\ s.ledger = st.ledger /\ s.live = st.live /\ s.file = st.live
              /\ UndoIn(s) = UndoIn(st) /\ UncommittedIn(s) = UncommittedIn(st)
              /\ AccountedIn(st) \subseteq AccountedIn(s) /\ UncommittedIn(st) \ {by} \subseteq s.fate.published
              /\ ExemptIn(st) \cup CredsOf(st.live) \subseteq ExemptIn(s) /\ WaitingIn(s) \subseteq WaitingIn(st)
              /\ s.fate.abandoned = st.fate.abandoned /\ s.fate.discarded = st.fate.discarded
              /\ s.fate.deleted = st.fate.deleted
  <1> DEFINE s == SavedStore(st, by)
             U == UncommittedIn(st) \ {by}
             F == [st.fate EXCEPT !.published = @ \cup U]
  <1>1. /\ s.ledger = st.ledger /\ s.live = st.live /\ s.file = st.live /\ s.stored = st.stored \cup CredsOf(st.live)
        /\ s.fate = F
    BY StoreOfParts DEF SavedStore, Publishes
  <1>2. U \subseteq Held
    BY Names DEF UncommittedIn, UncommittedOf, Held
  <1>3. /\ F \in Fates /\ F.published = st.fate.published \cup U
        /\ F.abandoned = st.fate.abandoned /\ F.discarded = st.fate.discarded /\ F.committed = st.fate.committed
        /\ F.deleted = st.fate.deleted /\ F.cut = st.fate.cut
    <2> HIDE DEF U
    <2> QED BY <1>2 DEF StoreTyped, Fates
  <1>4. StoreTyped(s)
    <2>1. s = StoreOf(st.ledger, st.live, st.live, st.stored \cup CredsOf(st.live), F)
      BY DEF SavedStore, Publishes
    <2>2. st.stored \cup CredsOf(st.live) \in SUBSET Held
      BY CredsHeld DEF StoreTyped
    <2>3. st.ledger \in [Tokens -> PasskeyCeremony \cup {None}] /\ IsVault(st.live) /\ F \in Fates
      BY <1>3 DEF StoreTyped
    <2> HIDE DEF s, F
    <2> QED BY <2>1, <2>2, <2>3, StoreOfParts
  <1> HIDE DEF s, F
  <1>5. UndoIn(s) = UndoIn(st) /\ UncommittedIn(s) = UncommittedIn(st)
    BY <1>1 DEF UndoIn, UncommittedIn
  <1>6. AccountedIn(st) \subseteq AccountedIn(s)
    BY <1>1, <1>3 DEF AccountedIn, AccountedOf
  <1>7. ExemptIn(st) \cup CredsOf(st.live) \subseteq ExemptIn(s)
    BY <1>1, <1>3 DEF ExemptIn, Exempt
  <1>8. WaitingIn(s) \subseteq WaitingIn(st)
    BY <1>1, <1>7 DEF WaitingIn, WaitingOf
  <1> QED BY <1>1, <1>3, <1>4, <1>5, <1>6, <1>7, <1>8 DEF s

LEMMA SaveSound ==
    ASSUME NEW st, NEW late, LiveSound(st, late), st.live # Locked, NEW by
    PROVE  LiveSound(SavedStore(st, by), late) /\ FileSound(SavedStore(st, by), UncommittedIn(st) \ {by})
  <1> DEFINE s == SavedStore(st, by)
  <1>1. StoreTyped(st)
    BY DEF LiveSound
  <1>2. /\ StoreTyped(s) /\ s.ledger = st.ledger /\ s.live = st.live /\ s.file = st.live
        /\ UndoIn(s) = UndoIn(st) /\ AccountedIn(st) \subseteq AccountedIn(s)
        /\ UncommittedIn(st) \ {by} \subseteq s.fate.published
        /\ ExemptIn(st) \subseteq ExemptIn(s) /\ WaitingIn(s) \subseteq WaitingIn(st)
        /\ s.fate.abandoned = st.fate.abandoned /\ s.fate.discarded = st.fate.discarded
    BY <1>1, SaveChanges
  <1> HIDE DEF s
  <1>3. Placed(makers, s.live) /\ Accounted(makers, AccountedIn(s), s.live) /\ Stacked(UndoIn(s), WaitingIn(s), s.live)
    <2>1. Accounted(makers, AccountedIn(s), s.live)
      BY <1>2, AccountedMono DEF LiveSound
    <2>2. Stacked(UndoIn(s), WaitingIn(s), s.live)
      BY <1>2, StackedMono DEF LiveSound
    <2> QED BY <1>2, <2>1, <2>2 DEF LiveSound
  <1>4. LedgerKept(s.ledger, s.fate, client)
    BY <1>2 DEF LiveSound, LedgerKept
  <1>5. Attended(s.ledger, s.fate, client, late)
    BY <1>2 DEF LiveSound, Attended
  <1>6. Answered(s.ledger, client, ExemptIn(s))
    BY <1>2 DEF LiveSound, Answered
  <1>7. LiveSound(s, late)
    BY <1>2, <1>3, <1>4, <1>5, <1>6 DEF LiveSound
  <1>8. FileSound(s, UncommittedIn(st) \ {by})
    BY <1>2, <1>3 DEF FileSound, FileKnown
  <1> QED BY <1>7, <1>8 DEF s

\* The rollback of a registration that nobody waits for; its rollback state
\* is kept.
LEMMA RestoreSound ==
    ASSUME Typed, Sole(makers), NEW st, NEW late, LiveSound(st, late), st.live # Locked,
           NEW m \in Makers, UndoIn(st)[m] # None, m \notin WaitingIn(st)
    PROVE  LET s == RestoredStore(st, Restored(st.live, UndoIn(st)[m]))
           IN /\ LiveSound(s, late) /\ s.live # Locked
              /\ \A M : FileSound(st, M) => FileSound(s, M)
              /\ UncommittedIn(s) = UncommittedIn(st) /\ AccountedIn(s) = AccountedIn(st)
              /\ Accounted(makers, AccountedIn(st) \ {m}, s.live)
  <1> DEFINE R == UndoIn(st)
             v == Restored(st.live, R[m])
             s == RestoredStore(st, v)
  <1>1. StoreTyped(st)
    BY DEF LiveSound
  <1>2. /\ s.ledger = st.ledger /\ s.live = v /\ s.file = st.file /\ s.stored = st.stored /\ s.fate = st.fate
    BY StoreOfParts DEF RestoredStore
  <1>3. R[m] \in Rollback /\ R[m] # None /\ Ready(R, makers, st.live)
    BY <1>1, UndoInTyped, LiveReady
  <1>4. IsVault(v) /\ v # Locked
    BY <1>3, RestoredVault
  <1>5. StoreTyped(s)
    <2>1. s = StoreOf(st.ledger, v, st.file, st.stored, st.fate)
      BY DEF RestoredStore
    <2> HIDE DEF s, v
    <2> QED BY <1>1, <1>4, <2>1, StoreOfParts DEF StoreTyped
  <1> HIDE DEF s
  <1>6. /\ UndoIn(s) = R /\ AccountedIn(s) = AccountedIn(st) /\ UncommittedIn(s) = UncommittedIn(st)
        /\ ExemptIn(s) = ExemptIn(st) /\ WaitingIn(s) = WaitingIn(st)
    BY <1>2 DEF UndoIn, AccountedIn, UncommittedIn, ExemptIn, WaitingIn
  <1> DEFINE W == WaitingIn(st)
  <1>7. W \in SUBSET Makers /\ W \ {m} = W
    BY Names DEF WaitingIn, WaitingOf
  <1>8. Placed(makers, v)
    BY <1>3, RestoredPlaced
  <1>9. Accounted(makers, AccountedIn(st) \ {m}, v)
    BY <1>3, RestoredAccounted DEF LiveSound
  <1>10. Stacked(R, W, v)
    <2>1. Stacked(R, W, st.live)
      BY DEF LiveSound
    <2> HIDE DEF R, W
    <2> QED BY <1>3, <1>7, <2>1, RestoredStacked
  <1>11. W # {} => W \subseteq CredsOf(v)
    <2>1. Stacked(R, W, st.live) /\ (W # {} => W \subseteq CredsOf(st.live))
      BY DEF LiveSound
    <2> HIDE DEF R, W
    <2> QED BY <1>3, <1>7, <2>1, RestoredCovered
  <1>12. Accounted(makers, AccountedIn(st), v)
    BY <1>9, AccountedMono
  <1> HIDE DEF R, W, v
  <1>13. LiveSound(s, late)
    BY <1>2, <1>4, <1>5, <1>6, <1>8, <1>10, <1>11, <1>12 DEF LiveSound, R, W
  <1>14. \A M : FileSound(st, M) => FileSound(s, M)
    BY <1>2, <1>6 DEF FileSound
  <1> QED BY <1>2, <1>4, <1>6, <1>9, <1>13, <1>14 DEF s, v, R

\* The outcomes of an abort.
LEMMA AbortIs ==
    ASSUME NEW st, StoreTyped(st), NEW t \in Tokens, NEW next, NEW saveFails
    PROVE  LET c == st.ledger[t]
               w == restore_passkey_registration_rollback(st.live, c.rollback)
               v == IF c.rollback = None THEN st.live ELSE w
               s == abort_passkey_registration(st, t, next, saveFails).st
               closed == ClosedStore(st, t, next, v)
               saves == c.rollback # None /\ c.durable = "saved"
               refused == c.durable = "committed" \/ (c.rollback # None /\ (st.live = Locked \/ v = None))
           IN /\ refused => s = st
              /\ ~refused /\ saves /\ saveFails => s = RestoredStore(st, v)
              /\ ~refused /\ saves /\ ~saveFails => s = Saved(closed, t)
              /\ ~refused /\ ~saves => s = closed
  <1> DEFINE v == IF st.ledger[t].rollback = None THEN st.live
                  ELSE restore_passkey_registration_rollback(st.live, st.ledger[t].rollback)
             ex(x) == Closing(st, t, next, x)
             kept(x) == [st EXCEPT !.live = x]
             c == st.ledger[t]
             refused == c.durable = "committed" \/ (c.rollback # None /\ (st.live = Locked \/ v = None))
             saves == c.rollback # None /\ c.durable = "saved"
             s == abort_passkey_registration(st, t, next, saveFails).st
  <1>1. \A x : Closing(st, t, next, x) = ClosedStore(st, t, next, x)
    BY ClosedStoreIs
  <1>2. \A x : [st EXCEPT !.live = x] = RestoredStore(st, x)
    BY RestoredStoreIs
  <1>3. abort_passkey_registration(st, t, next, saveFails) =
          IF refused THEN [st |-> st, ok |-> FALSE]
          ELSE IF saves /\ saveFails THEN [st |-> kept(v), ok |-> FALSE]
          ELSE [st |-> IF saves THEN Saved(ex(v), t) ELSE ex(v), ok |-> TRUE]
    BY DEF abort_passkey_registration
  <1>4. ex(v) = ClosedStore(st, t, next, v) /\ kept(v) = RestoredStore(st, v)
    <2> HIDE DEF v
    <2> QED BY <1>1, <1>2
  <1>5. s = IF refused THEN st ELSE IF saves /\ saveFails THEN kept(v) ELSE IF saves THEN Saved(ex(v), t) ELSE ex(v)
    <2> HIDE DEF ex, kept, v, refused, saves
    <2> QED BY <1>3
  <1> HIDE DEF ex, kept
  <1>6. /\ refused => s = st
        /\ ~refused /\ saves /\ saveFails => s = RestoredStore(st, v)
        /\ ~refused /\ saves /\ ~saveFails => s = Saved(ClosedStore(st, t, next, v), t)
        /\ ~refused /\ ~saves => s = ClosedStore(st, t, next, v)
    <2> HIDE DEF s, refused, saves, v
    <2> QED BY <1>4, <1>5
  <1> QED BY <1>6

LEMMA AbortSound ==
    ASSUME Typed, Sole(makers), NEW st, NEW late, StoreSound(st, late),
           NEW t \in Tokens, st.ledger[t] # None, NEW next \in Closed, NEW saveFails \in BOOLEAN
    PROVE  StoreSound(abort_passkey_registration(st, t, next, saveFails).st, late \cup {t})
  <1> DEFINE c == st.ledger[t]
             w == restore_passkey_registration_rollback(st.live, c.rollback)
             v == IF c.rollback = None THEN st.live ELSE w
             s == abort_passkey_registration(st, t, next, saveFails).st
             closed == ClosedStore(st, t, next, v)
             saves == c.rollback # None /\ c.durable = "saved"
             refused == c.durable = "committed" \/ (c.rollback # None /\ (st.live = Locked \/ v = None))
  <1>1. StoreTyped(st) /\ LiveSound(st, late) /\ FileSound(st, UncommittedIn(st))
    BY DEF StoreSound, LiveSound
  <1>2. /\ refused => s = st
        /\ ~refused /\ saves /\ saveFails => s = RestoredStore(st, v)
        /\ ~refused /\ saves /\ ~saveFails => s = Saved(closed, t)
        /\ ~refused /\ ~saves => s = closed
    BY <1>1, AbortIs
  <1>3. UndoIn(st)[t] = c.rollback /\ t \in Makers /\ UndoIn(st) \in [Makers -> Rollback \cup {None}]
    BY <1>1, UndoInTyped, Names
  <1>4. ~refused /\ c.rollback # None => v = Restored(st.live, c.rollback) /\ st.live # Locked
    BY DEF Restored
  <1>5. LiveSound(st, late \cup {t})
    BY <1>1 DEF LiveSound, Attended
  <1>6. CASE refused
    BY <1>1, <1>2, <1>5, <1>6 DEF StoreSound
  <1>7. CASE ~refused /\ saves /\ saveFails
    <2>1. t \notin WaitingIn(st)
      BY <1>7 DEF WaitingIn, WaitingOf
    <2>2. s = RestoredStore(st, Restored(st.live, UndoIn(st)[t])) /\ st.live # Locked /\ UndoIn(st)[t] # None
      BY <1>2, <1>3, <1>4, <1>7
    <2> HIDE DEF s, saves, refused
    <2>3. LiveSound(s, late \cup {t})
      BY <1>3, <1>5, <2>1, <2>2, RestoreSound
    <2>4. FileSound(s, UncommittedIn(s))
      BY <1>1, <1>3, <2>1, <2>2, RestoreSound
    <2> QED BY <2>3, <2>4 DEF StoreSound, s
  <1>8. CASE ~refused /\ ~(saves /\ saveFails)
    <2>1. /\ c.durable # "committed" /\ (c.rollback = None => v = st.live)
          /\ c.rollback # None => st.live # Locked /\ v = Restored(st.live, c.rollback)
      BY <1>4, <1>8
    <2>2. LiveSound(closed, late \cup {t})
      <3> HIDE DEF closed, v
      <3> QED BY <1>1, <2>1, CloseLive DEF closed
    <2>3. CASE ~saves
      <3>1. c.durable \in {"none", "mutated"}
        <4>1. c \in PasskeyCeremony
          BY <1>1 DEF StoreTyped
        <4>2. c.durable \in {"none", "mutated", "saved", "committed"}
          BY <4>1 DEF PasskeyCeremony
        <4>3. c.rollback # None <=> c.durable \in {"mutated", "saved"}
          BY <1>1 DEF LiveSound, LedgerKept
        <4> QED BY <2>1, <2>3, <4>2, <4>3
      <3>2. FileSound(closed, UncommittedIn(closed))
        <4> HIDE DEF v, saves, refused
        <4> QED BY <1>1, <3>1, CloseFile DEF closed
      <3>3. s = closed
        BY <1>2, <1>8, <2>3
      <3> HIDE DEF s, closed
      <3> QED BY <2>2, <3>2, <3>3 DEF StoreSound, s
    <2>4. CASE saves
      <3>1. closed.live = v /\ UncommittedIn(closed) \ {t} = UncommittedIn(closed)
        <4> HIDE DEF v, saves, refused
        <4> QED BY <1>1, CloseChanges DEF closed
      <3>2. v # Locked
        <4>1. Ready(UndoIn(st), makers, st.live)
          BY <1>1, <2>1, <2>4, LiveReady
        <4> QED BY <1>3, <2>1, <2>4, <4>1, RestoredVault
      <3>3. s = SavedStore(closed, t)
        <4>1. StoreTyped(closed)
          BY <2>2 DEF LiveSound
        <4>2. s = Saved(closed, t)
          BY <1>2, <1>8, <2>4
        <4> HIDE DEF s, closed
        <4> QED BY <4>1, <4>2, SavedStoreIs
      <3> HIDE DEF s, closed, v
      <3>4. LiveSound(s, late \cup {t}) /\ FileSound(s, UncommittedIn(closed))
        BY <2>2, <3>1, <3>2, <3>3, SaveSound
      <3>5. UncommittedIn(s) = UncommittedIn(closed)
        <4>1. StoreTyped(closed)
          BY <2>2 DEF LiveSound
        <4> QED BY <3>1, <3>2, <3>3, <4>1, SaveChanges
      <3> QED BY <3>4, <3>5 DEF StoreSound, s
    <2> QED BY <2>3, <2>4
  <1> QED BY <1>6, <1>7, <1>8

(***************************************************************************)
(* Steps                                                                   *)
(***************************************************************************)

\* The invariant of the store, part by part.
LEMMA SoundParts ==
    /\ StoreTyped(Store) /\ LedgerKept(ledger, fate, client) /\ Undoable(UndoOf(ledger, leases), makers)
    /\ live # Locked =>
         /\ Placed(makers, live) /\ Accounted(makers, AccountedOf(ledger, leases, fate), live)
         /\ Stacked(UndoOf(ledger, leases), WaitingOf(ledger, client, Exempt(stored, fate)), live)
    /\ WaitingOf(ledger, client, Exempt(stored, fate)) # {} =>
         live # Locked /\ WaitingOf(ledger, client, Exempt(stored, fate)) \subseteq CredsOf(live)
    /\ Attended(ledger, fate, client, {}) /\ Answered(ledger, client, Exempt(stored, fate))
    /\ HandedOver(site, UndoOf(ledger, leases), client, leases, proofs)
    /\ site \subseteq Exempt(stored, fate)
    /\ Placed(makers, file) /\ Accounted(makers, AccountedOf(ledger, leases, fate), file)
    /\ FileKnown(UncommittedOf(ledger, leases), file, fate.published)
    <=> StoreSound(Store, {})
  <1>1. /\ Store.ledger = ledger /\ Store.live = live /\ Store.file = file /\ Store.stored = stored
        /\ Store.fate = fate
    BY DEF Store
  <1> HIDE DEF Store
  <1>2. /\ UndoIn(Store) = UndoOf(ledger, leases) /\ AccountedIn(Store) = AccountedOf(ledger, leases, fate)
        /\ UncommittedIn(Store) = UncommittedOf(ledger, leases) /\ ExemptIn(Store) = Exempt(stored, fate)
        /\ WaitingIn(Store) = WaitingOf(ledger, client, Exempt(stored, fate))
    BY <1>1 DEF UndoIn, AccountedIn, UncommittedIn, ExemptIn, WaitingIn
  <1> QED BY <1>1, <1>2 DEF StoreSound, LiveSound, FileSound

LEMMA StoreTypedIs ==
    StoreTyped(Store) <=>
      /\ ledger \in [Tokens -> PasskeyCeremony \cup {None}]
      /\ live # Locked => IsVault(live)
      /\ IsVault(file)
      /\ stored \in SUBSET Held
      /\ fate \in Fates
  <1>1. /\ Store.ledger = ledger /\ Store.live = live /\ Store.file = file /\ Store.stored = stored
        /\ Store.fate = fate /\ Store = [ledger |-> ledger, live |-> live, file |-> file, stored |-> stored, fate |-> fate]
    BY DEF Store
  <1> HIDE DEF Store
  <1> QED BY <1>1 DEF StoreTyped

LEMMA StoreTypedNext ==
    ASSUME ledger' \in [Tokens -> PasskeyCeremony \cup {None}], live' # Locked => IsVault(live'), IsVault(file'),
           stored' \in SUBSET Held, fate' \in Fates
    PROVE  StoreTyped(Store)'
  <1>1. /\ Store'.ledger = ledger' /\ Store'.live = live' /\ Store'.file = file' /\ Store'.stored = stored'
        /\ Store'.fate = fate'
        /\ Store' = [ledger |-> ledger', live |-> live', file |-> file', stored |-> stored', fate |-> fate']
    BY DEF Store
  <1>2. StoreTyped(Store')
    <2> DEFINE s == Store'
    <2> HIDE DEF s
    <2> QED BY <1>1 DEF StoreTyped, s
  <1> QED BY <1>2

\* Steps after which less is owed: rollback states and waiting registrations
\* disappear or stay, the vaults are those of the store st.
LEMMA LessOwed ==
    ASSUME NEW st, NEW late, LiveSound(st, late), NEW M, FileSound(st, M),
           StoreTyped(Store)', live' = st.live, file' = st.file, makers' = makers,
           \A m \in Makers : UndoOf(ledger', leases')[m] = None \/ UndoOf(ledger', leases')[m] = UndoIn(st)[m],
           NEW B, st.live # Locked => Accounted(makers, B, st.live), Accounted(makers, B, st.file),
           B \subseteq AccountedOf(ledger', leases', fate'),
           UncommittedOf(ledger', leases') \subseteq M,
           st.fate.published \subseteq fate'.published,
           WaitingOf(ledger', client', Exempt(stored', fate')) \subseteq WaitingIn(st),
           LedgerKept(ledger', fate', client'),
           Attended(ledger', fate', client', {}),
           Answered(ledger', client', Exempt(stored', fate')),
           HandedOver(site', UndoOf(ledger', leases'), client', leases', proofs'),
           site' \subseteq Exempt(stored', fate')
    PROVE  StoreSound(Store, {})'
  <1> DEFINE R == UndoOf(ledger', leases')
             A == AccountedOf(ledger', leases', fate')
             W == WaitingOf(ledger', client', Exempt(stored', fate'))
             U == UncommittedOf(ledger', leases')
  <1>1. Undoable(R, makers')
    BY UndoableMono DEF LiveSound
  <1>2. live' # Locked => Placed(makers', live') /\ Accounted(makers', A, live')
    <2>1. live' # Locked => Accounted(makers, A, live')
      BY AccountedMono
    <2> QED BY <2>1 DEF LiveSound
  <1>3. live' # Locked => Stacked(R, W, live')
    BY StackedMono DEF LiveSound
  <1>4. W # {} => live' # Locked /\ W \subseteq CredsOf(live')
    BY DEF LiveSound
  <1>5. Placed(makers', file') /\ Accounted(makers', A, file')
    <2>1. Accounted(makers, A, file')
      BY AccountedMono
    <2> QED BY <2>1 DEF FileSound
  <1>6. FileKnown(U, file', fate'.published)
    BY FileKnownMono DEF FileSound
  <1>7. (StoreTyped(Store) /\ LedgerKept(ledger, fate, client) /\ Undoable(UndoOf(ledger, leases), makers)
    /\ (live # Locked =>
         /\ Placed(makers, live) /\ Accounted(makers, AccountedOf(ledger, leases, fate), live)
         /\ Stacked(UndoOf(ledger, leases), WaitingOf(ledger, client, Exempt(stored, fate)), live))
    /\ (WaitingOf(ledger, client, Exempt(stored, fate)) # {} =>
         live # Locked /\ WaitingOf(ledger, client, Exempt(stored, fate)) \subseteq CredsOf(live))
    /\ Attended(ledger, fate, client, {}) /\ Answered(ledger, client, Exempt(stored, fate))
    /\ HandedOver(site, UndoOf(ledger, leases), client, leases, proofs)
    /\ site \subseteq Exempt(stored, fate)
    /\ Placed(makers, file) /\ Accounted(makers, AccountedOf(ledger, leases, fate), file)
    /\ FileKnown(UncommittedOf(ledger, leases), file, fate.published))'
    BY <1>1, <1>2, <1>3, <1>4, <1>5, <1>6
  <1> QED BY <1>7, SoundParts, PTL

\* How a ceremony may go on without making a rollback of its own: it is
\* settled, or it keeps the rollback state it has.
Follows(c, d, abandoned, committed) ==
    \/ /\ d = None \/ (d.rollback = None /\ d.durable # "mutated")
       /\ c = None \/ c.rollback = None \/ c.phase # "s4" \/ committed
    \/ /\ c # None /\ d # None /\ d.rollback = c.rollback /\ (d.durable = "mutated" => c.durable = "mutated")
       /\ c.phase = "s4" /\ c.rollback # None => d.phase = "s4" \/ abandoned

LEMMA LedgerStep ==
    ASSUME IInv, NEW st, NEW late, LiveSound(st, late), NEW M, FileSound(st, M),
           \A m \in UncommittedIn(st) : m \in UncommittedOf(ledger', leases') => m \in M,
           Typed', StoreTyped(Store)', live' = st.live, file' = st.file, makers' = makers, leases' = leases,
           \A t \in Tokens : Follows(st.ledger[t], ledger'[t], t \in fate'.abandoned, t \in fate'.committed),
           st.fate.published \subseteq fate'.published, st.fate.committed \subseteq fate'.committed,
           st.fate.abandoned \subseteq fate'.abandoned, ExemptIn(st) \subseteq Exempt(stored', fate'),
           \A t \in Tokens : client'[t] = "created" => client[t] = "created",
           LedgerKept(ledger', fate', client'),
           Attended(ledger', fate', client', {}),
           Answered(ledger', client', Exempt(stored', fate')),
           HandedOver(site', UndoOf(ledger', leases'), client', leases', proofs'),
           site' \subseteq Exempt(stored', fate'),
           LeasesKept(leases', proofs'), AllSpent(makers', client', leases', proofs')
    PROVE  IInv'
  <1> DEFINE R == UndoOf(ledger', leases')
             A == AccountedOf(ledger', leases', fate')
             W == WaitingOf(ledger', client', Exempt(stored', fate'))
             U == UncommittedOf(ledger', leases')
  <1>1. \A m \in Makers : R[m] = None \/ R[m] = UndoIn(st)[m]
    BY Names DEF UndoIn, UndoOf, Follows
  <1>2. AccountedIn(st) \subseteq A
    BY Names DEF AccountedIn, AccountedOf, Follows
  <1>3. U \subseteq M
    <2>1. U \subseteq UncommittedIn(st)
      BY Names DEF UncommittedIn, UncommittedOf, Follows
    <2> QED BY <2>1
  <1>4. W \subseteq WaitingIn(st)
    BY DEF WaitingIn, WaitingOf, Follows
  <1>5. /\ st.live # Locked => Accounted(makers, AccountedIn(st), st.live)
        /\ Accounted(makers, AccountedIn(st), st.file)
    BY DEF LiveSound, FileSound
  <1> HIDE DEF R, A, W, U
  <1>6. StoreSound(Store, {})'
    BY <1>1, <1>2, <1>3, <1>4, <1>5, LessOwed DEF R, A, W, U
  <1>7. Sole(makers)'
    BY DEF IInv
  <1> QED BY <1>6, <1>7 DEF IInv

Early == {"idle", "working", "resolved"}

LEMMA SpentStays ==
    ASSUME \A t \in Tokens : client[t] \notin Early => client'[t] \notin Early,
           \A p \in Ops : proofs[p] > 0 => proofs'[p] > 0, leases' = leases, NEW m \in Makers,
           Spent(m, client, leases, proofs)
    PROVE  Spent(m, client', leases', proofs')
  BY Names DEF Spent, Early

\* Steps of ceremonies that leave the vaults and the operations alone.
LEMMA CeremonyStep ==
    ASSUME IInv, Typed', StoreTyped(Store)', UNCHANGED <<live, file, leases, stored, makers, site>>,
           \A t \in Tokens : Follows(ledger[t], ledger'[t], t \in fate'.abandoned, t \in fate'.committed),
           fate.published \subseteq fate'.published, fate.committed \subseteq fate'.committed,
           fate.abandoned \subseteq fate'.abandoned, Exempt(stored, fate) \subseteq Exempt(stored, fate'),
           \A t \in Tokens : client'[t] = "created" => client[t] = "created",
           \A t \in Tokens : client[t] \notin Early => client'[t] \notin Early,
           \A p \in Ops : proofs'[p] = proofs[p],
           LedgerKept(ledger', fate', client'),
           Attended(ledger', fate', client', {}),
           Answered(ledger', client', Exempt(stored', fate'))
    PROVE  IInv'
  <1>1. /\ Store.ledger = ledger /\ Store.live = live /\ Store.file = file /\ Store.stored = stored
        /\ Store.fate = fate
    BY DEF Store
  <1>2. LiveSound(Store, {}) /\ FileSound(Store, UncommittedIn(Store))
    BY DEF IInv, StoreSound
  <1>3. ExemptIn(Store) = Exempt(stored, fate) /\ UndoIn(Store) = UndoOf(ledger, leases)
    BY <1>1 DEF ExemptIn, UndoIn
  <1> HIDE DEF Store
  <1>4. \A m \in Makers : Spent(m, client, leases, proofs) => Spent(m, client', leases', proofs')
    BY SpentStays
  <1>5. AllSpent(makers', client', leases', proofs')
    <2>1. AllSpent(makers, client, leases, proofs)
      BY DEF IInv
    <2>2. \A e \in DOMAIN makers : makers[e] \subseteq Makers
      BY DEF IInv, Typed
    <2> QED BY <1>4, <2>1, <2>2 DEF AllSpent
  <1>6. HandedOver(site', UndoOf(ledger', leases'), client', leases', proofs')
    <2>1. HandedOver(site, UndoOf(ledger, leases), client, leases, proofs)
      BY <1>2, <1>3 DEF LiveSound
    <2>2. \A m \in Makers : UndoOf(ledger', leases')[m] = None \/ UndoOf(ledger', leases')[m] = UndoOf(ledger, leases)[m]
      BY Names DEF UndoOf, Follows
    <2> QED BY <1>4, <2>1, <2>2 DEF HandedOver
  <1>7. LeasesKept(leases', proofs')
    BY DEF IInv, LeasesKept
  <1>8. site' \subseteq Exempt(stored', fate')
    BY <1>2, <1>3 DEF LiveSound
  <1>9. ExemptIn(Store) \subseteq Exempt(stored', fate')
    BY <1>3
  <1> QED BY <1>1, <1>2, <1>5, <1>6, <1>7, <1>8, <1>9, LedgerStep

\* One ceremony goes on.
LEMMA OneCeremony ==
    ASSUME IInv, UNCHANGED <<live, file, gen, leases, stored, makers, site>>,
           now' \in Nat, conn' \in Nat, proofs' \in [Makers -> Nat], \A p \in Ops : proofs'[p] = proofs[p],
           NEW t \in Tokens, NEW d \in PasskeyCeremony \cup {None}, NEW k \in Statuses,
           ledger' = [ledger EXCEPT ![t] = d], client' = [client EXCEPT ![t] = k], fate' \in Fates,
           Follows(ledger[t], d, t \in fate'.abandoned, t \in fate'.committed),
           fate.published \subseteq fate'.published, fate.committed \subseteq fate'.committed,
           fate.abandoned \subseteq fate'.abandoned, fate.deleted = fate'.deleted, fate.discarded = fate'.discarded,
           fate.cut = fate'.cut,
           k = "created" => client[t] = "created", k \in Early => client[t] \in Early,
           d # None =>
             /\ d.rollback # None <=> d.durable \in {"mutated", "saved"}
             /\ d.durable # "none" => d.id.kind = "create" /\ d.phase \in {"s4"} \cup Closed
             /\ d.rollback # None /\ d.phase # "s4" => k = "done" /\ t \in fate'.abandoned
             /\ k \in {"committed", "completed"} /\ d.id.kind = "create" => d.rollback = None
             /\ k = "created" =>
                  \/ d.id.kind = "create" /\ d.phase = "s4" /\ d.durable = "mutated"
                  \/ d.phase \in Closed /\ t \in fate.discarded,
           k = "saved" \/ (k \in {"committed", "completed"} /\ d # None /\ d.id.kind = "create") => t \in Exempt(stored, fate)
    PROVE  IInv'
  <1>1. /\ ledger \in [Tokens -> PasskeyCeremony \cup {None}] /\ (live # Locked => IsVault(live)) /\ IsVault(file)
        /\ stored \in SUBSET Held /\ fate \in Fates
        /\ LedgerKept(ledger, fate, client) /\ Attended(ledger, fate, client, {}) /\ Answered(ledger, client, Exempt(stored, fate))
    BY SoundParts, StoreTypedIs DEF IInv
  <1>2. /\ gen \in Nat /\ leases \in [Ops -> PlatformLease \cup {None}] /\ client \in [Tokens -> Statuses]
        /\ site \in SUBSET Held /\ \E E \in SUBSET Entries : makers \in [E -> SUBSET Makers]
    BY DEF IInv, Typed
  <1>4. /\ ledger'[t] = d /\ client'[t] = k
        /\ \A x \in Tokens : x # t => ledger'[x] = ledger[x] /\ client'[x] = client[x]
    BY <1>1, <1>2
  <1>5. StoreTyped(Store)'
    <2>1. /\ ledger' \in [Tokens -> PasskeyCeremony \cup {None}] /\ (live' # Locked => IsVault(live')) /\ IsVault(file')
          /\ stored' \in SUBSET Held /\ fate' \in Fates
      BY <1>1
    <2> QED BY <2>1, StoreTypedNext
  <1>6. Typed'
    BY <1>2 DEF Typed
  <1>7. \A x \in Tokens : Follows(ledger[x], ledger'[x], x \in fate'.abandoned, x \in fate'.committed)
    BY <1>4 DEF Follows
  <1>8. Exempt(stored, fate) = Exempt(stored, fate')
    BY DEF Exempt
  <1>9. LedgerKept(ledger', fate', client')
    <2> SUFFICES ASSUME NEW x \in Tokens, ledger'[x] # None
                 PROVE  /\ ledger'[x].rollback # None <=> ledger'[x].durable \in {"mutated", "saved"}
                        /\ ledger'[x].durable # "none" => ledger'[x].id.kind = "create" /\ ledger'[x].phase \in {"s4"} \cup Closed
                        /\ ledger'[x].rollback # None /\ ledger'[x].phase # "s4" => client'[x] = "done" /\ x \in fate'.abandoned
                        /\ client'[x] \in {"committed", "completed"} /\ ledger'[x].id.kind = "create" => ledger'[x].rollback = None
      BY DEF LedgerKept
    <2>1. CASE x = t
      BY <1>4, <2>1
    <2>2. CASE x # t
      BY <1>1, <1>4, <2>2 DEF LedgerKept
    <2> QED BY <2>1, <2>2
  <1>10. Attended(ledger', fate', client', {})
    BY <1>1, <1>4 DEF Attended
  <1>11. Answered(ledger', client', Exempt(stored', fate'))
    BY <1>1, <1>4, <1>8 DEF Answered
  <1>12. /\ \A x \in Tokens : client'[x] = "created" => client[x] = "created"
         /\ \A x \in Tokens : client[x] \notin Early => client'[x] \notin Early
    BY <1>4
  <1> QED BY <1>5, <1>6, <1>7, <1>8, <1>9, <1>10, <1>11, <1>12, CeremonyStep

\* Steps that put another store in place and leave the operations alone.
LEMMA StoreStep ==
    ASSUME IInv, NEW st, NEW late, LiveSound(st, late), NEW M, FileSound(st, M),
           \A m \in UncommittedIn(st) : m \in UncommittedOf(ledger', leases') => m \in M,
           UNCHANGED <<leases, makers, site, proofs>>, gen' \in Nat, now' \in Nat, conn' \in Nat,
           client' \in [Tokens -> Statuses], StoreTyped(Store)', live' = st.live, file' = st.file,
           \A t \in Tokens : Follows(st.ledger[t], ledger'[t], t \in fate'.abandoned, t \in fate'.committed),
           st.fate.published \subseteq fate'.published, st.fate.committed \subseteq fate'.committed,
           st.fate.abandoned \subseteq fate'.abandoned, ExemptIn(st) \subseteq Exempt(stored', fate'),
           \A t \in Tokens : client'[t] = "created" => client[t] = "created",
           \A t \in Tokens : client[t] \notin Early => client'[t] \notin Early,
           LedgerKept(ledger', fate', client'),
           Attended(ledger', fate', client', {}),
           Answered(ledger', client', Exempt(stored', fate'))
    PROVE  IInv'
  <1>1. \A m \in Makers : Spent(m, client, leases, proofs) => Spent(m, client', leases', proofs')
    BY SpentStays
  <1>2. AllSpent(makers', client', leases', proofs')
    <2>1. AllSpent(makers, client, leases, proofs)
      BY DEF IInv
    <2>2. \A e \in DOMAIN makers : makers[e] \subseteq Makers
      BY DEF IInv, Typed
    <2> QED BY <1>1, <2>1, <2>2 DEF AllSpent
  <1>3. HandedOver(site', UndoOf(ledger', leases'), client', leases', proofs')
    <2>1. HandedOver(site, UndoIn(st), client, leases, proofs)
      BY DEF LiveSound
    <2>2. \A m \in Makers : UndoOf(ledger', leases')[m] = None \/ UndoOf(ledger', leases')[m] = UndoIn(st)[m]
      BY Names DEF UndoIn, UndoOf, Follows
    <2> QED BY <1>1, <2>1, <2>2 DEF HandedOver
  <1>4. LeasesKept(leases', proofs')
    BY DEF IInv, LeasesKept
  <1>5. site' \subseteq Exempt(stored', fate')
    BY DEF LiveSound
  <1>6. Typed'
    BY DEF IInv, Typed
  <1> QED BY <1>2, <1>3, <1>4, <1>5, <1>6, LedgerStep

(***************************************************************************)
(* The actions of a ceremony                                               *)
(***************************************************************************)

\* What the invariant says of the ceremony the extension is at.
LEMMA AtCeremony ==
    ASSUME IInv, NEW t \in Tokens
    PROVE  /\ ledger \in [Tokens -> PasskeyCeremony \cup {None}] /\ client \in [Tokens -> Statuses] /\ fate \in Fates
           /\ gen \in Nat /\ now \in Nat /\ conn \in Nat /\ proofs \in [Makers -> Nat]
           /\ ledger[t] # None =>
                /\ ledger[t] \in PasskeyCeremony
                /\ ledger[t].rollback # None <=> ledger[t].durable \in {"mutated", "saved"}
                /\ ledger[t].durable # "none" => ledger[t].id.kind = "create" /\ ledger[t].phase \in {"s4"} \cup Closed
                /\ ledger[t].rollback # None /\ ledger[t].phase # "s4" => client[t] = "done" /\ t \in fate.abandoned
                /\ client[t] \in {"committed", "completed"} /\ ledger[t].id.kind = "create" => ledger[t].rollback = None
                /\ client[t] = "created" =>
                     \/ ledger[t].id.kind = "create" /\ ledger[t].phase = "s4" /\ ledger[t].durable = "mutated"
                     \/ ledger[t].phase \in Closed /\ t \in fate.discarded
           /\ client[t] = "saved" \/ (client[t] \in {"committed", "completed"} /\ ledger[t] # None /\ ledger[t].id.kind = "create")
                => t \in Exempt(stored, fate)
  <1>1. /\ ledger \in [Tokens -> PasskeyCeremony \cup {None}] /\ fate \in Fates
        /\ LedgerKept(ledger, fate, client) /\ Attended(ledger, fate, client, {}) /\ Answered(ledger, client, Exempt(stored, fate))
    BY SoundParts, StoreTypedIs DEF IInv
  <1>2. /\ client \in [Tokens -> Statuses] /\ gen \in Nat /\ now \in Nat /\ conn \in Nat /\ proofs \in [Makers -> Nat]
    BY DEF IInv, Typed
  <1>3. ledger[t] # None =>
          /\ ledger[t].rollback # None <=> ledger[t].durable \in {"mutated", "saved"}
          /\ ledger[t].durable # "none" => ledger[t].id.kind = "create" /\ ledger[t].phase \in {"s4"} \cup Closed
          /\ ledger[t].rollback # None /\ ledger[t].phase # "s4" => client[t] = "done" /\ t \in fate.abandoned
          /\ client[t] \in {"committed", "completed"} /\ ledger[t].id.kind = "create" => ledger[t].rollback = None
    BY <1>1 DEF LedgerKept
  <1>4. ledger[t] # None /\ client[t] = "created" =>
          \/ ledger[t].id.kind = "create" /\ ledger[t].phase = "s4" /\ ledger[t].durable = "mutated"
          \/ ledger[t].phase \in Closed /\ t \in fate.discarded
    BY <1>1 DEF Attended
  <1>5. client[t] = "saved" \/ (client[t] \in {"committed", "completed"} /\ ledger[t] # None /\ ledger[t].id.kind = "create")
                => t \in Exempt(stored, fate)
    BY <1>1 DEF Answered
  <1> QED BY <1>1, <1>2, <1>3, <1>4, <1>5

\* A ceremony before s4 has nothing to roll back.
LEMMA BeforeS4 ==
    ASSUME IInv, NEW t \in Tokens, ledger[t] # None, ledger[t].phase \in Active \ {"s4"},
           NEW d \in PasskeyCeremony, NEW k \in Statuses, d.durable = ledger[t].durable, d.rollback = ledger[t].rollback,
           d.id = ledger[t].id, client[t] \in Early, k \notin {"created", "saved", "committed", "completed"},
           ledger' = [ledger EXCEPT ![t] = d], client' = [client EXCEPT ![t] = k],
           proofs' \in [Makers -> Nat], \A p \in Ops : proofs'[p] = proofs[p],
           UNCHANGED <<live, file, gen, leases, now, conn, stored, fate, makers, site>>
    PROVE  IInv'
  <1>1. d.durable = "none" /\ d.rollback = None /\ ledger[t].rollback = None
    <2>1. ledger[t].durable = "none"
      BY AtCeremony DEF Active, Closed
    <2> QED BY <2>1, AtCeremony
  <1>2. now' \in Nat /\ conn' \in Nat /\ fate' \in Fates
    BY AtCeremony
  <1>3. Follows(ledger[t], d, t \in fate'.abandoned, t \in fate'.committed)
    BY <1>1 DEF Follows
  <1>4. k \in Early => client[t] \in Early
    OBVIOUS
  <1>5. /\ fate.published \subseteq fate'.published /\ fate.committed \subseteq fate'.committed
        /\ fate.abandoned \subseteq fate'.abandoned /\ fate.deleted = fate'.deleted /\ fate.discarded = fate'.discarded
        /\ fate.cut = fate'.cut
    OBVIOUS
  <1>6. /\ d.rollback # None <=> d.durable \in {"mutated", "saved"}
        /\ d.durable # "none" => d.id.kind = "create" /\ d.phase \in {"s4"} \cup Closed
        /\ d.rollback # None /\ d.phase # "s4" => k = "done" /\ t \in fate'.abandoned
    BY <1>1
  <1> QED BY <1>1, <1>2, <1>3, <1>4, <1>5, <1>6, OneCeremony

LEMMA AdvancedTyped ==
    ASSUME NEW c \in PasskeyCeremony, NEW next \in Active \cup Closed
    PROVE  /\ Advanced(c, next) \in PasskeyCeremony /\ Advanced(c, next).phase = next /\ Advanced(c, next).id = c.id
           /\ Advanced(c, next).durable = c.durable /\ Advanced(c, next).rollback = c.rollback
  BY DEF Advanced, PasskeyCeremony

LEMMA KeepsAdvance ==
    ASSUME IInv, NEW t \in Tokens, NEW next \in Active, NEW related \in BOOLEAN, advance_passkey_ceremony_phase(t, next, related)
    PROVE  IInv'
  <1> DEFINE d == Advanced(ledger[t], next)
  <1>1. /\ ledger[t] # None /\ ledger[t].phase \in Active \ {"s4"} /\ client[t] \in Early
        /\ ledger' = [ledger EXCEPT ![t] = d]
        /\ UNCHANGED <<live, file, gen, leases, now, conn, stored, fate, makers, site, proofs, client>>
    BY DEF advance_passkey_ceremony_phase, AtWork, Early
  <1>2. /\ d \in PasskeyCeremony /\ d.id = ledger[t].id /\ d.durable = ledger[t].durable /\ d.rollback = ledger[t].rollback
    <2>1. ledger[t] \in PasskeyCeremony
      BY <1>1, AtCeremony
    <2> QED BY <2>1, AdvancedTyped
  <1>3. client' = [client EXCEPT ![t] = client[t]] /\ client[t] \in Statuses
    BY <1>1, AtCeremony
  <1>4. proofs' \in [Makers -> Nat] /\ \A p \in Ops : proofs'[p] = proofs[p]
    BY <1>1, AtCeremony
  <1>5. client[t] \notin {"created", "saved", "committed", "completed"}
    BY <1>1 DEF Early
  <1> HIDE DEF d
  <1> QED BY <1>1, <1>2, <1>3, <1>4, <1>5, BeforeS4

LEMMA KeepsCloseEarly ==
    ASSUME IInv, NEW t \in Tokens, NEW next \in ClosePhases, CloseEarly(t, next)
    PROVE  IInv'
  <1> DEFINE d == Advanced(ledger[t], next)
  <1>1. /\ ledger[t] # None /\ ledger[t].phase \in Active \ {"s4"} /\ client[t] \in Early
        /\ ledger' = [ledger EXCEPT ![t] = d] /\ client' = [client EXCEPT ![t] = "done"]
        /\ UNCHANGED <<live, file, gen, leases, now, conn, stored, fate, makers, site, proofs>>
    BY DEF CloseEarly, AtWork, Early, ghosts
  <1>2. /\ d \in PasskeyCeremony /\ d.id = ledger[t].id /\ d.durable = ledger[t].durable /\ d.rollback = ledger[t].rollback
    <2>1. ledger[t] \in PasskeyCeremony
      BY <1>1, AtCeremony
    <2>2. next \in Active \cup Closed
      BY PasskeyBounds DEF Closed
    <2> QED BY <2>1, <2>2, AdvancedTyped
  <1>3. proofs' \in [Makers -> Nat] /\ \A p \in Ops : proofs'[p] = proofs[p]
    BY <1>1, AtCeremony
  <1>4. "done" \in Statuses
    BY DEF Statuses
  <1> HIDE DEF d
  <1> QED BY <1>1, <1>2, <1>3, <1>4, BeforeS4

LEMMA KeepsVerify ==
    ASSUME IInv, NEW t \in Tokens, verify_passkey_user(t)
    PROVE  IInv'
  <1> DEFINE d == [ledger[t] EXCEPT !.proof = now]
  <1>1. /\ ledger[t] # None /\ ledger[t].phase \in {"s1", "s3b"} /\ client[t] \in Early
        /\ ledger' = [ledger EXCEPT ![t] = d] /\ proofs' = [proofs EXCEPT ![t] = @ + 1]
        /\ UNCHANGED <<live, file, gen, leases, now, conn, stored, fate, makers, site, client>>
    BY DEF verify_passkey_user, AtWork, Early
  <1>2. /\ d \in PasskeyCeremony /\ d.id = ledger[t].id /\ d.durable = ledger[t].durable /\ d.rollback = ledger[t].rollback
    <2>1. ledger[t] \in PasskeyCeremony /\ now \in Nat
      BY <1>1, AtCeremony
    <2> QED BY <2>1 DEF PasskeyCeremony
  <1>3. client' = [client EXCEPT ![t] = client[t]] /\ client[t] \in Statuses
    BY <1>1, AtCeremony
  <1>4. proofs' \in [Makers -> Nat] /\ \A p \in Ops : proofs'[p] = proofs[p]
    <2>1. proofs \in [Makers -> Nat]
      BY AtCeremony
    <2>2. \A p \in Ops : p # t /\ p \in Makers
      BY Names
    <2>3. t \in Makers
      BY Names
    <2>4. proofs' = [proofs EXCEPT ![t] = @ + 1]
      BY <1>1
    <2> QED BY <2>1, <2>2, <2>3, <2>4
  <1>5. client[t] \notin {"created", "saved", "committed", "completed"} /\ ledger[t].phase \in Active \ {"s4"}
    BY <1>1 DEF Early, Active
  <1> HIDE DEF d
  <1> QED BY <1>1, <1>2, <1>3, <1>4, <1>5, BeforeS4

LEMMA KeepsResolve ==
    ASSUME IInv, NEW t \in Tokens, ResolveCredentials(t)
    PROVE  IInv'
  <1> DEFINE d == ledger[t]
  <1>1. /\ ledger[t] # None /\ ledger[t].phase = "s3" /\ client[t] \in Early
        /\ client' = [client EXCEPT ![t] = "resolved"] /\ ledger' = ledger
        /\ UNCHANGED <<live, file, gen, leases, now, conn, stored, fate, makers, site, proofs>>
    BY DEF ResolveCredentials, Early, validate_passkey_ceremony_for_s3_read, ghosts
  <1>2. d \in PasskeyCeremony /\ ledger' = [ledger EXCEPT ![t] = d]
    BY <1>1, AtCeremony
  <1>3. proofs' \in [Makers -> Nat] /\ \A p \in Ops : proofs'[p] = proofs[p]
    BY <1>1, AtCeremony
  <1>4. "resolved" \in Statuses /\ ledger[t].phase \in Active \ {"s4"}
    BY <1>1 DEF Statuses, Active
  <1> QED BY <1>1, <1>2, <1>3, <1>4, BeforeS4

LEMMA KeepsAssertion ==
    ASSUME IInv, NEW t \in Tokens, NEW present \in BOOLEAN, NEW related \in BOOLEAN,
           create_passkey_assertion(t, present, related)
    PROVE  IInv'
  <1> DEFINE c == ledger[t]
  <1>1. /\ c # None /\ c.phase = "s4" /\ c.id.kind = "get" /\ client[t] \in Early
        /\ \/ ledger' = [ledger EXCEPT ![t] = Consumed(c)] /\ client' = [client EXCEPT ![t] = "committed"]
           \/ ledger' = ledger /\ client' = [client EXCEPT ![t] = "failing"]
        /\ UNCHANGED <<live, file, gen, leases, now, conn, stored, fate, makers, site, proofs>>
    BY DEF create_passkey_assertion, AtWork, Early
  <1>2. c \in PasskeyCeremony /\ c.durable = "none" /\ c.rollback = None
    BY <1>1, AtCeremony
  <1>3. \E d \in PasskeyCeremony, k \in {"committed", "failing"} :
          /\ ledger' = [ledger EXCEPT ![t] = d] /\ client' = [client EXCEPT ![t] = k]
          /\ d.durable = "none" /\ d.rollback = None /\ d.id = c.id
    <2>1. CASE ledger' = ledger /\ client' = [client EXCEPT ![t] = "failing"]
      <3>1. ledger' = [ledger EXCEPT ![t] = c]
        BY <1>1, <2>1, AtCeremony
      <3> QED BY <1>2, <2>1, <3>1
    <2>2. CASE ledger' = [ledger EXCEPT ![t] = Consumed(c)] /\ client' = [client EXCEPT ![t] = "committed"]
      <3>1. /\ Consumed(c) \in PasskeyCeremony /\ Consumed(c).durable = "none" /\ Consumed(c).rollback = None
            /\ Consumed(c).id = c.id
        BY <1>2 DEF Consumed, PasskeyCeremony
      <3> HIDE DEF c
      <3> QED BY <2>2, <3>1
    <2> QED BY <1>1, <2>1, <2>2
  <1>4. PICK d \in PasskeyCeremony, k \in {"committed", "failing"} :
          /\ ledger' = [ledger EXCEPT ![t] = d] /\ client' = [client EXCEPT ![t] = k]
          /\ d.durable = "none" /\ d.rollback = None /\ d.id = c.id
    BY <1>3
  <1>5. d.id.kind = "get" /\ k \in Statuses /\ k \notin Early \cup {"created", "saved"} /\ d.id.kind # "create"
    BY <1>1, <1>4 DEF Statuses, Early
  <1>6. Follows(ledger[t], d, t \in fate'.abandoned, t \in fate'.committed)
    BY <1>2, <1>4 DEF Follows
  <1>7. now' \in Nat /\ conn' \in Nat /\ fate' \in Fates /\ proofs' \in [Makers -> Nat] /\ \A p \in Ops : proofs'[p] = proofs[p]
    BY <1>1, AtCeremony
  <1>8. /\ fate.published \subseteq fate'.published /\ fate.committed \subseteq fate'.committed
        /\ fate.abandoned \subseteq fate'.abandoned /\ fate.deleted = fate'.deleted /\ fate.discarded = fate'.discarded
        /\ fate.cut = fate'.cut
    BY <1>1
  <1> QED BY <1>1, <1>4, <1>5, <1>6, <1>7, <1>8, OneCeremony

LEMMA KeepsCommit ==
    ASSUME IInv, NEW t \in Tokens, commit_passkey_registration(t)
    PROVE  IInv'
  <1> DEFINE c == ledger[t]
             ok == c # None /\ c.phase = "s4" /\ ~Expired(c) /\ c.durable = "saved" /\ c.rollback # None
             late == c # None /\ c.phase \in Closed
             d == IF ok THEN [c EXCEPT !.durable = "committed", !.rollback = None] ELSE c
             k == IF ok \/ late THEN "committed" ELSE "failing"
             F == IF ok THEN [fate EXCEPT !.committed = @ \cup {t}] ELSE fate
  <1>1. /\ client[t] = "saved" /\ client' = [client EXCEPT ![t] = k] /\ fate' = F
        /\ ok => ledger' = [ledger EXCEPT ![t].durable = "committed", ![t].rollback = None]
        /\ ~ok => ledger' = ledger
        /\ UNCHANGED <<live, file, gen, leases, now, conn, stored, makers, site, proofs>>
    BY DEF commit_passkey_registration, Step
  <1>2. c # None => c \in PasskeyCeremony
    BY AtCeremony
  <1>3. d \in PasskeyCeremony \cup {None} /\ ledger' = [ledger EXCEPT ![t] = d]
    <2>1. CASE ok
      <3>1. [ledger EXCEPT ![t].durable = "committed", ![t].rollback = None] = [ledger EXCEPT ![t] = d]
        BY <2>1, AtCeremony
      <3>2. d \in PasskeyCeremony
        BY <1>2, <2>1 DEF PasskeyCeremony
      <3> HIDE DEF d, ok
      <3> QED BY <1>1, <2>1, <3>1, <3>2
    <2>2. CASE ~ok
      BY <1>1, <2>2, AtCeremony
    <2> QED BY <2>1, <2>2
  <1>4. /\ ok => d # None /\ d.durable = "committed" /\ d.rollback = None /\ d.id = c.id /\ d.phase = c.phase
        /\ ~ok => d = c
    <2>1. CASE ok
      BY <1>2, <2>1, Names DEF PasskeyCeremony
    <2>2. CASE ~ok
      BY <2>2
    <2> QED BY <2>1, <2>2
  <1>5. /\ F \in Fates /\ (ok => t \in F.committed) /\ fate.published \subseteq F.published /\ fate.committed \subseteq F.committed
        /\ fate.abandoned \subseteq F.abandoned /\ fate.deleted = F.deleted /\ fate.discarded = F.discarded
        /\ fate.cut = F.cut
    <2>1. fate \in Fates /\ t \in Held
      BY AtCeremony, Names DEF Held
    <2> HIDE DEF ok
    <2> QED BY <2>1 DEF Fates
  <1>6. k \in {"committed", "failing"} /\ k \in Statuses /\ k \notin Early
    BY DEF Statuses, Early
  <1>7. t \in Exempt(stored, fate)
    BY <1>1, AtCeremony
  <1>8. Follows(c, d, t \in F.abandoned, t \in F.committed)
    <2>1. CASE ok
      <3> HIDE DEF d, F, ok
      <3> QED BY <1>4, <1>5, <2>1 DEF Follows
    <2>2. CASE ~ok
      BY <1>4, <2>2 DEF Follows
    <2> QED BY <2>1, <2>2
  <1>9. d # None =>
          /\ d.rollback # None <=> d.durable \in {"mutated", "saved"}
          /\ d.durable # "none" => d.id.kind = "create" /\ d.phase \in {"s4"} \cup Closed
          /\ d.rollback # None /\ d.phase # "s4" => k = "done" /\ t \in F.abandoned
          /\ k \in {"committed", "completed"} /\ d.id.kind = "create" => d.rollback = None
    <2>1. CASE ok
      <3>1. c.id.kind = "create" /\ c.phase = "s4"
        BY <2>1, AtCeremony
      <3> HIDE DEF d, F, ok, k
      <3> QED BY <1>4, <2>1, <3>1
    <2>2. CASE ~ok
      <3>1. c # None => /\ c.rollback # None <=> c.durable \in {"mutated", "saved"}
                        /\ c.durable # "none" => c.id.kind = "create" /\ c.phase \in {"s4"} \cup Closed
                        /\ ~(c.rollback # None /\ c.phase # "s4")
        BY <1>1, AtCeremony
      <3>2. k = "committed" => c # None /\ c.phase \in Closed /\ c.phase # "s4"
        BY <2>2 DEF Closed
      <3> HIDE DEF d, F, ok, k
      <3> QED BY <1>4, <1>6, <2>2, <3>1, <3>2
    <2> QED BY <2>1, <2>2
  <1>10. now' \in Nat /\ conn' \in Nat /\ proofs' \in [Makers -> Nat] /\ \A p \in Ops : proofs'[p] = proofs[p]
    BY <1>1, AtCeremony
  <1> HIDE DEF d, F, ok, k
  <1>11. k # "created" /\ k # "saved"
    BY <1>6
  <1> QED BY <1>1, <1>3, <1>5, <1>6, <1>7, <1>8, <1>9, <1>10, <1>11, OneCeremony

LEMMA KeepsConfirm ==
    ASSUME IInv, NEW t \in Tokens, Confirm(t)
    PROVE  IInv'
  <1> DEFINE c == ledger[t]
             m == mark_passkey_ceremony_unknown_delivery(c)
  <1>1. /\ client[t] \in {"committed", "completed"} /\ client' = [client EXCEPT ![t] = "done"]
        /\ \/ ledger' = ledger
           \/ /\ c # None /\ AdvanceAllowed(c, "delivered", FALSE)
              /\ ledger' = [ledger EXCEPT ![t] = Advanced(c, "delivered")]
           \/ c # None /\ ledger' = [ledger EXCEPT ![t] = m]
        /\ UNCHANGED <<live, file, gen, leases, now, conn, stored, makers, site, proofs, fate>>
    <2>1. ledger \in [Tokens -> PasskeyCeremony \cup {None}]
      BY AtCeremony
    <2> QED BY <2>1 DEF Confirm, Step, ghosts
  <1>2. c # None =>
          /\ c \in PasskeyCeremony
          /\ c.rollback # None <=> c.durable \in {"mutated", "saved"}
          /\ c.durable # "none" => c.id.kind = "create" /\ c.phase \in {"s4"} \cup Closed
          /\ c.rollback # None => c.phase = "s4"
    <2>1. client[t] # "done"
      BY <1>1
    <2> QED BY <2>1, AtCeremony
  <1>3. \E d \in PasskeyCeremony \cup {None} :
          /\ ledger' = [ledger EXCEPT ![t] = d] /\ (d = None <=> c = None)
          /\ d # None => /\ d.durable = c.durable /\ d.rollback = c.rollback /\ d.id = c.id
                         /\ d.phase = c.phase \/ (d.phase = "delivered" /\ c.rollback = None)
    <2>1. CASE ledger' = ledger
      <3>1. c \in PasskeyCeremony \cup {None} /\ ledger' = [ledger EXCEPT ![t] = c]
        BY <2>1, AtCeremony
      <3> QED BY <3>1
    <2>2. CASE /\ c # None /\ AdvanceAllowed(c, "delivered", FALSE)
               /\ ledger' = [ledger EXCEPT ![t] = Advanced(c, "delivered")]
      <3>1. c.rollback = None
        <4>1. c.id.kind = "create" => c.durable = "committed"
          BY <2>2 DEF AdvanceAllowed
        <4> QED BY <1>2, <2>2, <4>1
      <3>2. "delivered" \in Active \cup Closed
        BY DEF Closed
      <3>3. /\ Advanced(c, "delivered") \in PasskeyCeremony /\ Advanced(c, "delivered").phase = "delivered"
            /\ Advanced(c, "delivered").id = c.id
            /\ Advanced(c, "delivered").durable = c.durable /\ Advanced(c, "delivered").rollback = c.rollback
        BY <1>2, <2>2, <3>2, AdvancedTyped
      <3> QED BY <2>2, <3>1, <3>3, Names
    <2>3. CASE c # None /\ ledger' = [ledger EXCEPT ![t] = m]
      <3>1. CASE m = c
        BY <1>2, <2>3, <3>1
      <3>2. CASE m # c
        <4>1. /\ c.durable \in {"committed", "none"}
              /\ m = [c EXCEPT !.phase = "delivered", !.delivery = "unknown"]
          BY <3>2 DEF mark_passkey_ceremony_unknown_delivery
        <4>2. /\ m \in PasskeyCeremony /\ m.phase = "delivered" /\ m.id = c.id /\ m.durable = c.durable /\ m.rollback = c.rollback
          <5> HIDE DEF m
          <5> QED BY <1>2, <2>3, <4>1 DEF PasskeyCeremony, Closed
        <4>3. c.rollback = None
          BY <1>2, <2>3, <4>1
        <4> HIDE DEF m
        <4> QED BY <2>3, <4>2, <4>3, Names
      <3> QED BY <3>1, <3>2
    <2> QED BY <1>1, <2>1, <2>2, <2>3
  <1>4. PICK d \in PasskeyCeremony \cup {None} :
          /\ ledger' = [ledger EXCEPT ![t] = d] /\ (d = None <=> c = None)
          /\ d # None => /\ d.durable = c.durable /\ d.rollback = c.rollback /\ d.id = c.id
                         /\ d.phase = c.phase \/ (d.phase = "delivered" /\ c.rollback = None)
    BY <1>3
  <1>5. Follows(c, d, t \in fate'.abandoned, t \in fate'.committed)
    BY <1>4 DEF Follows
  <1>6. now' \in Nat /\ conn' \in Nat /\ fate' \in Fates /\ proofs' \in [Makers -> Nat] /\ \A p \in Ops : proofs'[p] = proofs[p]
    BY <1>1, AtCeremony
  <1>7. /\ fate.published \subseteq fate'.published /\ fate.committed \subseteq fate'.committed
        /\ fate.abandoned \subseteq fate'.abandoned /\ fate.deleted = fate'.deleted /\ fate.discarded = fate'.discarded
        /\ fate.cut = fate'.cut
    BY <1>1
  <1>8. d # None =>
          /\ d.rollback # None <=> d.durable \in {"mutated", "saved"}
          /\ d.durable # "none" => d.id.kind = "create" /\ d.phase \in {"s4"} \cup Closed
          /\ ~(d.rollback # None /\ d.phase # "s4")
    BY <1>2, <1>4 DEF Closed
  <1>9. "done" \in Statuses \ Early
    BY DEF Statuses, Early
  <1> HIDE DEF c
  <1> QED BY <1>1, <1>4, <1>5, <1>6, <1>7, <1>8, <1>9, OneCeremony DEF c

LEMMA KeepsCloseWithoutRollback ==
    ASSUME IInv, NEW t \in Tokens, CloseWithoutRollback(t)
    PROVE  IInv'
  <1> DEFINE c == ledger[t]
             open == c # None /\ c.phase \in Active
             d == IF open THEN Advanced(c, "failed") ELSE c
             F == IF open THEN [fate EXCEPT !.abandoned = @ \cup {t}] ELSE fate
  <1>1. /\ client[t] \in {"stuck", "failing"} /\ client' = [client EXCEPT ![t] = "done"] /\ fate' = F
        /\ ledger' = IF open THEN [ledger EXCEPT ![t] = Advanced(c, "failed")] ELSE ledger
        /\ UNCHANGED <<live, file, gen, leases, now, conn, stored, makers, site, proofs>>
    BY DEF CloseWithoutRollback, Step
  <1>2. c # None =>
          /\ c \in PasskeyCeremony
          /\ c.rollback # None <=> c.durable \in {"mutated", "saved"}
          /\ c.durable # "none" => c.id.kind = "create" /\ c.phase \in {"s4"} \cup Closed
          /\ c.rollback # None => c.phase = "s4"
    <2>1. client[t] # "done"
      BY <1>1
    <2> QED BY <2>1, AtCeremony
  <1>3. /\ d \in PasskeyCeremony \cup {None} /\ ledger' = [ledger EXCEPT ![t] = d]
        /\ open => d # None /\ d.durable = c.durable /\ d.rollback = c.rollback /\ d.id = c.id /\ d.phase = "failed"
        /\ ~open => d = c
    <2>1. CASE open
      <3>1. "failed" \in Active \cup Closed
        BY DEF Closed
      <3>2. /\ Advanced(c, "failed") \in PasskeyCeremony /\ Advanced(c, "failed").phase = "failed"
            /\ Advanced(c, "failed").id = c.id
            /\ Advanced(c, "failed").durable = c.durable /\ Advanced(c, "failed").rollback = c.rollback
        BY <1>2, <2>1, <3>1, AdvancedTyped
      <3> QED BY <1>1, <2>1, <3>2, Names
    <2>2. CASE ~open
      <3>1. c \in PasskeyCeremony \cup {None} /\ [ledger EXCEPT ![t] = c] = ledger
        BY AtCeremony
      <3>2. ledger' = ledger /\ d = c
        BY <1>1, <2>2
      <3> QED BY <2>2, <3>1, <3>2
    <2> QED BY <2>1, <2>2
  <1>4. /\ F \in Fates /\ (open => t \in F.abandoned) /\ fate.published \subseteq F.published /\ fate.committed \subseteq F.committed
        /\ fate.abandoned \subseteq F.abandoned /\ fate.deleted = F.deleted /\ fate.discarded = F.discarded
        /\ fate.cut = F.cut
    <2>1. fate \in Fates /\ t \in Held
      BY AtCeremony, Names DEF Held
    <2> HIDE DEF open
    <2> QED BY <2>1 DEF Fates
  <1> HIDE DEF c, d, F, open
  <1>5. Follows(c, d, t \in F.abandoned, t \in F.committed)
    <2>1. c = None => ~open
      BY DEF open
    <2> QED BY <1>3, <1>4, <2>1 DEF Follows
  <1>6. now' \in Nat /\ conn' \in Nat /\ proofs' \in [Makers -> Nat] /\ \A p \in Ops : proofs'[p] = proofs[p]
    BY <1>1, AtCeremony
  <1>7. d # None =>
          /\ d.rollback # None <=> d.durable \in {"mutated", "saved"}
          /\ d.durable # "none" => d.id.kind = "create" /\ d.phase \in {"s4"} \cup Closed
          /\ d.rollback # None /\ d.phase # "s4" => t \in F.abandoned
    <2>1. "failed" \in Closed
      BY DEF Closed
    <2>2. open => c # None
      BY DEF open
    <2> QED BY <1>2, <1>3, <1>4, <2>1, <2>2
  <1>8. "done" \in Statuses \ Early
    BY DEF Statuses, Early
  <1> QED BY <1>1, <1>3, <1>4, <1>5, <1>6, <1>7, <1>8, OneCeremony DEF c

\* The store of the current state.
LEMMA OfStore ==
    /\ Store.ledger = ledger /\ Store.live = live /\ Store.file = file /\ Store.stored = stored /\ Store.fate = fate
    /\ UndoIn(Store) = UndoOf(ledger, leases) /\ AccountedIn(Store) = AccountedOf(ledger, leases, fate)
    /\ UncommittedIn(Store) = UncommittedOf(ledger, leases) /\ ExemptIn(Store) = Exempt(stored, fate)
    /\ WaitingIn(Store) = WaitingOf(ledger, client, Exempt(stored, fate))
  <1>1. /\ Store.ledger = ledger /\ Store.live = live /\ Store.file = file /\ Store.stored = stored /\ Store.fate = fate
    BY DEF Store
  <1> HIDE DEF Store
  <1> QED BY <1>1 DEF UndoIn, AccountedIn, UncommittedIn, ExemptIn, WaitingIn

LEMMA KeepsComplete ==
    ASSUME IInv, NEW t \in Tokens, Complete(t)
    PROVE  IInv'
  <1> DEFINE adds == ledger[t] # None /\ ledger[t].id.kind = "create"
  <1>1. /\ client[t] = "committed" /\ client' = [client EXCEPT ![t] = "completed"]
        /\ site' = IF adds THEN site \cup {t} ELSE site
        /\ UNCHANGED <<ledger, live, file, gen, leases, relock, now, conn, stored, fate, makers, proofs>>
    BY DEF Complete, Step
  <1>2. /\ LedgerKept(ledger, fate, client) /\ Attended(ledger, fate, client, {}) /\ Answered(ledger, client, Exempt(stored, fate))
        /\ HandedOver(site, UndoOf(ledger, leases), client, leases, proofs) /\ site \subseteq Exempt(stored, fate)
        /\ StoreTyped(Store)
    BY SoundParts DEF IInv
  <1>3. LiveSound(Store, {}) /\ FileSound(Store, UncommittedIn(Store))
    BY DEF IInv, StoreSound
  <1>4. client \in [Tokens -> Statuses] /\ t \in Makers /\ t \in Tokens
    BY Names DEF IInv, Typed
  <1>5. client'[t] = "completed" /\ \A x \in Tokens : x # t => client'[x] = client[x]
    BY <1>1, <1>4
  <1>6. Typed'
    <2>1. client' \in [Tokens -> Statuses]
      BY <1>1, <1>4 DEF Statuses
    <2>2. site' \in SUBSET Held
      BY <1>1, Names DEF IInv, Typed, Held
    <2> QED BY <1>1, <2>1, <2>2 DEF IInv, Typed
  <1>7. StoreTyped(Store)'
    BY <1>1, <1>2 DEF StoreTyped, Store
  <1>8. \A x \in Tokens : client[x] \notin Early => client'[x] \notin Early
    BY <1>5 DEF Early
  <1>9. \A m \in Makers : Spent(m, client, leases, proofs) => Spent(m, client', leases', proofs')
    BY <1>1, <1>8, SpentStays
  <1>10. AllSpent(makers', client', leases', proofs')
    <2>1. AllSpent(makers, client, leases, proofs)
      BY DEF IInv
    <2>2. \A e \in DOMAIN makers : makers[e] \subseteq Makers
      BY DEF IInv, Typed
    <2> QED BY <1>1, <1>9, <2>1, <2>2 DEF AllSpent
  <1>11. HandedOver(site', UndoOf(ledger', leases'), client', leases', proofs')
    <2>1. UndoOf(ledger', leases') = UndoOf(ledger, leases)
      BY <1>1
    <2>2. adds => UndoOf(ledger, leases)[t] = None
      BY <1>1, <1>4, AtCeremony, Names DEF UndoOf
    <2>3. Spent(t, client', leases', proofs')
      BY <1>4, <1>5, Names DEF Spent
    <2> HIDE DEF adds
    <2> QED BY <1>1, <1>2, <1>9, <2>1, <2>2, <2>3 DEF HandedOver
  <1>12. site' \subseteq Exempt(stored', fate')
    <2>1. adds => t \in Exempt(stored, fate)
      BY <1>1, AtCeremony
    <2> HIDE DEF adds
    <2> QED BY <1>1, <1>2, <2>1
  <1>13. LedgerKept(ledger', fate', client')
    BY <1>1, <1>2, <1>5 DEF LedgerKept
  <1>14. Attended(ledger', fate', client', {})
    BY <1>1, <1>2, <1>5 DEF Attended
  <1>15. Answered(ledger', client', Exempt(stored', fate'))
    BY <1>1, <1>2, <1>5 DEF Answered
  <1>16. \A x \in Tokens : Follows(Store.ledger[x], ledger'[x], x \in fate'.abandoned, x \in fate'.committed)
    BY <1>1, OfStore DEF Follows
  <1>17. LeasesKept(leases', proofs')
    BY <1>1 DEF IInv
  <1>18. \A x \in Tokens : client'[x] = "created" => client[x] = "created"
    BY <1>5
  <1> HIDE DEF adds
  <1> QED BY <1>1, <1>3, <1>6, <1>7, <1>10, <1>11, <1>12, <1>13, <1>14, <1>15, <1>16, <1>17, <1>18, OfStore, LedgerStep

LEMMA KeepsRegister ==
    ASSUME IInv, NEW t \in Tokens, NEW id \in Identities, register_passkey_ceremony(t, id)
    PROVE  IInv'
  <1> DEFINE L == prune_expired_passkey_ceremonies(ledger)
             d == NewCeremony(id)
  <1>1. /\ client[t] = "idle"
        /\ \/ L[t] = None /\ ledger' = [L EXCEPT ![t] = d] /\ client' = [client EXCEPT ![t] = "working"]
           \/ ledger' = L /\ client' = [client EXCEPT ![t] = "done"]
        /\ UNCHANGED <<live, file, gen, leases, now, conn, stored, fate, makers, site, proofs>>
    BY DEF register_passkey_ceremony, ghosts
  <1>2. /\ LedgerKept(ledger, fate, client) /\ Attended(ledger, fate, client, {}) /\ Answered(ledger, client, Exempt(stored, fate))
        /\ StoreTyped(Store) /\ ledger \in [Tokens -> PasskeyCeremony \cup {None}]
    BY SoundParts, StoreTypedIs DEF IInv
  <1>3. client \in [Tokens -> Statuses] /\ now \in Nat /\ conn \in Nat
    BY DEF IInv, Typed
  <1>4. ASSUME NEW x \in Tokens
        PROVE  L[x] = ledger[x] \/ (L[x] = None /\ ledger[x] # None /\ (ledger[x].rollback # None => ledger[x].phase # "s4"))
    <2>1. L[x] = ledger[x] \/ (L[x] = None /\ ledger[x] # None
                                /\ ~(ledger[x].phase = "s4" /\ ledger[x].id.kind = "create" /\ ledger[x].durable # "none"))
      BY DEF prune_expired_passkey_ceremonies
    <2>2. ledger[x] # None /\ ledger[x].rollback # None => ledger[x].id.kind = "create" /\ ledger[x].durable # "none"
      BY AtCeremony
    <2> QED BY <2>1, <2>2
  <1>5. L \in [Tokens -> PasskeyCeremony \cup {None}]
    <2>1. L = [x \in Tokens |-> L[x]]
      BY DEF prune_expired_passkey_ceremonies
    <2> HIDE DEF L
    <2> QED BY <1>2, <1>4, <2>1
  <1>6. /\ d \in PasskeyCeremony /\ d # None /\ d.rollback = None /\ d.durable = "none" /\ d.phase = "s0"
    <2>1. d \in PasskeyCeremony
      <3>1. now + Ttl \in Nat
        BY <1>3, PasskeyBounds
      <3> QED BY <1>3, <3>1 DEF NewCeremony, PasskeyCeremony, Active
    <2> QED BY <2>1, Names DEF NewCeremony
  <1>7. ledger' \in [Tokens -> PasskeyCeremony \cup {None}]
    <2> HIDE DEF L, d
    <2> QED BY <1>1, <1>5, <1>6
  <1>8. \A x \in Tokens : \/ ledger'[x] = L[x]
                          \/ x = t /\ ledger[x] = ledger[t] /\ ledger'[x] = d /\ L[x] = None
    <2> HIDE DEF L, d
    <2> QED BY <1>1, <1>5
  <1>9. /\ client'[t] \in {"working", "done"} /\ \A x \in Tokens : x # t => client'[x] = client[x]
    BY <1>1, <1>3
  <1>10. Typed'
    <2>1. client' \in [Tokens -> Statuses]
      BY <1>1, <1>3 DEF Statuses
    <2> QED BY <1>1, <2>1 DEF IInv, Typed
  <1> HIDE DEF L, d
  <1>11. StoreTyped(Store)'
    <2>1. (live' # Locked => IsVault(live')) /\ IsVault(file') /\ stored' \in SUBSET Held /\ fate' \in Fates
      BY <1>1, <1>2, StoreTypedIs
    <2> QED BY <1>7, <2>1, StoreTypedNext
  <1>12. \A x \in Tokens : Follows(ledger[x], ledger'[x], x \in fate'.abandoned, x \in fate'.committed)
    BY <1>4, <1>6, <1>8 DEF Follows
  <1>13. LedgerKept(ledger', fate', client')
    <2> SUFFICES ASSUME NEW x \in Tokens, ledger'[x] # None
                 PROVE  /\ ledger'[x].rollback # None <=> ledger'[x].durable \in {"mutated", "saved"}
                        /\ ledger'[x].durable # "none" => ledger'[x].id.kind = "create" /\ ledger'[x].phase \in {"s4"} \cup Closed
                        /\ ledger'[x].rollback # None /\ ledger'[x].phase # "s4" => client'[x] = "done" /\ x \in fate'.abandoned
                        /\ client'[x] \in {"committed", "completed"} /\ ledger'[x].id.kind = "create" => ledger'[x].rollback = None
      BY DEF LedgerKept
    <2>1. CASE ledger'[x] = d
      BY <1>6, <2>1
    <2>2. CASE ledger'[x] # d
      <3>1. ledger'[x] = ledger[x]
        BY <1>4, <1>8, <2>2
      <3>2. x = t => client[x] = "idle"
        BY <1>1
      <3>3. /\ ledger[x].rollback # None <=> ledger[x].durable \in {"mutated", "saved"}
            /\ ledger[x].durable # "none" => ledger[x].id.kind = "create" /\ ledger[x].phase \in {"s4"} \cup Closed
            /\ ledger[x].rollback # None /\ ledger[x].phase # "s4" => client[x] = "done" /\ x \in fate.abandoned
            /\ client[x] \in {"committed", "completed"} /\ ledger[x].id.kind = "create" => ledger[x].rollback = None
        BY <1>2, <3>1 DEF LedgerKept
      <3> QED BY <1>1, <1>9, <3>1, <3>2, <3>3
    <2> QED BY <2>1, <2>2
  <1>14. Attended(ledger', fate', client', {})
    <2> SUFFICES ASSUME NEW x \in Tokens, client'[x] = "created", ledger'[x] # None
                 PROVE  \/ ledger'[x].id.kind = "create" /\ ledger'[x].phase = "s4" /\ ledger'[x].durable = "mutated"
                        \/ ledger'[x].phase \in Closed /\ x \in fate'.discarded \cup {}
      BY DEF Attended
    <2>1. x # t
      BY <1>9
    <2>2. ledger'[x] = ledger[x] /\ client[x] = "created"
      BY <1>4, <1>8, <1>9, <2>1
    <2> QED BY <1>1, <1>2, <2>2 DEF Attended
  <1>15. Answered(ledger', client', Exempt(stored', fate'))
    <2> SUFFICES ASSUME NEW x \in Tokens,
                        client'[x] = "saved" \/ (client'[x] \in {"committed", "completed"} /\ ledger'[x] # None /\ ledger'[x].id.kind = "create")
                 PROVE  x \in Exempt(stored', fate')
      BY DEF Answered
    <2>1. x # t
      BY <1>9
    <2>2. client[x] = client'[x] /\ (ledger'[x] # None => ledger'[x] = ledger[x])
      BY <1>4, <1>8, <1>9, <2>1
    <2> QED BY <1>1, <1>2, <2>2 DEF Answered
  <1>16. /\ \A x \in Tokens : client'[x] = "created" => client[x] = "created"
         /\ \A x \in Tokens : client[x] \notin Early => client'[x] \notin Early
    BY <1>1, <1>9 DEF Early
  <1>17. \A p \in Ops : proofs'[p] = proofs[p]
    BY <1>1
  <1> QED BY <1>1, <1>10, <1>11, <1>12, <1>13, <1>14, <1>15, <1>16, <1>17, CeremonyStep

LEMMA KeepsRestart ==
    ASSUME IInv, Restart
    PROVE  IInv'
  <1>1. /\ conn' = conn + 1
        /\ client' = [x \in Tokens |-> IF client[x] \in {"idle", "done"} THEN client[x] ELSE "gone"]
        /\ UNCHANGED <<ledger, live, file, gen, leases, now, stored, fate, makers, site, proofs>>
    BY DEF Restart, ghosts
  <1>2. /\ LedgerKept(ledger, fate, client) /\ StoreTyped(Store)
    BY SoundParts DEF IInv
  <1>3. \A x \in Tokens : client'[x] = "gone" \/ (client[x] \in {"idle", "done"} /\ client'[x] = client[x])
    BY <1>1
  <1>4. \A x \in Tokens : client[x] = "done" => client'[x] = "done"
    BY <1>1
  <1>5. Typed'
    <2>1. client' \in [Tokens -> Statuses]
      BY <1>1 DEF Statuses, IInv, Typed
    <2>2. conn' \in Nat
      BY <1>1 DEF IInv, Typed
    <2> QED BY <1>1, <2>1, <2>2 DEF IInv, Typed
  <1>6. StoreTyped(Store)'
    BY <1>1, <1>2 DEF StoreTyped, Store
  <1>7. \A x \in Tokens : Follows(ledger[x], ledger'[x], x \in fate'.abandoned, x \in fate'.committed)
    BY <1>1 DEF Follows
  <1>8. LedgerKept(ledger', fate', client')
    BY <1>1, <1>2, <1>3, <1>4 DEF LedgerKept
  <1>9. Attended(ledger', fate', client', {}) /\ Answered(ledger', client', Exempt(stored', fate'))
    BY <1>3 DEF Attended, Answered
  <1>10. /\ \A x \in Tokens : client'[x] = "created" => client[x] = "created"
         /\ \A x \in Tokens : client[x] \notin Early => client'[x] \notin Early
    BY <1>3 DEF Early
  <1> QED BY <1>1, <1>5, <1>6, <1>7, <1>8, <1>9, <1>10, CeremonyStep

LEMMA KeepsTick ==
    ASSUME IInv, Tick
    PROVE  IInv'
  <1>1. /\ now' = now + 1
        /\ UNCHANGED <<ledger, live, file, gen, leases, conn, client, stored, fate, makers, site, proofs>>
    BY DEF Tick, ghosts
  <1>2. /\ LedgerKept(ledger, fate, client) /\ Attended(ledger, fate, client, {}) /\ Answered(ledger, client, Exempt(stored, fate))
        /\ StoreTyped(Store)
    BY SoundParts DEF IInv
  <1>3. Typed'
    <2>1. now' \in Nat
      BY <1>1 DEF IInv, Typed
    <2> QED BY <1>1, <2>1 DEF IInv, Typed
  <1>4. StoreTyped(Store)'
    BY <1>1, <1>2 DEF StoreTyped, Store
  <1>5. \A x \in Tokens : Follows(ledger[x], ledger'[x], x \in fate'.abandoned, x \in fate'.committed)
    BY <1>1 DEF Follows
  <1> QED BY <1>1, <1>2, <1>3, <1>4, <1>5, CeremonyStep

(***************************************************************************)
(* Saves, aborts and locks                                                 *)
(***************************************************************************)

LEMMA NowStore ==
    ASSUME IInv
    PROVE  /\ StoreTyped(Store) /\ LiveSound(Store, {}) /\ FileSound(Store, UncommittedIn(Store))
           /\ Typed /\ Sole(makers) /\ gen \in Nat /\ now \in Nat /\ conn \in Nat /\ client \in [Tokens -> Statuses]
           /\ LedgerKept(ledger, fate, client) /\ Attended(ledger, fate, client, {}) /\ Answered(ledger, client, Exempt(stored, fate))
  <1>1. StoreSound(Store, {})
    BY DEF IInv
  <1>2. LiveSound(Store, {}) /\ StoreTyped(Store) /\ FileSound(Store, UncommittedIn(Store))
    BY <1>1 DEF StoreSound, LiveSound
  <1>3. LedgerKept(ledger, fate, client) /\ Attended(ledger, fate, client, {}) /\ Answered(ledger, client, Exempt(stored, fate))
    BY <1>1, SoundParts
  <1> QED BY <1>2, <1>3 DEF IInv, Typed

LEMMA BecomesParts ==
    ASSUME NEW s, Becomes(s), StoreTyped(s)
    PROVE  /\ ledger' = s.ledger /\ live' = s.live /\ file' = s.file /\ stored' = s.stored /\ fate' = s.fate
           /\ StoreTyped(Store)' /\ Exempt(stored', fate') = ExemptIn(s)
           /\ UncommittedOf(ledger', leases) = UncommittedIn(s)
  <1>1. ledger' = s.ledger /\ live' = s.live /\ file' = s.file /\ stored' = s.stored /\ fate' = s.fate
    BY DEF Becomes
  <1>2. StoreTyped(Store)'
    BY <1>1, StoreTypedNext DEF StoreTyped
  <1> QED BY <1>1, <1>2 DEF ExemptIn, UncommittedIn

LEMMA KeepsSaveVault ==
    ASSUME IInv, SaveVault
    PROVE  IInv'
  <1> DEFINE s == SavedStore(Store, None)
  <1>1. live # Locked /\ Becomes(s) /\ UNCHANGED <<gen, leases, now, conn, client, site, makers, proofs>>
    BY NowStore, SavedStoreIs DEF SaveVault, Unlocked
  <1>2. LiveSound(Store, {}) /\ StoreTyped(Store) /\ Store.live # Locked
    BY <1>1, NowStore, OfStore
  <1>3. LiveSound(s, {}) /\ FileSound(s, UncommittedIn(Store) \ {None}) /\ StoreTyped(s)
    BY <1>2, SaveSound DEF LiveSound
  <1>4. UncommittedIn(s) = UncommittedIn(Store)
    BY <1>2, SaveChanges
  <1>5. None \notin UncommittedIn(Store)
    BY Names DEF UncommittedIn, UncommittedOf
  <1> HIDE DEF s
  <1>6. /\ ledger' = s.ledger /\ live' = s.live /\ file' = s.file /\ fate' = s.fate
        /\ StoreTyped(Store)' /\ Exempt(stored', fate') = ExemptIn(s)
    BY <1>1, <1>3, BecomesParts
  <1>7. \A t \in Tokens : Follows(s.ledger[t], ledger'[t], t \in fate'.abandoned, t \in fate'.committed)
    BY <1>6 DEF Follows
  <1>8. /\ LedgerKept(ledger', fate', client') /\ Attended(ledger', fate', client', {})
        /\ Answered(ledger', client', Exempt(stored', fate'))
    BY <1>1, <1>3, <1>6 DEF LiveSound
  <1>9. gen' \in Nat /\ now' \in Nat /\ conn' \in Nat /\ client' \in [Tokens -> Statuses]
    BY <1>1, NowStore
  <1> QED BY <1>1, <1>3, <1>4, <1>5, <1>6, <1>7, <1>8, <1>9, StoreStep

LEMMA KeepsAbort ==
    ASSUME IInv, NEW t \in Tokens, NEW next \in ClosePhases, NEW fails \in BOOLEAN, Abort(t, next, fails)
    PROVE  IInv'
  <1> DEFINE s == abort_passkey_registration(Store, t, next, fails).st
  <1>1. /\ client[t] \in {"failing", "created", "saved"} /\ ledger[t] # None /\ Becomes(s)
        /\ client' = [client EXCEPT ![t] = "done"] \/ client' = [client EXCEPT ![t] = "stuck"]
        /\ UNCHANGED <<gen, leases, now, conn, site, makers, proofs>>
    BY DEF Abort, Step
  <1>2. StoreSound(Store, {}) /\ Typed /\ Sole(makers) /\ Store.ledger[t] # None /\ next \in Closed
    BY <1>1, OfStore, PasskeyBounds DEF IInv, Closed
  <1>3. StoreSound(s, {} \cup {t})
    BY <1>2, AbortSound
  <1> HIDE DEF s
  <1>4. LiveSound(s, {t}) /\ FileSound(s, UncommittedIn(s)) /\ StoreTyped(s)
    BY <1>3 DEF StoreSound, LiveSound
  <1>5. /\ ledger' = s.ledger /\ live' = s.live /\ file' = s.file /\ fate' = s.fate
        /\ StoreTyped(Store)' /\ Exempt(stored', fate') = ExemptIn(s)
    BY <1>1, <1>4, BecomesParts
  <1>6. /\ client'[t] \in {"done", "stuck"} /\ \A x \in Tokens : x # t => client'[x] = client[x]
        /\ client' \in [Tokens -> Statuses]
    BY <1>1, NowStore DEF Statuses
  <1>7. \A x \in Tokens : Follows(s.ledger[x], ledger'[x], x \in fate'.abandoned, x \in fate'.committed)
    BY <1>5 DEF Follows
  <1>8. LedgerKept(ledger', fate', client')
    <2>1. LedgerKept(s.ledger, s.fate, client)
      BY <1>4 DEF LiveSound
    <2> QED BY <1>1, <1>5, <1>6, <2>1 DEF LedgerKept
  <1>9. Attended(ledger', fate', client', {})
    <2>1. Attended(s.ledger, s.fate, client, {t})
      BY <1>4 DEF LiveSound
    <2> QED BY <1>1, <1>5, <1>6, <2>1 DEF Attended
  <1>10. Answered(ledger', client', Exempt(stored', fate'))
    <2>1. Answered(s.ledger, client, ExemptIn(s))
      BY <1>4 DEF LiveSound
    <2> QED BY <1>1, <1>5, <1>6, <2>1 DEF Answered
  <1>11. gen' \in Nat /\ now' \in Nat /\ conn' \in Nat
    BY <1>1, NowStore
  <1>12. /\ \A x \in Tokens : client'[x] = "created" => client[x] = "created"
         /\ \A x \in Tokens : client[x] \notin Early => client'[x] \notin Early
    BY <1>6 DEF Early
  <1> QED BY <1>1, <1>4, <1>5, <1>6, <1>7, <1>8, <1>9, <1>10, <1>11, <1>12, StoreStep

\* What a save adds for the ceremony it is for.
LEMMA SavedFor ==
    ASSUME NEW st, NEW L, NEW v, NEW f, NEW S, NEW F, st = StoreOf(L, v, f, S, F), NEW t
    PROVE  [st EXCEPT !.ledger[t].durable = "saved"] = StoreOf([L EXCEPT ![t].durable = "saved"], v, f, S, F)
  BY DEF StoreOf

LEMMA KeepsSave ==
    ASSUME IInv, NEW t \in Tokens, NEW fails \in BOOLEAN, save_passkey_registration(t, fails)
    PROVE  IInv'
  <1> DEFINE c == ledger[t]
             late == c # None /\ c.phase \in Closed
             ok == /\ c # None /\ c.phase = "s4" /\ ~Expired(c) /\ c.rollback # None /\ live # Locked
                   /\ ~fails
             k == IF ok \/ late THEN "saved" ELSE "failing"
  <1>1. /\ client[t] = "created" /\ client' = [client EXCEPT ![t] = k]
        /\ ok => Becomes([Saved(Store, t) EXCEPT !.ledger[t].durable = "saved"])
        /\ ~ok => Becomes(Store)
        /\ UNCHANGED <<gen, leases, now, conn, site, makers, proofs>>
    BY DEF save_passkey_registration, Step, Unlocked
  <1>2. CASE ~ok
    <2>1. UNCHANGED <<ledger, live, file, stored, fate>>
      BY <1>1, <1>2, OfStore DEF Becomes
    <2>2. /\ c \in PasskeyCeremony \cup {None} /\ ledger' = [ledger EXCEPT ![t] = c]
      BY <2>1, AtCeremony
    <2>3. k \in {"saved", "failing"} /\ k \in Statuses /\ k \notin Early /\ k \notin {"created", "committed", "completed"}
      BY DEF Statuses, Early
    <2>4. k = "saved" => t \in Exempt(stored, fate)
      <3>1. k = "saved" => late
        BY <1>2
      <3>2. late => t \in fate.discarded
        BY <1>1, AtCeremony DEF Closed
      <3> QED BY <3>1, <3>2 DEF Exempt
    <2>5. c # None => /\ c.rollback # None <=> c.durable \in {"mutated", "saved"}
                      /\ c.durable # "none" => c.id.kind = "create" /\ c.phase \in {"s4"} \cup Closed
                      /\ ~(c.rollback # None /\ c.phase # "s4")
      BY <1>1, AtCeremony
    <2>6. Follows(ledger[t], c, t \in fate'.abandoned, t \in fate'.committed)
      BY DEF Follows
    <2>7. now' \in Nat /\ conn' \in Nat /\ fate' \in Fates /\ proofs' \in [Makers -> Nat] /\ \A p \in Ops : proofs'[p] = proofs[p]
      BY <1>1, <2>1, AtCeremony
    <2>8. /\ fate.published \subseteq fate'.published /\ fate.committed \subseteq fate'.committed
          /\ fate.abandoned \subseteq fate'.abandoned /\ fate.deleted = fate'.deleted /\ fate.discarded = fate'.discarded
          /\ fate.cut = fate'.cut
      BY <2>1
    <2> HIDE DEF c, k
    <2> QED BY <1>1, <2>1, <2>2, <2>3, <2>4, <2>5, <2>6, <2>7, <2>8, OneCeremony DEF c
  <1>3. CASE ok
    <2> DEFINE s == SavedStore(Store, t)
               x == StoreOf([ledger EXCEPT ![t].durable = "saved"], s.live, s.file, s.stored, s.fate)
    <2>1. StoreTyped(Store) /\ LiveSound(Store, {}) /\ Store.live # Locked /\ Store.ledger = ledger
      BY <1>3, NowStore, OfStore
    <2>2. LiveSound(s, {}) /\ FileSound(s, UncommittedIn(Store) \ {t}) /\ StoreTyped(s)
      BY <2>1, SaveSound DEF LiveSound
    <2>3. /\ UncommittedIn(s) = UncommittedIn(Store) /\ s.ledger = ledger /\ s.live = live /\ s.file = live
          /\ ExemptIn(Store) \cup CredsOf(Store.live) \subseteq ExemptIn(s)
      BY <2>1, SaveChanges, OfStore
    <2>4. [Saved(Store, t) EXCEPT !.ledger[t].durable = "saved"] = x
      <3>1. Saved(Store, t) = s
        BY <2>1, SavedStoreIs
      <3>2. s = StoreOf(ledger, s.live, s.file, s.stored, s.fate)
        BY <2>2, <2>3 DEF StoreTyped, StoreOf
      <3> HIDE DEF s
      <3> QED BY <3>1, <3>2, SavedFor
    <2>5. /\ c \in PasskeyCeremony /\ c.durable = "mutated" /\ c.id.kind = "create" /\ c.phase = "s4" /\ c.rollback # None
      BY <1>1, <1>3, AtCeremony DEF Closed
    <2> DEFINE d == [c EXCEPT !.durable = "saved"]
    <2>6. /\ d \in PasskeyCeremony /\ d.durable = "saved" /\ d.rollback = c.rollback /\ d.phase = "s4" /\ d.id = c.id /\ d # None
      BY <2>5, Names DEF PasskeyCeremony
    <2>7. [ledger EXCEPT ![t].durable = "saved"] = [ledger EXCEPT ![t] = d]
      OBVIOUS
    <2>8. ledger' = [ledger EXCEPT ![t] = d] /\ live' = s.live /\ file' = s.file /\ stored' = s.stored /\ fate' = s.fate
      <3>1. /\ x.ledger = [ledger EXCEPT ![t].durable = "saved"] /\ x.live = s.live /\ x.file = s.file /\ x.stored = s.stored
            /\ x.fate = s.fate
        BY StoreOfParts
      <3> HIDE DEF x, d, s
      <3> QED BY <1>1, <1>3, <2>4, <2>7, <3>1 DEF Becomes
    <2> HIDE DEF s, d, x
    <2>9. ledger \in [Tokens -> PasskeyCeremony \cup {None}]
      BY AtCeremony
    <2>10. /\ ledger' \in [Tokens -> PasskeyCeremony \cup {None}] /\ ledger'[t] = d
           /\ \A y \in Tokens : y # t => ledger'[y] = ledger[y]
      BY <2>6, <2>8, <2>9
    <2>11. StoreTyped(Store)'
      BY <2>2, <2>8, <2>10, StoreTypedNext DEF StoreTyped
    <2>12. k = "saved" /\ k \in Statuses
      BY <1>3 DEF Statuses
    <2>13. client' \in [Tokens -> Statuses] /\ client'[t] = "saved" /\ \A y \in Tokens : y # t => client'[y] = client[y]
      BY <1>1, <2>12, NowStore
    <2>14. \A y \in Tokens : Follows(s.ledger[y], ledger'[y], y \in fate'.abandoned, y \in fate'.committed)
      <3>1. Follows(c, d, t \in fate'.abandoned, t \in fate'.committed)
        <4>1. c # None
          BY <1>3
        <4> HIDE DEF c
        <4> QED BY <2>5, <2>6, <4>1 DEF Follows
      <3>2. \A y \in Tokens : Follows(ledger[y], ledger[y], y \in fate'.abandoned, y \in fate'.committed)
        BY DEF Follows
      <3> QED BY <2>3, <2>10, <3>1, <3>2
    <2>15. Exempt(stored', fate') = ExemptIn(s)
      BY <2>8 DEF ExemptIn
    <2>16. t \in ExemptIn(s)
      <3>1. CASE t \in ExemptIn(Store)
        BY <2>3, <3>1
      <3>2. CASE t \notin ExemptIn(Store)
        <4>1. t \in WaitingIn(Store)
          BY <1>1, <2>1, <2>5, <3>2, Names DEF WaitingIn, WaitingOf
        <4>2. WaitingIn(Store) \subseteq CredsOf(Store.live)
          BY <2>1, <4>1 DEF LiveSound
        <4> QED BY <2>3, <4>1, <4>2
      <3> QED BY <3>1, <3>2
    <2>17. t \notin UncommittedOf(ledger', leases')
      BY <2>6, <2>10, Names DEF UncommittedOf
    <2>18. LedgerKept(ledger', fate', client')
      <3>1. LedgerKept(s.ledger, s.fate, client)
        BY <2>2 DEF LiveSound
      <3> QED BY <2>3, <2>5, <2>6, <2>8, <2>10, <2>13, <3>1 DEF LedgerKept
    <2>19. Attended(ledger', fate', client', {})
      <3>1. Attended(s.ledger, s.fate, client, {})
        BY <2>2 DEF LiveSound
      <3> QED BY <2>3, <2>8, <2>10, <2>13, <3>1 DEF Attended
    <2>20. Answered(ledger', client', Exempt(stored', fate'))
      <3>1. Answered(s.ledger, client, ExemptIn(s))
        BY <2>2 DEF LiveSound
      <3> QED BY <2>3, <2>10, <2>13, <2>15, <2>16, <3>1 DEF Answered
    <2>21. gen' \in Nat /\ now' \in Nat /\ conn' \in Nat
      BY <1>1, NowStore
    <2>22. /\ \A y \in Tokens : client'[y] = "created" => client[y] = "created"
           /\ \A y \in Tokens : client[y] \notin Early => client'[y] \notin Early
      BY <2>13 DEF Early
    <2>23. /\ s.fate.published \subseteq fate'.published /\ s.fate.committed \subseteq fate'.committed
           /\ s.fate.abandoned \subseteq fate'.abandoned /\ ExemptIn(s) \subseteq Exempt(stored', fate')
      BY <2>8, <2>15
    <2>24. \A m \in UncommittedIn(s) : m \in UncommittedOf(ledger', leases') => m \in UncommittedIn(Store) \ {t}
      BY <2>3, <2>17
    <2>25. LiveSound(s, {}) /\ FileSound(s, UncommittedIn(Store) \ {t}) /\ live' = s.live /\ file' = s.file
           /\ UNCHANGED <<leases, makers, site, proofs>>
      BY <1>1, <2>2, <2>8
    <2> QED BY <2>11, <2>13, <2>14, <2>18, <2>19, <2>20, <2>21, <2>22, <2>23, <2>24, <2>25, StoreStep
  <1> QED BY <1>2, <1>3

\* Locking: what only the vault held is discarded, and nobody waits for it.
\* The store once the vault is locked.
LEMMA LockedSound ==
    ASSUME IInv
    PROVE  LET s == StoreOf(ledger, Locked, file, stored, Discards(fate))
           IN /\ StoreTyped(s) /\ LiveSound(s, {}) /\ FileSound(s, UncommittedIn(Store))
              /\ s.ledger = ledger /\ s.live = Locked /\ s.file = file /\ s.stored = stored /\ s.fate = Discards(fate)
              /\ UncommittedIn(s) = UncommittedIn(Store) /\ ExemptIn(Store) \subseteq ExemptIn(s)
              /\ s.fate.published = fate.published /\ s.fate.committed = fate.committed /\ s.fate.abandoned = fate.abandoned
  <1> DEFINE D == {t \in Tokens : ledger[t] # None /\ ledger[t].durable = "mutated"}
             F == Discards(fate)
             s == StoreOf(ledger, Locked, file, stored, F)
  <1>1. LiveSound(Store, {}) /\ FileSound(Store, UncommittedIn(Store)) /\ StoreTyped(Store)
    BY NowStore
  <1>2. D \subseteq Held
    BY Names DEF Held
  <1>3. /\ F \in Fates /\ F.discarded = fate.discarded \cup D /\ F.published = fate.published /\ F.committed = fate.committed
        /\ F.abandoned = fate.abandoned /\ F.deleted = fate.deleted /\ F.cut = fate.cut
    <2>1. fate \in Fates
      BY <1>1, StoreTypedIs
    <2> HIDE DEF D
    <2>2. F = [fate EXCEPT !.discarded = @ \cup D]
      BY DEF Discards, D
    <2> QED BY <1>2, <2>1, <2>2 DEF Fates
  <1>4. /\ s.ledger = ledger /\ s.live = Locked /\ s.file = file /\ s.stored = stored /\ s.fate = F
        /\ StoreTyped(s)
    <2>1. ledger \in [Tokens -> PasskeyCeremony \cup {None}] /\ IsVault(file) /\ stored \in SUBSET Held
      BY <1>1, StoreTypedIs
    <2> HIDE DEF F
    <2> QED BY <1>3, <2>1, StoreOfParts
  <1> HIDE DEF s, F
  <1>5. /\ UndoIn(s) = UndoIn(Store) /\ AccountedIn(s) = AccountedIn(Store) /\ UncommittedIn(s) = UncommittedIn(Store)
        /\ ExemptIn(s) = ExemptIn(Store) \cup D
    BY <1>3, <1>4, OfStore DEF UndoIn, AccountedIn, AccountedOf, UncommittedIn, ExemptIn, Exempt
  <1>6. WaitingIn(s) = {}
    BY <1>4, <1>5 DEF WaitingIn, WaitingOf
  <1>7. /\ LedgerKept(s.ledger, s.fate, client) /\ Attended(s.ledger, s.fate, client, {})
        /\ Answered(s.ledger, client, ExemptIn(s))
    BY <1>3, <1>4, <1>5, NowStore, OfStore DEF LedgerKept, Attended, Answered
  <1>8. LiveSound(s, {})
    BY <1>1, <1>4, <1>5, <1>6, <1>7 DEF LiveSound
  <1>9. FileSound(s, UncommittedIn(s))
    BY <1>1, <1>3, <1>4, <1>5, OfStore DEF FileSound
  <1> QED BY <1>1, <1>3, <1>4, <1>5, <1>8, <1>9 DEF s, F

LEMMA KeepsLocking ==
    ASSUME IInv, live' = Locked, fate' = Discards(fate), gen' \in Nat, now' \in Nat, conn' \in Nat,
           UNCHANGED <<ledger, file, stored, client, leases, makers, site, proofs>>
    PROVE  IInv'
  <1> DEFINE s == StoreOf(ledger, Locked, file, stored, Discards(fate))
  <1>1. /\ StoreTyped(s) /\ LiveSound(s, {}) /\ FileSound(s, UncommittedIn(Store))
        /\ s.ledger = ledger /\ s.live = Locked /\ s.file = file /\ s.stored = stored /\ s.fate = Discards(fate)
        /\ UncommittedIn(s) = UncommittedIn(Store)
    BY LockedSound
  <1> HIDE DEF s
  <1>2. /\ ledger' = s.ledger /\ live' = s.live /\ file' = s.file /\ fate' = s.fate /\ Exempt(stored', fate') = ExemptIn(s)
        /\ StoreTyped(Store)'
    <2>1. ledger' = s.ledger /\ live' = s.live /\ file' = s.file /\ stored' = s.stored /\ fate' = s.fate
      BY <1>1
    <2> QED BY <1>1, <2>1, StoreTypedNext DEF StoreTyped, ExemptIn
  <1>3. \A t \in Tokens : Follows(s.ledger[t], ledger'[t], t \in fate'.abandoned, t \in fate'.committed)
    BY <1>2 DEF Follows
  <1>4. client' \in [Tokens -> Statuses]
    BY NowStore
  <1>5. /\ LedgerKept(ledger', fate', client') /\ Attended(ledger', fate', client', {})
        /\ Answered(ledger', client', Exempt(stored', fate'))
    BY <1>1, <1>2 DEF LiveSound
  <1> QED BY <1>1, <1>2, <1>3, <1>4, <1>5, StoreStep

LEMMA KeepsLock ==
    ASSUME IInv, Lock
    PROVE  IInv'
  <1>1. /\ live' = Locked /\ fate' = Discards(fate) /\ gen' = gen + 1
        /\ UNCHANGED <<ledger, file, stored, client, leases, makers, site, proofs, now, conn>>
    BY DEF Lock
  <1>2. gen' \in Nat /\ now' \in Nat /\ conn' \in Nat
    BY <1>1, NowStore
  <1> QED BY <1>1, <1>2, KeepsLocking

\* The store once a locked vault is read from the file.
LEMMA Unlocking ==
    ASSUME IInv, live = Locked
    PROVE  LET s == StoreOf(ledger, file, file, stored, fate)
           IN /\ StoreTyped(s) /\ LiveSound(s, {}) /\ FileSound(s, UncommittedIn(s))
              /\ s.ledger = ledger /\ s.live = file /\ s.file = file /\ s.stored = stored /\ s.fate = fate
              /\ UndoIn(s) = UndoIn(Store) /\ AccountedIn(s) = AccountedIn(Store) /\ UncommittedIn(s) = UncommittedIn(Store)
              /\ ExemptIn(s) = ExemptIn(Store) /\ WaitingIn(s) = {}
  <1> DEFINE s == StoreOf(ledger, file, file, stored, fate)
  <1>1. LiveSound(Store, {}) /\ FileSound(Store, UncommittedIn(Store)) /\ StoreTyped(Store)
    BY NowStore
  <1>2. /\ s.ledger = ledger /\ s.live = file /\ s.file = file /\ s.stored = stored /\ s.fate = fate
        /\ StoreTyped(s)
    <2>1. ledger \in [Tokens -> PasskeyCeremony \cup {None}] /\ IsVault(file) /\ stored \in SUBSET Held /\ fate \in Fates
      BY <1>1, StoreTypedIs
    <2> QED BY <2>1, StoreOfParts
  <1> HIDE DEF s
  <1>3. /\ UndoIn(s) = UndoIn(Store) /\ AccountedIn(s) = AccountedIn(Store) /\ UncommittedIn(s) = UncommittedIn(Store)
        /\ ExemptIn(s) = ExemptIn(Store) /\ WaitingIn(s) = WaitingIn(Store)
    BY <1>2, OfStore DEF UndoIn, AccountedIn, UncommittedIn, ExemptIn, WaitingIn
  <1>4. WaitingIn(Store) = {}
    BY <1>1, OfStore DEF LiveSound
  <1>5. Stacked(UndoIn(s), {}, s.live)
    BY DEF Stacked
  <1>6. Placed(makers, s.live) /\ Accounted(makers, AccountedIn(s), s.live)
    BY <1>1, <1>2, <1>3, OfStore DEF FileSound
  <1>7. LiveSound(s, {})
    BY <1>1, <1>2, <1>3, <1>4, <1>5, <1>6, OfStore DEF LiveSound
  <1>8. FileSound(s, UncommittedIn(s))
    BY <1>1, <1>2, <1>3, OfStore DEF FileSound
  <1> QED BY <1>2, <1>3, <1>4, <1>7, <1>8 DEF s

LEMMA KeepsUnlock ==
    ASSUME IInv, Unlock
    PROVE  IInv'
  <1> DEFINE s == StoreOf(ledger, file, file, stored, fate)
  <1>1. /\ live = Locked /\ live' = file /\ gen' = gen + 1
        /\ UNCHANGED <<ledger, file, stored, fate, client, leases, makers, site, proofs, now, conn>>
    BY DEF Unlock, Unlocked, ghosts
  <1>2. /\ StoreTyped(s) /\ LiveSound(s, {}) /\ FileSound(s, UncommittedIn(s))
        /\ s.ledger = ledger /\ s.live = file /\ s.file = file /\ s.stored = stored /\ s.fate = fate
        /\ ExemptIn(s) = ExemptIn(Store)
    BY <1>1, Unlocking
  <1> HIDE DEF s
  <1>3. gen' \in Nat /\ now' \in Nat /\ conn' \in Nat /\ client' \in [Tokens -> Statuses]
    BY <1>1, NowStore
  <1>4. StoreTyped(Store)' /\ Exempt(stored', fate') = ExemptIn(s)
    <2>1. ledger' = s.ledger /\ live' = s.live /\ file' = s.file /\ stored' = s.stored /\ fate' = s.fate
      BY <1>1, <1>2
    <2> QED BY <1>2, <2>1, StoreTypedNext DEF StoreTyped, ExemptIn
  <1>5. \A t \in Tokens : Follows(s.ledger[t], ledger'[t], t \in fate'.abandoned, t \in fate'.committed)
    BY <1>1, <1>2 DEF Follows
  <1>6. /\ LedgerKept(ledger', fate', client') /\ Attended(ledger', fate', client', {})
        /\ Answered(ledger', client', Exempt(stored', fate'))
    BY <1>1, NowStore
  <1> QED BY <1>1, <1>2, <1>3, <1>4, <1>5, <1>6, StoreStep

(***************************************************************************)
(* Edits and removals                                                      *)
(***************************************************************************)

\* A vault put in place of the unlocked one; what it lost is on record.
LEMMA KeepsNewVault ==
    ASSUME IInv, live # Locked, NEW v, IsVault(v), v # Locked, NEW F \in Fates,
           F.published = fate.published, F.committed = fate.committed, F.abandoned = fate.abandoned,
           F.discarded = fate.discarded, fate.deleted \subseteq F.deleted, fate.cut \subseteq F.cut,
           Placed(makers, v), Accounted(makers, AccountedIn(Store), v), Stacked(UndoIn(Store), WaitingIn(Store), v),
           CredsOf(live) \subseteq CredsOf(v) \cup F.deleted \cup F.cut,
           live' = v, fate' = F,
           UNCHANGED <<ledger, file, gen, leases, now, conn, client, site, stored, makers, proofs>>
    PROVE  IInv'
  <1> DEFINE s == StoreOf(ledger, v, file, stored, F)
  <1>1. LiveSound(Store, {}) /\ FileSound(Store, UncommittedIn(Store)) /\ StoreTyped(Store)
    BY NowStore
  <1>2. /\ s.ledger = ledger /\ s.live = v /\ s.file = file /\ s.stored = stored /\ s.fate = F
        /\ StoreTyped(s)
    <2>1. ledger \in [Tokens -> PasskeyCeremony \cup {None}] /\ IsVault(file) /\ stored \in SUBSET Held
      BY <1>1, StoreTypedIs
    <2> QED BY <2>1, StoreOfParts
  <1> HIDE DEF s
  <1>3. /\ UndoIn(s) = UndoIn(Store) /\ AccountedIn(s) = AccountedIn(Store) /\ UncommittedIn(s) = UncommittedIn(Store)
        /\ ExemptIn(Store) \cup F.deleted \cup F.cut \subseteq ExemptIn(s)
    BY <1>2, OfStore DEF UndoIn, AccountedIn, AccountedOf, UncommittedIn, ExemptIn, Exempt
  <1>4. WaitingIn(s) \subseteq WaitingIn(Store) \ (F.deleted \cup F.cut)
    BY <1>2, <1>3, OfStore DEF WaitingIn, WaitingOf
  <1>5. Stacked(UndoIn(s), WaitingIn(s), v)
    BY <1>3, <1>4, StackedMono
  <1>6. WaitingIn(s) \subseteq CredsOf(v)
    BY <1>1, <1>4, OfStore DEF LiveSound
  <1>7. /\ LedgerKept(s.ledger, s.fate, client) /\ Attended(s.ledger, s.fate, client, {})
        /\ Answered(s.ledger, client, ExemptIn(s))
    BY <1>2, <1>3, NowStore, OfStore DEF LedgerKept, Attended, Answered
  <1>8. LiveSound(s, {})
    BY <1>1, <1>2, <1>3, <1>5, <1>6, <1>7 DEF LiveSound
  <1>9. FileSound(s, UncommittedIn(s))
    BY <1>1, <1>2, <1>3, OfStore DEF FileSound
  <1>10. /\ ledger' = s.ledger /\ live' = s.live /\ file' = s.file /\ fate' = s.fate /\ Exempt(stored', fate') = ExemptIn(s)
         /\ StoreTyped(Store)'
    <2>1. ledger' = s.ledger /\ live' = s.live /\ file' = s.file /\ stored' = s.stored /\ fate' = s.fate
      BY <1>2
    <2> QED BY <1>2, <2>1, StoreTypedNext DEF StoreTyped, ExemptIn
  <1>11. \A t \in Tokens : Follows(s.ledger[t], ledger'[t], t \in fate'.abandoned, t \in fate'.committed)
    BY <1>10 DEF Follows
  <1>12. client' \in [Tokens -> Statuses] /\ gen' \in Nat /\ now' \in Nat /\ conn' \in Nat
    BY NowStore
  <1>13. /\ LedgerKept(ledger', fate', client') /\ Attended(ledger', fate', client', {})
         /\ Answered(ledger', client', Exempt(stored', fate'))
    BY <1>7, <1>10
  <1> QED BY <1>8, <1>9, <1>10, <1>11, <1>12, <1>13, StoreStep

\* The unlocked vault, part by part.
LEMMA NowLive ==
    ASSUME IInv, live # Locked
    PROVE  /\ IsVault(live) /\ Placed(makers, live) /\ Accounted(makers, AccountedIn(Store), live)
           /\ Stacked(UndoIn(Store), WaitingIn(Store), live) /\ WaitingIn(Store) \subseteq CredsOf(live)
           /\ fate \in Fates /\ MaxHistory \in Nat
  <1>1. LiveSound(Store, {}) /\ StoreTyped(Store)
    BY NowStore
  <1>2. IsVault(live) /\ fate \in Fates
    BY <1>1, StoreTypedIs
  <1>3. MaxHistory \in Nat
    BY PasskeyBounds
  <1> QED BY <1>1, <1>2, <1>3, OfStore DEF LiveSound

\* The credentials of an entry are those on its line.
LEMMA EntryCreds ==
    ASSUME NEW v, IsVault(v), NEW e \in DOMAIN v, NEW i \in DOMAIN Line(v[e])
    PROVE  Line(v[e])[i] \in {v[e].cred} \cup {h.cred : h \in Range(v[e].hist)} /\ Line(v[e])[i] \in Held
  <1> DEFINE n == Len(v[e].hist)
             z == Line(v[e])
  <1>1. v[e] \in Entry
    BY EntryTyped
  <1>2. /\ v[e].hist \in Seq(Snapshots) /\ n \in Nat /\ DOMAIN z = 1..n + 1
        /\ (\A j \in 1..n : z[j] = v[e].hist[j].cred /\ z[j] \in Held) /\ z[n + 1] = v[e].cred /\ v[e].cred \in Held
    BY <1>1, LineFacts
  <1>3. \A j \in 1..n : v[e].hist[j] \in Range(v[e].hist)
    BY <1>2 DEF Range
  <1>4. CASE i = n + 1
    BY <1>2, <1>4
  <1>5. CASE i # n + 1
    <2>1. i \in 1..n
      <3> HIDE DEF n, z
      <3>1. i \in 1..n + 1
        BY <1>2 DEF z
      <3> QED BY <1>2, <1>5, <3>1
    <2> QED BY <1>2, <1>3, <2>1
  <1> QED BY <1>4, <1>5

LEMMA KeepsRemoveEntry ==
    ASSUME IInv, live # Locked, NEW e \in DOMAIN live, NEW forGood \in BOOLEAN, RemoveEntry(e, forGood)
    PROVE  IInv'
  <1> DEFINE v == IF forGood THEN Without(live, e) ELSE [live EXCEPT ![e].recycled = TRUE]
             D == {live[e].cred} \cup {h.cred : h \in Range(live[e].hist)}
             F == [fate EXCEPT !.deleted = @ \cup {live[e].cred} \cup {h.cred : h \in Range(live[e].hist)}]
  <1>1. /\ live' = v /\ fate' = F
        /\ UNCHANGED <<ledger, file, gen, leases, now, conn, client, site, stored, makers, proofs>>
    BY DEF RemoveEntry
  <1>2. /\ IsVault(live) /\ Placed(makers, live) /\ Accounted(makers, AccountedIn(Store), live)
        /\ Stacked(UndoIn(Store), WaitingIn(Store), live) /\ fate \in Fates
    BY NowLive
  <1>3. D \subseteq Held
    <2> SUFFICES ASSUME NEW c \in D PROVE c \in Held
      OBVIOUS
    <2>1. c \in CredsOf(live)
      BY DEF CredsOf
    <2> QED BY <1>2, <2>1, CredsHeld
  <1>4. /\ F \in Fates /\ F.deleted = fate.deleted \cup D
        /\ F.published = fate.published /\ F.committed = fate.committed /\ F.abandoned = fate.abandoned
        /\ F.discarded = fate.discarded /\ F.cut = fate.cut
    <2>1. F = [fate EXCEPT !.deleted = @ \cup D]
      BY <1>2 DEF Fates
    <2> HIDE DEF D, F
    <2> QED BY <1>2, <1>3, <2>1 DEF Fates
  <1>5. /\ IsVault(v) /\ v # Locked /\ DOMAIN v \subseteq DOMAIN live
        /\ \A x \in DOMAIN v : v[x].cred = live[x].cred /\ v[x].hist = live[x].hist
        /\ \A x \in DOMAIN live : x # e => x \in DOMAIN v
    <2>1. CASE forGood
      <3>1. v = Without(live, e)
        BY <2>1
      <3>2. /\ IsVault(Without(live, e)) /\ DOMAIN Without(live, e) = DOMAIN live \ {e}
            /\ \A x \in DOMAIN live : x # e => Without(live, e)[x] = live[x]
        BY <1>2, WithoutTyped
      <3>3. Without(live, e) # Locked
        BY <3>2, NoneIsNoVault
      <3> HIDE DEF v
      <3> QED BY <3>1, <3>2, <3>3
    <2>2. CASE ~forGood
      <3>1. PICK E \in SUBSET Entries : live \in [E -> Entry]
        BY <1>2 DEF IsVault
      <3>2. live[e] \in Entry
        BY <3>1
      <3> DEFINE r == [live[e] EXCEPT !.recycled = TRUE]
      <3>3. r \in Entry /\ r.cred = live[e].cred /\ r.hist = live[e].hist
        BY <3>2 DEF Entry
      <3>4. v = [live EXCEPT ![e] = r]
        BY <2>2
      <3> HIDE DEF v, r
      <3>5. v \in [E -> Entry]
        BY <3>1, <3>3, <3>4
      <3>6. IsVault(v)
        BY <3>5 DEF IsVault
      <3> QED BY <3>1, <3>3, <3>4, <3>5, <3>6, NoneIsNoVault
    <2> QED BY <2>1, <2>2
  <1> HIDE DEF v, F
  <1>6. \A x \in DOMAIN v : Line(v[x]) = Line(live[x])
    BY <1>5 DEF Line
  <1>7. Placed(makers, v)
    BY <1>2, <1>5, <1>6 DEF Placed
  <1>8. Accounted(makers, AccountedIn(Store), v)
    BY <1>2, <1>5 DEF Accounted
  <1>9. Stacked(UndoIn(Store), WaitingIn(Store), v)
    BY <1>2, <1>5, <1>6 DEF Stacked
  <1>10. CredsOf(live) \subseteq CredsOf(v) \cup F.deleted \cup F.cut
    <2> SUFFICES ASSUME NEW c \in CredsOf(live) PROVE c \in CredsOf(v) \cup D
      BY <1>4
    <2>1. PICK x \in DOMAIN live : \E i \in DOMAIN Line(live[x]) : Line(live[x])[i] = c
      BY <1>2, CredsOnLine
    <2>2. CASE x = e
      BY <1>2, <2>1, <2>2, EntryCreds
    <2>3. CASE x # e
      <3>1. x \in DOMAIN v /\ Line(v[x]) = Line(live[x])
        BY <1>5, <1>6, <2>3
      <3> QED BY <1>5, <2>1, <3>1, CredsOnLine
    <2> QED BY <2>2, <2>3
  <1> QED BY <1>1, <1>4, <1>5, <1>7, <1>8, <1>9, <1>10, KeepsNewVault

\* The line of an entry whose history is pushed: its credentials, without
\* those that the limit cuts off, and the credential it has now.
LEMMA PushedLine ==
    ASSUME NEW r \in Entry, NEW q \in Entry, MaxHistory \in Nat,
           q.hist = enforce_history_limits(Append(r.hist, Snapshot(r)))
    PROVE  LET n == Len(r.hist) + 1
           IN /\ n \in Nat /\ DOMAIN Line(r) = 1..n
              /\ \E d \in 0..n : /\ DOMAIN Line(q) = 1..(n - d + 1) /\ Line(q)[n - d + 1] = q.cred
                                 /\ \A i \in 1..(n - d) : Line(q)[i] = Line(r)[i + d]
  <1> DEFINE n == Len(r.hist) + 1
             a == Append(r.hist, Snapshot(r))
  <1>1. /\ r.hist \in Seq(Snapshots) /\ n \in Nat /\ DOMAIN Line(r) = 1..n /\ Line(r)[n] = r.cred
        /\ \A i \in 1..Len(r.hist) : Line(r)[i] = r.hist[i].cred
    BY LineFacts
  <1>2. Snapshot(r) \in Snapshots /\ Snapshot(r).cred = r.cred
    BY DEF Snapshot, Snapshots, Entry
  <1>3. /\ a \in Seq(Snapshots) /\ Len(a) = n
        /\ \A i \in 1..n : a[i] = IF i = n THEN Snapshot(r) ELSE r.hist[i]
    <2> HIDE DEF n
    <2>1. n = Len(r.hist) + 1
      BY DEF n
    <2> QED BY <1>1, <1>2, <2>1
  <1>4. \A i \in 1..n : a[i].cred = Line(r)[i]
    <2> SUFFICES ASSUME NEW i \in 1..n PROVE a[i].cred = Line(r)[i]
      OBVIOUS
    <2>1. CASE i = n
      BY <1>1, <1>2, <1>3, <2>1
    <2>2. CASE i # n
      <3>1. i \in 1..Len(r.hist)
        BY <1>1, <2>2
      <3> HIDE DEF a, n
      <3> QED BY <1>1, <1>3, <2>2, <3>1
    <2> QED BY <2>1, <2>2
  <1> HIDE DEF a
  <1>5. PICK d \in 0..n : /\ Len(q.hist) = n - d
                          /\ \A i \in 1..n - d : q.hist[i] = a[i + d]
    <2>1. q.hist = enforce_history_limits(a)
      BY DEF a
    <2>2. \E d \in 0..Len(a) : /\ Len(enforce_history_limits(a)) = Len(a) - d
                              /\ \A i \in 1..Len(a) - d : enforce_history_limits(a)[i] = a[i + d]
      BY <1>3, LimitTyped
    <2> HIDE DEF n
    <2> QED BY <1>3, <2>1, <2>2
  <1>6. /\ DOMAIN Line(q) = 1..Len(q.hist) + 1 /\ Line(q)[Len(q.hist) + 1] = q.cred
        /\ \A i \in 1..Len(q.hist) : Line(q)[i] = q.hist[i].cred
    BY LineFacts
  <1>7. \A i \in 1..(n - d) : Line(q)[i] = Line(r)[i + d]
    <2> SUFFICES ASSUME NEW i \in 1..(n - d) PROVE Line(q)[i] = Line(r)[i + d]
      OBVIOUS
    <2> HIDE DEF n
    <2>1. i + d \in 1..n
      BY <1>1
    <2> QED BY <1>4, <1>5, <1>6, <2>1
  <1>8. DOMAIN Line(q) = 1..(n - d + 1) /\ Line(q)[n - d + 1] = q.cred
    BY <1>5, <1>6
  <1> HIDE DEF n
  <1> QED BY <1>1, <1>7, <1>8 DEF n

\* An entry that is edited pushes the credential it has, and keeps it.
LEMMA EditedStacked ==
    ASSUME NEW R, NEW W, NEW z, NEW u, NEW n \in Nat, NEW d \in 0..n, DOMAIN z = 1..n, DOMAIN u = 1..(n - d + 1), n >= 1,
           u[n - d + 1] = z[n], \A i \in 1..(n - d) : u[i] = z[i + d],
           \A i, j \in 1..n : i < j /\ z[i] \in W /\ z[j] # z[i] /\ z[j] \in Makers /\ R[z[j]] # None => Between(R, z, i, j),
           NEW a \in 1..(n - d + 1), NEW b \in 1..(n - d + 1),
           a < b, u[a] \in W, u[b] # u[a], u[b] \in Makers, R[u[b]] # None
    PROVE  Between(R, u, a, b)
  <1>1. a \in 1..(n - d) /\ a + d \in 1..n /\ u[a] = z[a + d]
    <2>1. a \in 1..(n - d) /\ a + d \in 1..n
      OBVIOUS
    <2> QED BY <2>1
  <1>2. PICK c \in 1..n : u[b] = z[c] /\ c >= a + d /\ (c - d = b \/ (c = n /\ b = n - d + 1))
    <2>1. CASE b = n - d + 1
      <3>1. n \in 1..n /\ n >= a + d
        BY <1>1
      <3> QED BY <2>1, <3>1
    <2>2. CASE b # n - d + 1
      <3>1. b \in 1..(n - d) /\ b + d \in 1..n /\ (b + d) - d = b /\ b + d >= a + d
        BY <2>2
      <3>2. u[b] = z[b + d]
        BY <3>1
      <3> QED BY <3>1, <3>2
    <2> QED BY <2>1, <2>2
  <1>3. a + d < c
    <2>1. c # a + d
      BY <1>1, <1>2
    <2> QED BY <1>1, <1>2, <2>1
  <1>4. Between(R, z, a + d, c)
    BY <1>1, <1>2, <1>3
  <1>5. PICK k \in (a + d)..(c - 1) : z[k] = R[z[c]].copy.cred
    BY <1>4 DEF Between
  <1>6. k - d \in 1..(n - d) /\ (k - d) + d = k /\ k - d \in a..(b - 1)
    BY <1>2, <1>3
  <1>7. u[k - d] = R[u[b]].copy.cred
    BY <1>2, <1>5, <1>6
  <1>8. ~R[u[b]].created
    BY <1>2, <1>4 DEF Between
  <1> QED BY <1>6, <1>7, <1>8 DEF Between

\* Credentials cut off the history of a vault.
LEMMA CutTyped ==
    ASSUME NEW v, IsVault(v), NEW w, NEW F \in Fates
    PROVE  LET G == [F EXCEPT !.cut = @ \cup (CredsOf(v) \ CredsOf(w))]
           IN /\ G \in Fates /\ G.cut = F.cut \cup (CredsOf(v) \ CredsOf(w))
              /\ G.published = F.published /\ G.committed = F.committed /\ G.abandoned = F.abandoned
              /\ G.discarded = F.discarded /\ G.deleted = F.deleted
  <1> DEFINE D == CredsOf(v) \ CredsOf(w)
  <1>1. D \subseteq Held
    BY CredsHeld
  <1> HIDE DEF D
  <1>2. LET G == [F EXCEPT !.cut = @ \cup D]
        IN /\ G \in Fates /\ G.cut = F.cut \cup D
           /\ G.published = F.published /\ G.committed = F.committed /\ G.abandoned = F.abandoned
           /\ G.discarded = F.discarded /\ G.deleted = F.deleted
    BY <1>1 DEF Fates
  <1> QED BY <1>2 DEF D

LEMMA KeepsEditEntry ==
    ASSUME IInv, live # Locked, NEW e \in DOMAIN live, EditEntry(e)
    PROVE  IInv'
  <1> DEFINE r == live[e]
             h == enforce_history_limits(Append(r.hist, Snapshot(r)))
             q == [r EXCEPT !.edit = @ + 1, !.hist = h]
             v == [live EXCEPT ![e] = q]
             F == [fate EXCEPT !.cut = @ \cup (CredsOf(live) \ CredsOf(v))]
  <1>1. /\ IsVault(live) /\ Placed(makers, live) /\ Accounted(makers, AccountedIn(Store), live)
        /\ Stacked(UndoIn(Store), WaitingIn(Store), live) /\ fate \in Fates /\ MaxHistory \in Nat
    BY NowLive
  <1>2. PICK E \in SUBSET Entries : live \in [E -> Entry]
    BY <1>1 DEF IsVault
  <1>3. live' = v /\ fate' = F
        /\ UNCHANGED <<ledger, file, gen, leases, now, conn, client, site, stored, makers, proofs>>
    <2>1. /\ live' = [live EXCEPT ![e].edit = @ + 1, ![e].hist = enforce_history_limits(Append(@, Snapshot(live[e])))]
          /\ fate' = [fate EXCEPT !.cut = @ \cup (CredsOf(live) \ CredsOf(live'))]
          /\ UNCHANGED <<ledger, file, gen, leases, now, conn, client, site, stored, makers, proofs>>
      BY DEF EditEntry, HistoryCuts
    <2>2. live' = v
      BY <1>2, <2>1
    <2> HIDE DEF v
    <2> QED BY <2>1, <2>2
  <1>4. r \in Entry
    BY <1>2
  <1>5. h \in Seq(Snapshots)
    <2>1. r.hist \in Seq(Snapshots) /\ Snapshot(r) \in Snapshots
      BY <1>4 DEF Snapshot, Snapshots, Entry
    <2>2. Append(r.hist, Snapshot(r)) \in Seq(Snapshots)
      BY <2>1
    <2> QED BY <1>1, <2>2, LimitTyped
  <1>6. q \in Entry /\ q.hist = h /\ q.cred = r.cred
    <2>1. r.edit \in Nat /\ r.edit + 1 \in Nat
      BY <1>4 DEF Entry
    <2> DEFINE edited(k, g) == [r EXCEPT !.edit = k, !.hist = g]
    <2>2. \A k \in Nat, g \in Seq(Snapshots) : edited(k, g) \in Entry /\ edited(k, g).hist = g /\ edited(k, g).cred = r.cred
      <3> HIDE DEF r
      <3> QED BY <1>4 DEF Entry
    <2>3. q = edited(r.edit + 1, h)
      BY DEF q
    <2> HIDE DEF h, q, r, edited
    <2> QED BY <1>5, <2>1, <2>2, <2>3
  <1>7. /\ IsVault(v) /\ v # Locked /\ DOMAIN v = DOMAIN live /\ v[e] = q /\ \A x \in DOMAIN live : x # e => v[x] = live[x]
    <2> HIDE DEF q
    <2>1. v \in [E -> Entry]
      BY <1>2, <1>6
    <2>2. IsVault(v)
      BY <2>1 DEF IsVault
    <2> QED BY <1>2, <2>2, NoneIsNoVault
  <1> DEFINE n == Len(r.hist) + 1
             z == Line(r)
             u == Line(q)
  <1>8. n \in Nat /\ DOMAIN z = 1..n /\ z[n] = r.cred /\ n >= 1
    BY <1>4, LineFacts
  <1>9. PICK d \in 0..n : /\ DOMAIN u = 1..(n - d + 1) /\ u[n - d + 1] = q.cred /\ \A i \in 1..(n - d) : u[i] = z[i + d]
    BY <1>1, <1>4, <1>6, PushedLine
  <1> HIDE DEF v, q, n, z, u, r
  <1>10. \A i \in DOMAIN u : \E j \in DOMAIN z : u[i] = z[j]
    <2> SUFFICES ASSUME NEW i \in 1..(n - d + 1) PROVE \E j \in 1..n : u[i] = z[j]
      BY <1>8, <1>9
    <2>1. CASE i = n - d + 1
      BY <1>6, <1>8, <1>9, <2>1
    <2>2. CASE i # n - d + 1
      <3>1. i \in 1..(n - d) /\ i + d \in 1..n
        BY <1>8, <2>2
      <3> QED BY <1>9, <3>1
    <2> QED BY <2>1, <2>2
  <1>11. Placed(makers, v)
    <2> SUFFICES ASSUME NEW x \in DOMAIN v
                 PROVE  /\ \A i \in DOMAIN Line(v[x]) : Line(v[x])[i] \in Makers => x \in DOMAIN makers /\ Line(v[x])[i] \in makers[x]
                        /\ x \in Makers => x \in DOMAIN makers /\ x \in makers[x]
      BY DEF Placed
    <2>1. /\ \A i \in DOMAIN Line(live[x]) : Line(live[x])[i] \in Makers => x \in DOMAIN makers /\ Line(live[x])[i] \in makers[x]
          /\ x \in Makers => x \in DOMAIN makers /\ x \in makers[x]
      BY <1>1, <1>7 DEF Placed
    <2>2. CASE x = e
      BY <1>7, <1>10, <2>1, <2>2 DEF z, u, r
    <2>3. CASE x # e
      BY <1>7, <2>1, <2>3
    <2> QED BY <2>2, <2>3
  <1>12. Accounted(makers, AccountedIn(Store), v)
    BY <1>1, <1>6, <1>7 DEF Accounted, r
  <1>13. Stacked(UndoIn(Store), WaitingIn(Store), v)
    <2> SUFFICES ASSUME NEW x \in DOMAIN v, NEW i \in DOMAIN Line(v[x]), NEW j \in DOMAIN Line(v[x]),
                        i < j, Line(v[x])[i] \in WaitingIn(Store), Line(v[x])[j] # Line(v[x])[i],
                        Line(v[x])[j] \in Makers, UndoIn(Store)[Line(v[x])[j]] # None
                 PROVE  Between(UndoIn(Store), Line(v[x]), i, j)
      BY DEF Stacked
    <2>1. CASE x = e
      <3>1. Line(v[x]) = u /\ i \in 1..(n - d + 1) /\ j \in 1..(n - d + 1)
        BY <1>7, <1>9, <2>1 DEF u
      <3>2. \A a, b \in 1..n : a < b /\ z[a] \in WaitingIn(Store) /\ z[b] # z[a] /\ z[b] \in Makers /\ UndoIn(Store)[z[b]] # None
                                 => Between(UndoIn(Store), z, a, b)
        BY <1>1, <1>8 DEF Stacked, z, r
      <3>3. u[n - d + 1] = z[n]
        BY <1>6, <1>8, <1>9
      <3> QED BY <1>8, <1>9, <3>1, <3>2, <3>3, EditedStacked
    <2>2. CASE x # e
      BY <1>1, <1>7, <2>2 DEF Stacked
    <2> QED BY <2>1, <2>2
  <1>14. /\ F \in Fates /\ F.cut = fate.cut \cup (CredsOf(live) \ CredsOf(v))
         /\ F.published = fate.published /\ F.committed = fate.committed /\ F.abandoned = fate.abandoned
         /\ F.discarded = fate.discarded /\ F.deleted = fate.deleted
    BY <1>1, CutTyped
  <1> HIDE DEF F
  <1>15. CredsOf(live) \subseteq CredsOf(v) \cup F.deleted \cup F.cut
    BY <1>14
  <1>16. fate.deleted \subseteq F.deleted /\ fate.cut \subseteq F.cut
    BY <1>14
  <1> QED BY <1>3, <1>7, <1>11, <1>12, <1>13, <1>14, <1>15, <1>16, KeepsNewVault

(***************************************************************************)
(* Registrations                                                           *)
(***************************************************************************)

\* A passkey made for maker m.
Passkey(pk, m) ==
    /\ pk.cred = m /\ pk.key = m /\ pk.backup \in SUBSET {"eligible", "state"}
    /\ pk.rp \in {id.rp : id \in Identities} \cup {Rp} /\ pk.user \in {id.user : id \in Identities} \cup {User}

LEMMA EntryOfTyped ==
    ASSUME NEW m \in Makers, NEW pk, Passkey(pk, m), NEW edit \in Nat, NEW hist \in Seq(Snapshots), NEW recycled \in BOOLEAN
    PROVE  LET q == EntryOf(pk, edit, hist, recycled) IN q \in Entry /\ q.cred = m /\ q.hist = hist
  <1>1. m \in Credentials
    BY Names
  <1> QED BY <1>1 DEF EntryOf, Entry, Passkey

LEMMA RegisteredIsEntry ==
    ASSUME NEW v, NEW rp, NEW user, RegisteredEntry(v, rp, user) # None
    PROVE  RegisteredEntry(v, rp, user) \in DOMAIN v
  <1> DEFINE S == {e \in Visible(v) : v[e].rp = rp /\ v[e].user = user}
  <1>1. S \subseteq DOMAIN v
    BY DEF Visible
  <1>2. RegisteredEntry(v, rp, user) = IF S = {} THEN None ELSE CHOOSE e \in S : TRUE
    BY DEF RegisteredEntry
  <1> HIDE DEF S
  <1> QED BY <1>1, <1>2

\* What a registration of m does to vault v: w, with rollback state rb.
Registers(v, m, rb, w) ==
    LET e == rb.entry
    IN /\ rb \in Rollback /\ rb.cred = m /\ e \in Entries
       /\ IsVault(w) /\ DOMAIN w = DOMAIN v \cup {e} /\ w[e] \in Entry /\ w[e].cred = m
       /\ \A x \in DOMAIN v : x # e => w[x] = v[x]
       /\ rb.created => e = m /\ w[e].hist = <<>>
       /\ ~rb.created => /\ e \in DOMAIN v /\ rb.copy \in Entry /\ rb.copy.cred = v[e].cred
                         /\ w[e].hist = enforce_history_limits(Append(v[e].hist, Snapshot(v[e])))

LEMMA RegisteredVault ==
    ASSUME NEW v, IsVault(v), MaxHistory \in Nat, NEW m \in Makers, NEW pk, Passkey(pk, m), m \notin DOMAIN v,
           NEW rb, rb = RollbackState(v, m, pk.rp, pk.user), NEW w, w = WithRegistration(v, m, pk)
    PROVE  Registers(v, m, rb, w)
  <1> DEFINE g == RegisteredEntry(v, pk.rp, pk.user)
  <1>1. CASE g = None
    <2> DEFINE q == CreatedEntry(pk)
    <2>1. rb = [entry |-> m, cred |-> m, created |-> TRUE, copy |-> None]
      BY <1>1 DEF RollbackState
    <2>2. rb \in Rollback /\ rb.cred = m /\ rb.entry = m /\ rb.created = TRUE /\ m \in Entries
      BY <2>1, Names DEF Rollback
    <2>3. w = With(v, m, q)
      BY <1>1 DEF WithRegistration
    <2>4. q \in Entry /\ q.cred = m /\ q.hist = <<>>
      <3>1. <<>> \in Seq(Snapshots) /\ 0 \in Nat /\ FALSE \in BOOLEAN
        OBVIOUS
      <3>2. EntryOf(pk, 0, <<>>, FALSE) \in Entry /\ EntryOf(pk, 0, <<>>, FALSE).cred = m /\ EntryOf(pk, 0, <<>>, FALSE).hist = <<>>
        <4>1. m \in Credentials
          BY Names
        <4> QED BY <3>1, <4>1 DEF EntryOf, Entry, Passkey
      <3> QED BY <3>2 DEF CreatedEntry
    <2> HIDE DEF q
    <2>5. /\ IsVault(With(v, m, q)) /\ DOMAIN With(v, m, q) = DOMAIN v \cup {m}
          /\ With(v, m, q)[m] = q /\ \A x \in DOMAIN v : x # m => With(v, m, q)[x] = v[x]
      <3>1. m \in Entries /\ q \in Entry
        BY <2>2, <2>4
      <3> QED BY <3>1, WithTyped
    <2>6. /\ IsVault(w) /\ DOMAIN w = DOMAIN v \cup {m} /\ w[m] = q /\ \A x \in DOMAIN v : x # m => w[x] = v[x]
      BY <2>3, <2>5
    <2> QED BY <2>2, <2>4, <2>6 DEF Registers
  <1>2. CASE g # None
    <2> DEFINE r == v[g]
               h == enforce_history_limits(Append(r.hist, Snapshot(r)))
               q == EntryOf(pk, r.edit, h, r.recycled)
               copy == [r EXCEPT !.hist = <<>>]
    <2>1. g \in DOMAIN v /\ g \in Entries /\ r \in Entry
      <3>1. g \in DOMAIN v
        BY <1>2, RegisteredIsEntry
      <3> QED BY <3>1, EntryTyped
    <2>2. rb = [entry |-> g, cred |-> m, created |-> FALSE, copy |-> copy]
      BY <1>2 DEF RollbackState
    <2>3. copy \in Entry /\ copy.cred = r.cred
      <3>1. r \in Entry /\ <<>> \in Seq(Snapshots)
        BY <2>1
      <3> HIDE DEF r
      <3> QED BY <3>1 DEF Entry
    <2>4. rb \in Rollback /\ rb.cred = m /\ rb.entry = g /\ rb.created = FALSE /\ rb.copy = copy
      <3> HIDE DEF copy, g
      <3> QED BY <2>1, <2>2, <2>3, Names DEF Rollback
    <2>5. w = With(v, g, q)
      BY <1>2 DEF WithRegistration
    <2>6. h \in Seq(Snapshots) /\ r.edit \in Nat /\ r.recycled \in BOOLEAN
      <3>1. r.hist \in Seq(Snapshots) /\ Snapshot(r) \in Snapshots /\ r.edit \in Nat /\ r.recycled \in BOOLEAN
        <4> HIDE DEF r
        <4> QED BY <2>1 DEF Snapshot, Snapshots, Entry
      <3>2. Append(r.hist, Snapshot(r)) \in Seq(Snapshots)
        BY <3>1
      <3> QED BY <3>1, <3>2, LimitTyped
    <2>7. q \in Entry /\ q.cred = m /\ q.hist = h
      <3> HIDE DEF h, r
      <3> QED BY <2>6, EntryOfTyped
    <2> HIDE DEF q, g, h
    <2>8. /\ IsVault(With(v, g, q)) /\ DOMAIN With(v, g, q) = DOMAIN v \cup {g}
          /\ With(v, g, q)[g] = q /\ \A x \in DOMAIN v : x # g => With(v, g, q)[x] = v[x]
      BY <2>1, <2>7, WithTyped
    <2> HIDE DEF copy
    <2>9. /\ IsVault(w) /\ DOMAIN w = DOMAIN v \cup {g} /\ w[g] = q /\ \A x \in DOMAIN v : x # g => w[x] = v[x]
      BY <2>5, <2>8
    <2> QED BY <2>1, <2>3, <2>4, <2>7, <2>9 DEF h, Registers
  <1> QED BY <1>1, <1>2

\* The makers of the entries, with m one of those of entry e.
MadeBy(mk, e, m) ==
    [x \in DOMAIN mk \cup {e} |-> IF x = e THEN (IF x \in DOMAIN mk THEN mk[x] ELSE {}) \cup {m} ELSE mk[x]]

\* A maker that has not registered anything yet.
Unused(mk, m) == \A e \in DOMAIN mk : m \notin mk[e]

LEMMA MadeByIs ==
    ASSUME NEW mk, NEW e \in Entries, NEW m \in Makers, \E E \in SUBSET Entries : mk \in [E -> SUBSET Makers]
    PROVE  LET k == MadeBy(mk, e, m)
           IN /\ DOMAIN k = DOMAIN mk \cup {e} /\ \E E \in SUBSET Entries : k \in [E -> SUBSET Makers]
              /\ \A x \in DOMAIN mk : x # e => k[x] = mk[x]
              /\ \A x \in DOMAIN mk : mk[x] \subseteq k[x]
              /\ \A x \in DOMAIN k : \A q \in k[x] : (q = m /\ x = e) \/ (x \in DOMAIN mk /\ q \in mk[x])
              /\ m \in k[e]
  <1> DEFINE k == MadeBy(mk, e, m)
  <1>1. PICK E \in SUBSET Entries : mk \in [E -> SUBSET Makers]
    OBVIOUS
  <1>2. k \in [E \cup {e} -> SUBSET Makers] /\ E \cup {e} \in SUBSET Entries
    BY <1>1 DEF MadeBy
  <1>3. \E D \in SUBSET Entries : k \in [D -> SUBSET Makers]
    BY <1>2
  <1> QED BY <1>1, <1>2, <1>3 DEF MadeBy

\* What is new is on no line and names no entry.
LEMMA NotPlaced ==
    ASSUME NEW v, NEW mk, IsVault(v), Placed(mk, v), NEW m \in Makers, Unused(mk, m)
    PROVE  /\ m \notin DOMAIN v
           /\ \A x \in DOMAIN v : v[x].cred # m /\ \A i \in DOMAIN Line(v[x]) : Line(v[x])[i] # m
  <1>1. m \notin DOMAIN v
    BY DEF Placed, Unused
  <1>2. \A x \in DOMAIN v : \A i \in DOMAIN Line(v[x]) : Line(v[x])[i] # m
    BY DEF Placed, Unused
  <1>3. \A x \in DOMAIN v : v[x].cred # m
    BY <1>2, CurrentOnLine
  <1> QED BY <1>1, <1>2, <1>3

\* A vault that a registration leaves alone: the file.
LEMMA MadeElsewhere ==
    ASSUME NEW f, IsVault(f), NEW mk, \E E \in SUBSET Entries : mk \in [E -> SUBSET Makers], NEW e \in Entries,
           NEW m \in Makers, Unused(mk, m), Placed(mk, f), NEW A, Accounted(mk, A, f), NEW M, NEW P, FileKnown(M, f, P)
    PROVE  Placed(MadeBy(mk, e, m), f) /\ Accounted(MadeBy(mk, e, m), A \cup {m}, f) /\ FileKnown(M \cup {m}, f, P)
  <1> DEFINE k == MadeBy(mk, e, m)
  <1>1. /\ DOMAIN k = DOMAIN mk \cup {e} /\ \A x \in DOMAIN mk : x # e => k[x] = mk[x]
        /\ \A x \in DOMAIN mk : mk[x] \subseteq k[x]
        /\ m \in k[e]
    BY MadeByIs
  <1> HIDE DEF k
  <1>2. Placed(k, f)
    BY <1>1 DEF Placed
  <1>3. \A x \in DOMAIN f : f[x].cred # m
    BY NotPlaced
  <1>4. \A x \in DOMAIN f : f[x].cred \in Makers => x \in DOMAIN mk
    <2> SUFFICES ASSUME NEW x \in DOMAIN f, f[x].cred \in Makers PROVE x \in DOMAIN mk
      OBVIOUS
    <2>1. Len(f[x].hist) + 1 \in DOMAIN Line(f[x]) /\ Line(f[x])[Len(f[x].hist) + 1] = f[x].cred
      BY CurrentOnLine
    <2> QED BY <2>1 DEF Placed
  <1>5. Accounted(k, A \cup {m}, f)
    <2> SUFFICES ASSUME NEW x \in DOMAIN f, f[x].cred \in Makers, k[x] = {f[x].cred} PROVE f[x].cred \in A \cup {m}
      BY DEF Accounted
    <2>1. CASE x = e
      BY <1>1, <2>1
    <2>2. CASE x # e
      BY <1>1, <1>4, <2>2 DEF Accounted
    <2> QED BY <2>1, <2>2
  <1>6. FileKnown(M \cup {m}, f, P)
    BY <1>3 DEF FileKnown
  <1> QED BY <1>2, <1>5, <1>6 DEF k

\* What holds of the vault w and the makers k once m is registered.
Enlarged(R, k, A, W, w, m) ==
    Undoable(R, k) /\ Placed(k, w) /\ Sole(k) /\ Accounted(k, A \cup {m}, w) /\ Stacked(R, W, w) /\ m \in CredsOf(w)

LEMMA RegisteredSound ==
    ASSUME NEW v, IsVault(v), MaxHistory \in Nat, NEW m \in Makers, NEW w,
           NEW mk, \E E \in SUBSET Entries : mk \in [E -> SUBSET Makers], Unused(mk, m),
           NEW R, NEW R2, NEW A, NEW W, NEW W2, Registers(v, m, R2[m], w),
           Undoable(R, mk), Placed(mk, v), Sole(mk), Accounted(mk, A, v), Stacked(R, W, v),
           \A q \in Makers : q # m => R2[q] = None \/ R2[q] = R[q],
           W2 \subseteq W \cup {m},
           NEW k, k = MadeBy(mk, R2[m].entry, m)
    PROVE  Enlarged(R2, k, A, W2, w, m)
  <1> DEFINE rb == R2[m]
             e == rb.entry
  <1>1. m \notin DOMAIN v /\ \A x \in DOMAIN v : v[x].cred # m /\ \A i \in DOMAIN Line(v[x]) : Line(v[x])[i] # m
    BY NotPlaced
  <1>2. /\ rb \in Rollback /\ rb.cred = m /\ e \in Entries
        /\ IsVault(w) /\ DOMAIN w = DOMAIN v \cup {e} /\ w[e] \in Entry /\ w[e].cred = m
        /\ \A x \in DOMAIN v : x # e => w[x] = v[x]
        /\ rb.created => e = m /\ w[e].hist = <<>>
        /\ ~rb.created => /\ e \in DOMAIN v /\ rb.copy \in Entry /\ rb.copy.cred = v[e].cred
                          /\ w[e].hist = enforce_history_limits(Append(v[e].hist, Snapshot(v[e])))
    BY DEF Registers
  <1>0. k = MadeBy(mk, e, m)
    OBVIOUS
  <1> HIDE DEF rb
  <1>3. /\ DOMAIN k = DOMAIN mk \cup {e}
        /\ \A x \in DOMAIN mk : x # e => k[x] = mk[x]
        /\ \A x \in DOMAIN mk : mk[x] \subseteq k[x]
        /\ \A x \in DOMAIN k : \A q \in k[x] : (q = m /\ x = e) \/ (x \in DOMAIN mk /\ q \in mk[x])
        /\ m \in k[e]
    <2>1. e \in Entries
      BY <1>2
    <2> DEFINE g == MadeBy(mk, e, m)
    <2> HIDE DEF e
    <2>2. /\ DOMAIN g = DOMAIN mk \cup {e}
          /\ \A x \in DOMAIN mk : x # e => g[x] = mk[x]
          /\ \A x \in DOMAIN mk : mk[x] \subseteq g[x]
          /\ \A x \in DOMAIN g : \A q \in g[x] : (q = m /\ x = e) \/ (x \in DOMAIN mk /\ q \in mk[x])
          /\ m \in g[e]
      BY <2>1, MadeByIs
    <2>3. k = g
      BY <1>0
    <2> HIDE DEF g
    <2> QED BY <2>2, <2>3
  <1>4. \A x \in DOMAIN v : v[x].cred \in Makers => x \in DOMAIN mk /\ v[x].cred \in mk[x]
    <2> SUFFICES ASSUME NEW x \in DOMAIN v, v[x].cred \in Makers PROVE x \in DOMAIN mk /\ v[x].cred \in mk[x]
      OBVIOUS
    <2>1. Len(v[x].hist) + 1 \in DOMAIN Line(v[x]) /\ Line(v[x])[Len(v[x].hist) + 1] = v[x].cred
      BY CurrentOnLine
    <2> QED BY <2>1 DEF Placed
  <1>5. Undoable(R2, k)
    <2> SUFFICES ASSUME NEW q \in Makers, R2[q] # None
                 PROVE  /\ R2[q].cred = q /\ R2[q].entry \in DOMAIN k /\ q \in k[R2[q].entry]
                        /\ ~R2[q].created => /\ R2[q].copy \in Entry /\ R2[q].copy.cred # q
                                             /\ R2[q].copy.cred \in Makers => R2[q].copy.cred \in k[R2[q].entry]
      BY DEF Undoable
    <2>1. CASE q = m
      <3>1. R2[q] = rb
        BY <2>1 DEF rb
      <3>2. ~rb.created => /\ rb.copy.cred # m /\ (rb.copy.cred \in Makers => rb.copy.cred \in k[e])
        BY <1>1, <1>2, <1>3, <1>4
      <3> QED BY <1>2, <1>3, <2>1, <3>1, <3>2
    <2>2. CASE q # m
      <3>1. /\ R2[q] = R[q] /\ R[q].cred = q /\ R[q].entry \in DOMAIN mk /\ q \in mk[R[q].entry]
            /\ ~R[q].created => /\ R[q].copy \in Entry /\ R[q].copy.cred # q
                                /\ R[q].copy.cred \in Makers => R[q].copy.cred \in mk[R[q].entry]
        BY <2>2 DEF Undoable
      <3> QED BY <1>3, <3>1
    <2> QED BY <2>1, <2>2
  <1>6. Sole(k)
    BY <1>3 DEF Sole, Unused
  <1>7. Accounted(k, A \cup {m}, w)
    <2> SUFFICES ASSUME NEW x \in DOMAIN w, w[x].cred \in Makers, k[x] = {w[x].cred} PROVE w[x].cred \in A \cup {m}
      BY DEF Accounted
    <2>1. CASE x = e
      BY <1>2, <2>1
    <2>2. CASE x # e
      BY <1>2, <1>3, <1>4, <2>2 DEF Accounted
    <2> QED BY <2>1, <2>2
  <1> DEFINE u == Line(w[e])
             z == Line(v[e])
             n == Len(v[e].hist) + 1
  <1>8. CASE rb.created
    <2>1. DOMAIN u = 1..1 /\ u[1] = m
      <3>1. /\ DOMAIN u = 1..Len(w[e].hist) + 1 /\ u[Len(w[e].hist) + 1] = w[e].cred
        BY <1>2, LineFacts
      <3>2. Len(w[e].hist) = 0
        BY <1>2, <1>8
      <3> QED BY <1>2, <3>1, <3>2
    <2> HIDE DEF u
    <2>2. Placed(k, w)
      <3> SUFFICES ASSUME NEW x \in DOMAIN w
                   PROVE  /\ \A i \in DOMAIN Line(w[x]) : Line(w[x])[i] \in Makers => x \in DOMAIN k /\ Line(w[x])[i] \in k[x]
                          /\ x \in Makers => x \in DOMAIN k /\ x \in k[x]
        BY DEF Placed
      <3>1. CASE x = e
        BY <1>2, <1>3, <1>8, <2>1, <3>1 DEF u
      <3>2. CASE x # e
        BY <1>2, <1>3, <3>2 DEF Placed
      <3> QED BY <3>1, <3>2
    <2>3. Stacked(R2, W2, w)
      <3> SUFFICES ASSUME NEW x \in DOMAIN w, NEW i \in DOMAIN Line(w[x]), NEW j \in DOMAIN Line(w[x]),
                          i < j, Line(w[x])[i] \in W2, Line(w[x])[j] # Line(w[x])[i],
                          Line(w[x])[j] \in Makers, R2[Line(w[x])[j]] # None
                   PROVE  Between(R2, Line(w[x]), i, j)
        BY DEF Stacked
      <3>1. CASE x = e
        <4>1. i \in 1..1 /\ j \in 1..1
          BY <2>1, <3>1 DEF u
        <4> QED BY <4>1
      <3>2. CASE x # e
        <4>1. x \in DOMAIN v /\ Line(w[x]) = Line(v[x])
          BY <1>2, <3>2
        <4>2. Line(v[x])[i] # m /\ Line(v[x])[j] # m
          BY <1>1, <4>1
        <4>3. Between(R, Line(v[x]), i, j) /\ R2[Line(v[x])[j]] = R[Line(v[x])[j]]
          BY <4>1, <4>2 DEF Stacked
        <4> QED BY <4>1, <4>3 DEF Between
      <3> QED BY <3>1, <3>2
    <2>4. m \in CredsOf(w)
      BY <1>2, <2>1, CredsOnLine DEF u
    <2> QED BY <1>5, <1>6, <1>7, <2>2, <2>3, <2>4 DEF Enlarged
  <1>9. CASE ~rb.created
    <2>1. v[e] \in Entry
      BY <1>2, <1>9, EntryTyped
    <2>2. n \in Nat /\ DOMAIN z = 1..n /\ z[n] = v[e].cred /\ n >= 1
      BY <2>1, LineFacts
    <2>3. PICK d \in 0..n : /\ DOMAIN u = 1..(n - d + 1) /\ u[n - d + 1] = m /\ \A i \in 1..(n - d) : u[i] = z[i + d]
      <3> DEFINE p == v[e]
                 q == w[e]
      <3>1. p \in Entry /\ q \in Entry /\ q.cred = m /\ q.hist = enforce_history_limits(Append(p.hist, Snapshot(p)))
        BY <1>2, <1>9, <2>1
      <3> HIDE DEF p, q
      <3>2. \E d \in 0..(Len(p.hist) + 1) :
              /\ DOMAIN Line(q) = 1..((Len(p.hist) + 1) - d + 1) /\ Line(q)[(Len(p.hist) + 1) - d + 1] = q.cred
              /\ \A i \in 1..((Len(p.hist) + 1) - d) : Line(q)[i] = Line(p)[i + d]
        BY <3>1, PushedLine
      <3> QED BY <3>1, <3>2 DEF p, q
    <2> HIDE DEF u, z, n
    <2>4. \A i \in DOMAIN u : (i = n - d + 1 /\ u[i] = m) \/ (i \in 1..(n - d) /\ i + d \in DOMAIN z /\ u[i] = z[i + d])
      <3> SUFFICES ASSUME NEW i \in 1..(n - d + 1)
                   PROVE  (i = n - d + 1 /\ u[i] = m) \/ (i \in 1..(n - d) /\ i + d \in 1..n /\ u[i] = z[i + d])
        BY <2>2, <2>3
      <3>1. CASE i = n - d + 1
        BY <2>3, <3>1
      <3>2. CASE i # n - d + 1
        <4>1. i \in 1..(n - d) /\ i + d \in 1..n
          BY <2>2, <3>2
        <4> QED BY <2>3, <4>1
      <3> QED BY <3>1, <3>2
    <2>5. Placed(k, w)
      <3> SUFFICES ASSUME NEW x \in DOMAIN w
                   PROVE  /\ \A i \in DOMAIN Line(w[x]) : Line(w[x])[i] \in Makers => x \in DOMAIN k /\ Line(w[x])[i] \in k[x]
                          /\ x \in Makers => x \in DOMAIN k /\ x \in k[x]
        BY DEF Placed
      <3>1. CASE x = e
        <4>1. e \in DOMAIN v
          BY <1>2, <1>9
        <4>2. /\ \A i \in DOMAIN z : z[i] \in Makers => e \in DOMAIN mk /\ z[i] \in mk[e]
              /\ e \in Makers => e \in DOMAIN mk /\ e \in mk[e]
          BY <4>1 DEF Placed, z
        <4>3. \A i \in DOMAIN u : u[i] \in Makers => e \in DOMAIN k /\ u[i] \in k[e]
          BY <1>3, <2>4, <4>2
        <4> QED BY <1>3, <3>1, <4>2, <4>3 DEF u
      <3>2. CASE x # e
        BY <1>2, <1>3, <3>2 DEF Placed
      <3> QED BY <3>1, <3>2
    <2>6. Stacked(R2, W2, w)
      <3> SUFFICES ASSUME NEW x \in DOMAIN w, NEW i \in DOMAIN Line(w[x]), NEW j \in DOMAIN Line(w[x]),
                          i < j, Line(w[x])[i] \in W2, Line(w[x])[j] # Line(w[x])[i],
                          Line(w[x])[j] \in Makers, R2[Line(w[x])[j]] # None
                   PROVE  Between(R2, Line(w[x]), i, j)
        BY DEF Stacked
      <3>1. CASE x = e
        <4>1. i \in DOMAIN u /\ j \in DOMAIN u /\ i \in 1..(n - d + 1) /\ j \in 1..(n - d + 1) /\ Line(w[x]) = u
          BY <2>3, <3>1 DEF u
        <4>2. i # n - d + 1
          BY <2>2, <4>1
        <4>3. i \in 1..(n - d) /\ i + d \in DOMAIN z /\ u[i] = z[i + d] /\ i + d \in 1..n
          BY <2>2, <2>4, <4>1, <4>2
        <4>4. CASE j = n - d + 1
          <5>1. n - d \in i..(j - 1) /\ n - d \in 1..(n - d) /\ (n - d) + d = n
            BY <2>2, <4>1, <4>3, <4>4
          <5>2. u[n - d] = z[n]
            BY <2>3, <5>1
          <5>3. u[n - d] = rb.copy.cred /\ u[j] = m
            BY <1>2, <1>9, <2>2, <2>3, <4>4, <5>2
          <5>4. R2[u[j]] = rb
            BY <5>3 DEF rb
          <5> QED BY <1>9, <4>1, <5>1, <5>3, <5>4 DEF Between
        <4>5. CASE j # n - d + 1
          <5>1. j \in 1..(n - d) /\ j + d \in DOMAIN z /\ u[j] = z[j + d] /\ j + d \in 1..n /\ i + d < j + d
            BY <2>2, <2>4, <4>1, <4>3, <4>5
          <5>2. z[i + d] # m /\ z[j + d] # m
            BY <1>1, <1>2, <1>9, <4>3, <5>1 DEF z
          <5>3. R2[z[j + d]] = R[z[j + d]] /\ z[i + d] \in W
            BY <4>1, <4>3, <5>1, <5>2
          <5>4. Between(R, z, i + d, j + d)
            BY <1>2, <1>9, <4>1, <4>3, <5>1, <5>3 DEF Stacked, z
          <5>5. PICK g \in (i + d)..((j + d) - 1) : z[g] = R[z[j + d]].copy.cred
            BY <5>4 DEF Between
          <5>6. g - d \in i..(j - 1) /\ g - d \in 1..(n - d) /\ (g - d) + d = g
            BY <2>2, <4>3, <5>1
          <5>7. u[g - d] = R2[u[j]].copy.cred /\ ~R2[u[j]].created
            BY <2>3, <5>1, <5>3, <5>4, <5>5, <5>6 DEF Between
          <5> QED BY <4>1, <5>6, <5>7 DEF Between
        <4> QED BY <4>4, <4>5
      <3>2. CASE x # e
        <4>1. x \in DOMAIN v /\ Line(w[x]) = Line(v[x])
          BY <1>2, <3>2
        <4>2. Line(v[x])[i] # m /\ Line(v[x])[j] # m
          BY <1>1, <4>1
        <4>3. Between(R, Line(v[x]), i, j) /\ R2[Line(v[x])[j]] = R[Line(v[x])[j]]
          BY <4>1, <4>2 DEF Stacked
        <4> QED BY <4>1, <4>3 DEF Between
      <3> QED BY <3>1, <3>2
    <2>7. m \in CredsOf(w)
      <3>1. n - d + 1 \in DOMAIN u
        BY <2>2, <2>3
      <3> QED BY <1>2, <2>3, <3>1, CredsOnLine DEF u
    <2> QED BY <1>5, <1>6, <1>7, <2>5, <2>6, <2>7 DEF Enlarged
  <1> QED BY <1>8, <1>9

\* A step that registers a passkey for m, who had registered nothing before.
LEMMA RegisterStep ==
    ASSUME IInv, live # Locked, NEW m \in Makers, ~Spent(m, client, leases, proofs), NEW pk, Passkey(pk, m),
           NEW rb, rb = RollbackState(live, m, pk.rp, pk.user),
           live' = WithRegistration(live, m, pk), HistoryCuts, makers' = MadeBy(makers, rb.entry, m),
           UNCHANGED <<file, stored, site, gen, now, conn, proofs>>,
           ledger' \in [Tokens -> PasskeyCeremony \cup {None}], leases' \in [Ops -> PlatformLease \cup {None}],
           client' \in [Tokens -> Statuses],
           UndoOf(ledger', leases')[m] = rb,
           \A q \in Makers : q # m => UndoOf(ledger', leases')[q] = UndoOf(ledger, leases)[q],
           m \in AccountedOf(ledger', leases', fate'),
           AccountedOf(ledger, leases, fate) \subseteq AccountedOf(ledger', leases', fate'),
           UncommittedOf(ledger', leases') \subseteq UncommittedOf(ledger, leases) \cup {m},
           \A q \in WaitingOf(ledger', client', Exempt(stored', fate')) :
             q \notin Exempt(stored', fate') /\ (q = m \/ q \in WaitingOf(ledger, client, Exempt(stored, fate))),
           LedgerKept(ledger', fate', client'), Attended(ledger', fate', client', {}),
           Answered(ledger', client', Exempt(stored', fate')),
           \A q \in Makers : q = m \/ Spent(q, client, leases, proofs) => Spent(q, client', leases', proofs'),
           LeasesKept(leases', proofs')
    PROVE  IInv'
  <1> DEFINE R == UndoOf(ledger', leases')
             A == AccountedOf(ledger', leases', fate')
             W == WaitingOf(ledger', client', Exempt(stored', fate'))
             U == UncommittedOf(ledger', leases')
  <1>1. /\ StoreTyped(Store) /\ Undoable(UndoOf(ledger, leases), makers)
        /\ Placed(makers, live) /\ Accounted(makers, AccountedOf(ledger, leases, fate), live)
        /\ Stacked(UndoOf(ledger, leases), WaitingOf(ledger, client, Exempt(stored, fate)), live)
        /\ WaitingOf(ledger, client, Exempt(stored, fate)) \subseteq CredsOf(live)
        /\ HandedOver(site, UndoOf(ledger, leases), client, leases, proofs)
        /\ site \subseteq Exempt(stored, fate)
        /\ Placed(makers, file) /\ Accounted(makers, AccountedOf(ledger, leases, fate), file)
        /\ FileKnown(UncommittedOf(ledger, leases), file, fate.published)
    BY SoundParts DEF IInv
  <1>2. /\ IsVault(live) /\ fate \in Fates /\ MaxHistory \in Nat /\ IsVault(file) /\ stored \in SUBSET Held
    BY <1>1, NowLive, StoreTypedIs
  <1>3. Unused(makers, m) /\ m \notin site
    BY <1>1 DEF IInv, AllSpent, Unused, HandedOver
  <1>4. Sole(makers) /\ \E E \in SUBSET Entries : makers \in [E -> SUBSET Makers]
    BY DEF IInv, Typed
  <1>5. Registers(live, m, rb, live')
    BY <1>1, <1>2, <1>3, NotPlaced, RegisteredVault
  <1>6. rb.entry \in Entries /\ IsVault(live') /\ live' # Locked
    BY <1>5, NoneIsNoVault DEF Registers
  <1>7. /\ fate' \in Fates /\ fate'.cut = fate.cut \cup (CredsOf(live) \ CredsOf(live'))
        /\ fate'.published = fate.published /\ fate'.deleted = fate.deleted /\ fate'.discarded = fate.discarded
    <2>1. fate' = [fate EXCEPT !.cut = @ \cup (CredsOf(live) \ CredsOf(live'))]
      BY DEF HistoryCuts
    <2> DEFINE w == live'
    <2>2. fate' = [fate EXCEPT !.cut = @ \cup (CredsOf(live) \ CredsOf(w))]
      BY <2>1
    <2> HIDE DEF w
    <2>3. LET G == [fate EXCEPT !.cut = @ \cup (CredsOf(live) \ CredsOf(w))]
          IN /\ G \in Fates /\ G.cut = fate.cut \cup (CredsOf(live) \ CredsOf(w))
             /\ G.published = fate.published /\ G.discarded = fate.discarded /\ G.deleted = fate.deleted
      BY <1>2, CutTyped
    <2> QED BY <2>2, <2>3 DEF w
  <1>8. StoreTyped(Store)'
    BY <1>2, <1>6, <1>7, StoreTypedNext
  <1> HIDE DEF R, A, W, U
  <1>9. W \subseteq WaitingOf(ledger, client, Exempt(stored, fate)) \cup {m}
    BY DEF W
  <1>10. R[m] = rb /\ \A q \in Makers : q # m => R[q] = None \/ R[q] = UndoOf(ledger, leases)[q]
    BY DEF R
  <1>11. /\ Undoable(R, makers') /\ Placed(makers', live') /\ Sole(makers')
         /\ Accounted(makers', AccountedOf(ledger, leases, fate) \cup {m}, live') /\ Stacked(R, W, live') /\ m \in CredsOf(live')
    <2> DEFINE w == live'
               k == makers'
               A0 == AccountedOf(ledger, leases, fate)
               W0 == WaitingOf(ledger, client, Exempt(stored, fate))
    <2>1. Registers(live, m, R[m], w) /\ k = MadeBy(makers, R[m].entry, m)
      BY <1>5, <1>10
    <2>2. \A q \in Makers : q # m => R[q] = None \/ R[q] = UndoOf(ledger, leases)[q]
      BY <1>10
    <2>3. Accounted(makers, A0, live) /\ Stacked(UndoOf(ledger, leases), W0, live) /\ W \subseteq W0 \cup {m}
      BY <1>1, <1>9
    <2> HIDE DEF w, k, A0, W0
    <2>4. Enlarged(R, k, A0, W, w, m)
      BY <1>1, <1>2, <1>3, <1>4, <2>1, <2>2, <2>3, RegisteredSound
    <2> QED BY <2>4 DEF Enlarged, w, k, A0
  <1>12. /\ Placed(makers', file') /\ Accounted(makers', AccountedOf(ledger, leases, fate) \cup {m}, file')
         /\ FileKnown(UncommittedOf(ledger, leases) \cup {m}, file', fate.published)
    BY <1>1, <1>2, <1>3, <1>4, <1>6, MadeElsewhere
  <1>13. Accounted(makers', A, live') /\ Accounted(makers', A, file')
    <2>1. AccountedOf(ledger, leases, fate) \cup {m} \subseteq A
      BY DEF A
    <2> QED BY <1>11, <1>12, <2>1, AccountedMono
  <1>14. FileKnown(U, file', fate'.published)
    <2>1. U \subseteq UncommittedOf(ledger, leases) \cup {m}
      BY DEF U
    <2> QED BY <1>7, <1>12, <2>1, FileKnownMono
  <1>15. W \subseteq CredsOf(live')
    <2> SUFFICES ASSUME NEW q \in W, q # m, q \notin CredsOf(live') PROVE FALSE
      BY <1>11
    <2>1. q \in CredsOf(live)
      BY <1>1, <1>9
    <2>2. q \in Exempt(stored', fate')
      BY <1>7, <2>1 DEF Exempt
    <2> QED BY <2>2 DEF W
  <1>16. HandedOver(site', R, client', leases', proofs')
    <2> SUFFICES ASSUME NEW q \in site \cap Makers PROVE R[q] = None /\ Spent(q, client', leases', proofs')
      BY DEF HandedOver
    <2>1. q # m /\ UndoOf(ledger, leases)[q] = None /\ Spent(q, client, leases, proofs)
      BY <1>1, <1>3 DEF HandedOver
    <2> QED BY <1>10, <2>1
  <1>17. site' \subseteq Exempt(stored', fate')
    BY <1>1, <1>7 DEF Exempt
  <1>18. StoreSound(Store, {})'
    <2>1. (StoreTyped(Store) /\ LedgerKept(ledger, fate, client) /\ Undoable(UndoOf(ledger, leases), makers)
      /\ (live # Locked =>
           /\ Placed(makers, live) /\ Accounted(makers, AccountedOf(ledger, leases, fate), live)
           /\ Stacked(UndoOf(ledger, leases), WaitingOf(ledger, client, Exempt(stored, fate)), live))
      /\ (WaitingOf(ledger, client, Exempt(stored, fate)) # {} =>
           live # Locked /\ WaitingOf(ledger, client, Exempt(stored, fate)) \subseteq CredsOf(live))
      /\ Attended(ledger, fate, client, {}) /\ Answered(ledger, client, Exempt(stored, fate))
      /\ HandedOver(site, UndoOf(ledger, leases), client, leases, proofs)
      /\ site \subseteq Exempt(stored, fate)
      /\ Placed(makers, file) /\ Accounted(makers, AccountedOf(ledger, leases, fate), file)
      /\ FileKnown(UncommittedOf(ledger, leases), file, fate.published))'
      BY <1>6, <1>8, <1>11, <1>12, <1>13, <1>14, <1>15, <1>16, <1>17 DEF R, A, W, U
    <2> QED BY <2>1, SoundParts, PTL
  <1>19. \E E \in SUBSET Entries : makers' \in [E -> SUBSET Makers]
    BY <1>4, <1>6, MadeByIs
  <1>20. Typed'
    <2>1. gen' \in Nat /\ now' \in Nat /\ conn' \in Nat /\ site' \in SUBSET Held /\ proofs' \in [Makers -> Nat]
      BY DEF IInv, Typed
    <2> QED BY <1>19, <2>1 DEF Typed
  <1>21. AllSpent(makers', client', leases', proofs')
    <2>1. \A x \in DOMAIN makers' : \A q \in makers'[x] : (q = m /\ x = rb.entry) \/ (x \in DOMAIN makers /\ q \in makers[x])
      BY <1>4, <1>6, MadeByIs
    <2>2. \A x \in DOMAIN makers' : \A q \in makers'[x] : q \in Makers
      BY <1>19
    <2>3. AllSpent(makers, client, leases, proofs)
      BY DEF IInv
    <2> QED BY <2>1, <2>2, <2>3 DEF AllSpent
  <1> QED BY <1>11, <1>18, <1>20, <1>21 DEF IInv

LEMMA HistoryCutsOnly ==
    ASSUME IInv, live # Locked, HistoryCuts
    PROVE  /\ fate' \in Fates /\ fate'.cut = fate.cut \cup (CredsOf(live) \ CredsOf(live'))
           /\ fate'.published = fate.published /\ fate'.committed = fate.committed /\ fate'.abandoned = fate.abandoned
           /\ fate'.deleted = fate.deleted /\ fate'.discarded = fate.discarded
           /\ Exempt(stored, fate) \subseteq Exempt(stored, fate')
  <1> DEFINE w == live'
  <1>1. fate' = [fate EXCEPT !.cut = @ \cup (CredsOf(live) \ CredsOf(w))]
    BY DEF HistoryCuts
  <1> HIDE DEF w
  <1>2. IsVault(live) /\ fate \in Fates
    BY NowLive
  <1>3. LET G == [fate EXCEPT !.cut = @ \cup (CredsOf(live) \ CredsOf(w))]
        IN /\ G \in Fates /\ G.cut = fate.cut \cup (CredsOf(live) \ CredsOf(w))
           /\ G.published = fate.published /\ G.committed = fate.committed /\ G.abandoned = fate.abandoned
           /\ G.discarded = fate.discarded /\ G.deleted = fate.deleted
    BY <1>2, CutTyped
  <1> QED BY <1>1, <1>3 DEF w, Exempt

LEMMA MaterialMade ==
    ASSUME NEW r, NEW m, NEW aaguid, create_registration_material(r, m, aaguid) # Refused
    PROVE  create_registration_material(r, m, aaguid).passkey
             = [cred |-> m, key |-> m, rp |-> r.rp, user |-> r.user, backup |-> {"eligible", "state"}]
  <1> DEFINE data == attested_authenticator_data(r.rp, CredentialBytes[m], cose_es256_public_key(PublicKey[m]), r.uv, aaguid)
             asked == validate_passkey_registration_parameters(r.user, r.alg) /\ HasValidLength(CredentialBytes[m])
             pk == [cred |-> m, key |-> m, rp |-> r.rp, user |-> r.user, backup |-> {"eligible", "state"}]
  <1>1. create_registration_material(r, m, aaguid) = IF asked THEN [passkey |-> pk, data |-> data] ELSE Refused
    BY DEF create_registration_material
  <1> HIDE DEF data, asked
  <1>2. create_registration_material(r, m, aaguid).passkey = pk
    <2> HIDE DEF pk
    <2> QED BY <1>1
  <1> QED BY <1>2

\* The passkey of a registration is made for its ceremony or operation.
LEMMA MadeIsPasskey ==
    ASSUME NEW m, NEW pk, NEW rp \in {id.rp : id \in Identities} \cup {Rp}, NEW user \in {id.user : id \in Identities} \cup {User},
           pk = [cred |-> m, key |-> m, rp |-> rp, user |-> user, backup |-> {"eligible", "state"}]
    PROVE  Passkey(pk, m) /\ pk.rp = rp /\ pk.user = user
  <1>1. {"eligible", "state"} \in SUBSET {"eligible", "state"}
    OBVIOUS
  <1>2. pk.cred = m /\ pk.key = m /\ pk.rp = rp /\ pk.user = user /\ pk.backup = {"eligible", "state"}
    OBVIOUS
  <1> QED BY <1>1, <1>2 DEF Passkey

LEMMA CeremonyPasskey ==
    ASSUME NEW r, NEW m, create_registration_with_credential_id(r, m) # Refused
    PROVE  create_registration_with_credential_id(r, m).passkey
             = [cred |-> m, key |-> m, rp |-> r.rp, user |-> r.user, backup |-> {"eligible", "state"}]
  <1> DEFINE material == IF PageAgrees(r, "create") THEN create_registration_material(r, m, Zeros(16)) ELSE Refused
             c == credential_id_bytes_from_authenticator_data(material.data)
             a == attestation_object(material.data)
             pk == material.passkey
  <1>1. create_registration_with_credential_id(r, m)
          = IF material = Refused THEN Refused ELSE [passkey |-> pk, credential_id |-> c, attestation_object |-> a]
    BY DEF create_registration_with_credential_id
  <1>2. material # Refused
    BY <1>1
  <1>3. pk = [cred |-> m, key |-> m, rp |-> r.rp, user |-> r.user, backup |-> {"eligible", "state"}]
    <2>1. material = create_registration_material(r, m, Zeros(16)) /\ create_registration_material(r, m, Zeros(16)) # Refused
      BY <1>2
    <2> QED BY <2>1, MaterialMade
  <1>4. create_registration_with_credential_id(r, m).passkey = pk
    <2> HIDE DEF pk, c, a, material
    <2> QED BY <1>1, <1>2
  <1> QED BY <1>3, <1>4

LEMMA RequestIs ==
    ASSUME NEW c, NEW t, NEW related
    PROVE  Request(c, t, related).rp = c.id.rp /\ Request(c, t, related).user = c.id.user
  <1> DEFINE u == passkey_user_verification_is_valid(c)
             data == ClientData(c.id, t)
  <1>1. Request(c, t, related)
          = [rp |-> c.id.rp, user |-> c.id.user, alg |-> c.id.alg, page |-> c.id.page, discoverable |-> c.id.discoverable,
             uv |-> u, related |-> related, data |-> data, challenge |-> t]
    BY DEF Request
  <1> HIDE DEF u, data
  <1> QED BY <1>1

LEMMA CreatedPasskey ==
    ASSUME NEW c \in PasskeyCeremony, NEW t, NEW related,
           create_registration_with_credential_id(Request(c, t, related), t) # Refused
    PROVE  LET pk == create_registration_with_credential_id(Request(c, t, related), t).passkey
           IN Passkey(pk, t) /\ pk.rp = c.id.rp /\ pk.user = c.id.user
  <1> DEFINE q == Request(c, t, related)
             pk == create_registration_with_credential_id(q, t).passkey
  <1>1. q.rp = c.id.rp /\ q.user = c.id.user
    BY RequestIs
  <1>2. c.id.rp \in {id.rp : id \in Identities} \cup {Rp} /\ c.id.user \in {id.user : id \in Identities} \cup {User}
    <2>1. c.id \in Identities
      BY DEF PasskeyCeremony
    <2> QED BY <2>1
  <1>3. pk = [cred |-> t, key |-> t, rp |-> c.id.rp, user |-> c.id.user, backup |-> {"eligible", "state"}]
    <2> HIDE DEF q
    <2>1. create_registration_with_credential_id(q, t) # Refused
      BY DEF q
    <2>2. pk = [cred |-> t, key |-> t, rp |-> q.rp, user |-> q.user, backup |-> {"eligible", "state"}]
      BY <2>1, CeremonyPasskey
    <2> QED BY <1>1, <2>2
  <1> HIDE DEF pk, q
  <1>4. Passkey(pk, t) /\ pk.rp = c.id.rp /\ pk.user = c.id.user
    BY <1>2, <1>3, MadeIsPasskey
  <1> QED BY <1>4 DEF pk, q

LEMMA KeepsCreate ==
    ASSUME IInv, NEW t \in Tokens, NEW related \in BOOLEAN, create_passkey_registration(t, related)
    PROVE  IInv'
  <1> DEFINE c == ledger[t]
             made == create_registration_with_credential_id(Request(c, t, related), t)
             pk == made.passkey
             rb == RollbackState(live, t, c.id.rp, c.id.user)
             d == [Consumed(c) EXCEPT !.durable = "mutated", !.rollback = rb]
             registers == /\ live # Locked /\ made # Refused
                          /\ live' = WithRegistration(live, t, pk) /\ HistoryCuts
                          /\ ledger' = [ledger EXCEPT ![t] = d]
                          /\ Step(t, "created") /\ Makes(rb.entry, t)
             refuses == /\ ledger' = [ledger EXCEPT ![t] = Consumed(c)] \/ ledger' = ledger
                        /\ Step(t, "failing")
                        /\ UNCHANGED <<live, fate, makers>>
  <1>1. /\ AtWork(t) /\ c # None /\ c.phase = "s4" /\ c.id.kind = "create"
        /\ registers \/ refuses
        /\ UNCHANGED <<file, gen, leases, now, conn, site, stored, proofs>>
    BY DEF create_passkey_registration, Unlocked
  <1>2. /\ c \in PasskeyCeremony /\ ledger \in [Tokens -> PasskeyCeremony \cup {None}] /\ client \in [Tokens -> Statuses]
        /\ gen \in Nat /\ now \in Nat /\ conn \in Nat /\ fate \in Fates /\ proofs \in [Makers -> Nat]
    BY <1>1, AtCeremony
  <1>3. /\ Consumed(c) \in PasskeyCeremony /\ Consumed(c).id = c.id /\ Consumed(c).phase = c.phase
        /\ Consumed(c).durable = c.durable /\ Consumed(c).rollback = c.rollback
    BY <1>2 DEF Consumed, PasskeyCeremony
  <1>4. client[t] \in Early
    BY <1>1 DEF AtWork, Early
  <1>5. CASE refuses
    <2>1. PICK e \in PasskeyCeremony :
            /\ ledger' = [ledger EXCEPT ![t] = e] /\ e.id = c.id /\ e.phase = c.phase /\ e.durable = c.durable
            /\ e.rollback = c.rollback
      <3>1. ledger = [ledger EXCEPT ![t] = c]
        BY <1>2
      <3> HIDE DEF c
      <3> QED BY <1>2, <1>3, <1>5, <3>1
    <2>2. client' = [client EXCEPT ![t] = "failing"] /\ UNCHANGED <<live, fate, makers>>
      BY <1>5 DEF Step
    <2>3. Follows(ledger[t], e, t \in fate'.abandoned, t \in fate'.committed)
      <3>1. e # None
        BY Names
      <3> QED BY <1>1, <2>1, <3>1 DEF Follows
    <2>4. /\ now' \in Nat /\ conn' \in Nat /\ fate' \in Fates /\ proofs' \in [Makers -> Nat]
          /\ \A p \in Ops : proofs'[p] = proofs[p]
      BY <1>1, <1>2, <2>2
    <2>5. /\ fate.published \subseteq fate'.published /\ fate.committed \subseteq fate'.committed
          /\ fate.abandoned \subseteq fate'.abandoned /\ fate.deleted = fate'.deleted /\ fate.discarded = fate'.discarded
          /\ fate.cut = fate'.cut
      BY <2>2
    <2>6. "failing" \in Statuses /\ "failing" \notin Early
      BY DEF Statuses, Early
    <2>7. /\ e.rollback # None <=> e.durable \in {"mutated", "saved"}
          /\ e.durable # "none" => e.id.kind = "create" /\ e.phase \in {"s4"} \cup Closed
          /\ ~(e.rollback # None /\ e.phase # "s4")
      BY <1>1, <2>1, AtCeremony
    <2> QED BY <1>1, <2>1, <2>2, <2>3, <2>4, <2>5, <2>6, <2>7, OneCeremony
  <1>6. CASE registers
    <2> HIDE DEF pk
    <2>2. Passkey(pk, t) /\ pk.rp = c.id.rp /\ pk.user = c.id.user
      <3> HIDE DEF c
      <3> QED BY <1>2, <1>6, CreatedPasskey DEF pk
    <2>3. t \in Makers /\ t \notin Ops
      BY Names
    <2>4. ~Spent(t, client, leases, proofs)
      BY <1>4, <2>3 DEF Spent, Early
    <2>5. live # Locked /\ rb = RollbackState(live, t, pk.rp, pk.user) /\ live' = WithRegistration(live, t, pk) /\ HistoryCuts
      BY <1>6, <2>2
    <2>6. makers' = MadeBy(makers, rb.entry, t)
      <3> HIDE DEF rb
      <3> QED BY <1>6 DEF Makes, MadeBy
    <2>7. rb \in Rollback /\ rb # None
      <3>1. IsVault(live) /\ MaxHistory \in Nat /\ Placed(makers, live)
        BY <2>5, NowLive
      <3>2. Unused(makers, t)
        BY <2>4 DEF IInv, AllSpent, Unused
      <3>3. Registers(live, t, rb, live')
        <4> HIDE DEF rb
        <4> QED BY <2>2, <2>3, <2>5, <3>1, <3>2, NotPlaced, RegisteredVault
      <3> QED BY <3>3, Names DEF Registers
    <2> HIDE DEF rb
    <2>8. d \in PasskeyCeremony /\ d.id = c.id /\ d.phase = "s4" /\ d.durable = "mutated" /\ d.rollback = rb /\ d # None
      <3>1. d \in PasskeyCeremony /\ d.id = c.id /\ d.phase = "s4" /\ d.durable = "mutated" /\ d.rollback = rb
        <4> DEFINE b == Consumed(c)
        <4> HIDE DEF b
        <4>1. b \in PasskeyCeremony /\ b.id = c.id /\ b.phase = "s4"
          BY <1>1, <1>3 DEF b
        <4>2. d = [b EXCEPT !.durable = "mutated", !.rollback = rb]
          BY DEF b
        <4> HIDE DEF d, c
        <4> QED BY <2>7, <4>1, <4>2 DEF PasskeyCeremony
      <3> QED BY <3>1, Names
    <2>9. ledger' = [ledger EXCEPT ![t] = d] /\ client' = [client EXCEPT ![t] = "created"]
      BY <1>6 DEF Step
    <2> HIDE DEF d
    <2>10. /\ ledger' \in [Tokens -> PasskeyCeremony \cup {None}] /\ ledger'[t] = d /\ \A x \in Tokens : x # t => ledger'[x] = ledger[x]
           /\ client' \in [Tokens -> Statuses] /\ client'[t] = "created" /\ \A x \in Tokens : x # t => client'[x] = client[x]
      <3>1. "created" \in Statuses
        BY DEF Statuses
      <3> HIDE DEF c
      <3> QED BY <1>2, <2>8, <2>9, <3>1
    <2>11. /\ fate'.published = fate.published /\ fate'.committed = fate.committed /\ fate'.abandoned = fate.abandoned
           /\ fate'.deleted = fate.deleted /\ fate'.discarded = fate.discarded
           /\ Exempt(stored, fate) \subseteq Exempt(stored', fate')
      BY <1>1, <2>5, HistoryCutsOnly
    <2>12. /\ UndoOf(ledger', leases')[t] = rb
           /\ \A q \in Makers : q # t => UndoOf(ledger', leases')[q] = UndoOf(ledger, leases)[q]
      BY <1>1, <2>3, <2>8, <2>10, Names DEF UndoOf
    <2>13. t \in AccountedOf(ledger', leases', fate')
      BY <2>3, <2>7, <2>8, <2>10 DEF AccountedOf
    <2>14. AccountedOf(ledger, leases, fate) \subseteq AccountedOf(ledger', leases', fate')
      BY <1>1, <2>7, <2>8, <2>10, <2>11, Names DEF AccountedOf
    <2>15. UncommittedOf(ledger', leases') \subseteq UncommittedOf(ledger, leases) \cup {t}
      BY <1>1, <2>10, Names DEF UncommittedOf
    <2>16. \A q \in WaitingOf(ledger', client', Exempt(stored', fate')) :
             q \notin Exempt(stored', fate') /\ (q = t \/ q \in WaitingOf(ledger, client, Exempt(stored, fate)))
      BY <2>10, <2>11 DEF WaitingOf
    <2>17. LedgerKept(ledger', fate', client') /\ Attended(ledger', fate', client', {}) /\ Answered(ledger', client', Exempt(stored', fate'))
      <3>1. LedgerKept(ledger, fate, client) /\ Attended(ledger, fate, client, {}) /\ Answered(ledger, client, Exempt(stored, fate))
        BY NowStore
      <3>2. LedgerKept(ledger', fate', client')
        BY <1>1, <2>7, <2>8, <2>10, <2>11, <3>1 DEF LedgerKept
      <3>3. Attended(ledger', fate', client', {})
        BY <1>1, <2>7, <2>8, <2>10, <2>11, <3>1 DEF Attended
      <3>4. Answered(ledger', client', Exempt(stored', fate'))
        BY <2>10, <2>11, <3>1 DEF Answered
      <3> QED BY <3>2, <3>3, <3>4
    <2>18. \A q \in Makers : q = t \/ Spent(q, client, leases, proofs) => Spent(q, client', leases', proofs')
      BY <1>1, <2>3, <2>10, Names DEF Spent
    <2>19. LeasesKept(leases', proofs') /\ leases' \in [Ops -> PlatformLease \cup {None}]
      BY <1>1 DEF IInv, Typed
    <2> HIDE DEF registers, refuses, made, c
    <2> QED BY <1>1, <2>2, <2>3, <2>4, <2>5, <2>6, <2>10, <2>12, <2>13, <2>14, <2>15, <2>16, <2>17, <2>18, <2>19, RegisterStep
  <1> QED BY <1>1, <1>5, <1>6

(***************************************************************************)
(* The actions of a platform operation                                     *)
(***************************************************************************)

\* What a step of operation p settles, and what the vaults of st hold after it.
LEMMA LeaseStep ==
    ASSUME IInv, NEW p \in Ops, NEW st, LiveSound(st, {}), st.ledger = ledger, NEW M, FileSound(st, M),
           UNCHANGED <<ledger, client, makers, now, conn>>, gen' \in Nat, live' = st.live, file' = st.file,
           StoreTyped(Store)', leases' \in [Ops -> PlatformLease \cup {None}], proofs' \in [Makers -> Nat],
           \A q \in Ops : q # p => leases'[q] = leases[q] /\ proofs'[q] = proofs[q],
           leases'[p] = None \/ leases'[p].rollback = None \/ (leases[p] # None /\ leases'[p].rollback = leases[p].rollback),
           st.live # Locked => Accounted(makers, AccountedOf(ledger', leases', fate'), st.live),
           Accounted(makers, AccountedOf(ledger', leases', fate'), st.file),
           UncommittedOf(ledger', leases') \subseteq M,
           st.fate.published \subseteq fate'.published, st.fate.abandoned \subseteq fate'.abandoned,
           st.fate.discarded \subseteq fate'.discarded, ExemptIn(st) \subseteq Exempt(stored', fate'),
           Spent(p, client, leases, proofs) => Spent(p, client, leases', proofs'),
           leases'[p] # None => proofs'[p] > 0 /\ (leases'[p].rollback # None => leases'[p].consumed),
           site' = site
             \/ (site' = site \cup {p} /\ p \in Exempt(stored', fate') /\ UndoOf(ledger', leases')[p] = None
                 /\ Spent(p, client, leases', proofs'))
    PROVE  IInv'
  <1> DEFINE R == UndoOf(ledger', leases')
             A == AccountedOf(ledger', leases', fate')
             W == WaitingOf(ledger', client', Exempt(stored', fate'))
             U == UncommittedOf(ledger', leases')
  <1>1. /\ LedgerKept(ledger, st.fate, client) /\ Attended(ledger, st.fate, client, {})
        /\ Answered(ledger, client, ExemptIn(st)) /\ HandedOver(site, UndoIn(st), client, leases, proofs)
        /\ site \subseteq ExemptIn(st) /\ StoreTyped(st)
    BY DEF LiveSound
  <1>2. \A m \in Makers : R[m] = None \/ R[m] = UndoIn(st)[m]
    <2>1. \A m \in Tokens : m \notin Ops
      BY Names
    <2> QED BY <2>1 DEF UndoIn, UndoOf, Makers
  <1>3. W \subseteq WaitingIn(st)
    BY DEF WaitingIn, WaitingOf
  <1>4. LedgerKept(ledger', fate', client')
    BY <1>1 DEF LedgerKept
  <1>5. Attended(ledger', fate', client', {})
    BY <1>1 DEF Attended
  <1>6. Answered(ledger', client', Exempt(stored', fate'))
    BY <1>1 DEF Answered
  <1>7. \A m \in Makers : Spent(m, client, leases, proofs) => Spent(m, client', leases', proofs')
    BY DEF Spent
  <1>8. HandedOver(site', R, client', leases', proofs')
    <2> SUFFICES ASSUME NEW m \in site' \cap Makers PROVE R[m] = None /\ Spent(m, client', leases', proofs')
      BY DEF HandedOver
    <2>1. CASE m \in site
      BY <1>1, <1>2, <1>7, <2>1 DEF HandedOver
    <2>2. CASE m \notin site
      BY <2>2
    <2> QED BY <2>1, <2>2
  <1>9. site' \subseteq Exempt(stored', fate')
    BY <1>1
  <1> HIDE DEF R, A, W, U
  <1>10. StoreSound(Store, {})'
    BY <1>2, <1>3, <1>4, <1>5, <1>6, <1>8, <1>9, LessOwed DEF R, A, W, U
  <1>11. Typed'
    <2>1. conn' \in Nat /\ now' \in Nat /\ client' \in [Tokens -> Statuses] /\ \E E \in SUBSET Entries : makers' \in [E -> SUBSET Makers]
      BY DEF IInv, Typed
    <2>2. site' \in SUBSET Held
      <3>1. site \in SUBSET Held /\ p \in Held
        BY Names DEF IInv, Typed, Held, Makers
      <3> QED BY <3>1
    <2> QED BY <2>1, <2>2 DEF Typed
  <1>12. LeasesKept(leases', proofs')
    <2>1. LeasesKept(leases, proofs)
      BY DEF IInv
    <2> QED BY <2>1 DEF LeasesKept
  <1>13. AllSpent(makers', client', leases', proofs')
    <2>1. AllSpent(makers, client, leases, proofs) /\ \A e \in DOMAIN makers : makers[e] \subseteq Makers
      BY DEF IInv, Typed
    <2> QED BY <1>7, <2>1 DEF AllSpent
  <1>14. Sole(makers)'
    BY DEF IInv
  <1> QED BY <1>10, <1>11, <1>12, <1>13, <1>14 DEF IInv

\* What the invariant says of the lease of an operation.
LEMMA AtOperation ==
    ASSUME IInv, NEW p \in Ops
    PROVE  /\ leases \in [Ops -> PlatformLease \cup {None}] /\ proofs \in [Makers -> Nat] /\ p \in Makers /\ p \notin Tokens
           /\ gen \in Nat /\ now \in Nat /\ conn \in Nat /\ client \in [Tokens -> Statuses]
           /\ leases[p] # None => /\ leases[p] \in PlatformLease /\ proofs[p] > 0
                                  /\ leases[p].rollback # None => leases[p].consumed
           /\ UndoIn(Store)[p] = IF leases[p] = None THEN None ELSE leases[p].rollback
           /\ Store.ledger = ledger /\ Store.live = live /\ Store.file = file /\ Store.stored = stored /\ Store.fate = fate
           /\ LiveSound(Store, {}) /\ FileSound(Store, UncommittedIn(Store)) /\ StoreTyped(Store)
  <1>1. /\ leases \in [Ops -> PlatformLease \cup {None}] /\ proofs \in [Makers -> Nat] /\ LeasesKept(leases, proofs) /\ Typed
    BY DEF IInv, Typed
  <1>2. LiveSound(Store, {}) /\ FileSound(Store, UncommittedIn(Store)) /\ StoreTyped(Store)
    BY NowStore
  <1>3. UndoIn(Store)[p] = IF leases[p] = None THEN None ELSE leases[p].rollback
    BY <1>1, <1>2, UndoInTyped
  <1>4. p \in Makers /\ p \notin Tokens
    BY Names
  <1>5. gen \in Nat /\ now \in Nat /\ conn \in Nat /\ client \in [Tokens -> Statuses]
    BY NowStore
  <1> QED BY <1>1, <1>2, <1>3, <1>4, <1>5, OfStore DEF LeasesKept

LEMMA KeepsPrepare ==
    ASSUME IInv, NEW p \in Ops, prepare_platform_passkey_operation(p)
    PROVE  IInv'
  <1> DEFINE v == IF live # Locked THEN live ELSE file
             s == StoreOf(ledger, v, file, stored, fate)
             l == [gen |-> gen', consumed |-> FALSE, rollback |-> None]
  <1>1. /\ leases[p] = None /\ proofs[p] = 0 /\ live' = v /\ gen' = (IF live # Locked THEN gen ELSE gen + 1)
        /\ leases' = [leases EXCEPT ![p] = l] /\ proofs' = [proofs EXCEPT ![p] = 1]
        /\ UNCHANGED <<ledger, file, now, conn, client, site, stored, fate, makers>>
    BY DEF prepare_platform_passkey_operation, Unlocked
  <1>2. /\ leases \in [Ops -> PlatformLease \cup {None}] /\ proofs \in [Makers -> Nat] /\ p \in Makers /\ gen \in Nat
        /\ LiveSound(Store, {}) /\ FileSound(Store, UncommittedIn(Store)) /\ StoreTyped(Store)
    BY AtOperation
  <1>3. gen' \in Nat /\ l \in PlatformLease /\ l.rollback = None /\ l # None
    <2>1. gen' \in Nat
      BY <1>1, <1>2
    <2>2. l \in PlatformLease /\ l.rollback = None
      BY <2>1 DEF PlatformLease
    <2> QED BY <2>1, <2>2, Names
  <1>4. /\ StoreTyped(s) /\ LiveSound(s, {}) /\ FileSound(s, UncommittedIn(s))
        /\ s.ledger = ledger /\ s.live = v /\ s.file = file /\ s.stored = stored /\ s.fate = fate
    <2>1. CASE live = Locked
      <3> DEFINE o == StoreOf(ledger, file, file, stored, fate)
      <3>1. /\ StoreTyped(o) /\ LiveSound(o, {}) /\ FileSound(o, UncommittedIn(o))
            /\ o.ledger = ledger /\ o.live = file /\ o.file = file /\ o.stored = stored /\ o.fate = fate
        BY <2>1, Unlocking
      <3>2. s = o /\ v = file
        BY <2>1
      <3> HIDE DEF o, s, v
      <3> QED BY <3>1, <3>2
    <2>2. CASE live # Locked
      <3>1. s = Store /\ v = live
        BY <2>2 DEF StoreOf, Store
      <3>2. /\ Store.ledger = ledger /\ Store.live = live /\ Store.file = file /\ Store.stored = stored /\ Store.fate = fate
            /\ LiveSound(Store, {}) /\ FileSound(Store, UncommittedIn(Store)) /\ StoreTyped(Store)
        BY AtOperation
      <3> HIDE DEF s, v
      <3> QED BY <3>1, <3>2
    <2> QED BY <2>1, <2>2
  <1> HIDE DEF s, v, l
  <1>5. /\ leases' \in [Ops -> PlatformLease \cup {None}] /\ proofs' \in [Makers -> Nat]
        /\ leases'[p] = l /\ proofs'[p] = 1
        /\ \A q \in Ops : q # p => leases'[q] = leases[q] /\ proofs'[q] = proofs[q]
    <2>1. \A q \in Ops : q \in Makers
      BY Names
    <2> QED BY <1>1, <1>2, <1>3, <2>1
  <1>6. /\ AccountedOf(ledger', leases', fate') = AccountedIn(s) /\ UncommittedOf(ledger', leases') = UncommittedIn(s)
        /\ Exempt(stored', fate') = ExemptIn(s)
    <2>1. AccountedOf(ledger, leases', fate) = AccountedOf(ledger, leases, fate)
      BY <1>1, <1>3, <1>5, Names DEF AccountedOf
    <2>2. UncommittedOf(ledger, leases') = UncommittedOf(ledger, leases)
      BY <1>1, <1>3, <1>5, Names DEF UncommittedOf
    <2> QED BY <1>1, <1>4, <2>1, <2>2 DEF AccountedIn, UncommittedIn, ExemptIn
  <1>7. /\ s.live # Locked => Accounted(makers, AccountedOf(ledger', leases', fate'), s.live)
        /\ Accounted(makers, AccountedOf(ledger', leases', fate'), s.file)
    BY <1>4, <1>6 DEF LiveSound, FileSound
  <1>8. StoreTyped(Store)'
    <2>1. ledger' = s.ledger /\ live' = s.live /\ file' = s.file /\ stored' = s.stored /\ fate' = s.fate
      BY <1>1, <1>4
    <2> QED BY <1>4, <2>1, StoreTypedNext DEF StoreTyped
  <1>9. ~Spent(p, client, leases, proofs)
    BY <1>1 DEF Spent
  <1>10. /\ leases'[p].rollback = None /\ proofs'[p] > 0 /\ live' = s.live /\ file' = s.file /\ site' = site
         /\ s.fate.published \subseteq fate'.published /\ s.fate.abandoned \subseteq fate'.abandoned
         /\ s.fate.discarded \subseteq fate'.discarded /\ ExemptIn(s) \subseteq Exempt(stored', fate')
         /\ UncommittedOf(ledger', leases') \subseteq UncommittedIn(s)
         /\ UNCHANGED <<ledger, client, makers, now, conn>>
    BY <1>1, <1>3, <1>4, <1>5, <1>6
  <1> QED BY <1>3, <1>4, <1>5, <1>7, <1>8, <1>9, <1>10, LeaseStep

\* An operation whose verification is consumed and that registers nothing.
LEMMA KeepsConsumed ==
    ASSUME IInv, NEW p \in Ops, leases[p] # None, leases' = [leases EXCEPT ![p].consumed = TRUE],
           UNCHANGED <<ledger, live, file, gen, now, conn, client, site, stored, fate, makers, proofs>>
    PROVE  IInv'
  <1> DEFINE l == [leases[p] EXCEPT !.consumed = TRUE]
  <1>1. /\ leases \in [Ops -> PlatformLease \cup {None}] /\ proofs \in [Makers -> Nat] /\ p \in Makers /\ gen \in Nat
        /\ leases[p] \in PlatformLease /\ proofs[p] > 0
        /\ LiveSound(Store, {}) /\ FileSound(Store, UncommittedIn(Store)) /\ StoreTyped(Store)
        /\ Store.ledger = ledger /\ Store.live = live /\ Store.file = file /\ Store.stored = stored /\ Store.fate = fate
    BY AtOperation
  <1>2. l \in PlatformLease /\ l.rollback = leases[p].rollback /\ l.consumed = TRUE /\ l # None
    <2>1. l \in PlatformLease /\ l.rollback = leases[p].rollback /\ l.consumed = TRUE
      BY <1>1 DEF PlatformLease
    <2> QED BY <2>1, Names
  <1>3. leases' = [leases EXCEPT ![p] = l]
    OBVIOUS
  <1> HIDE DEF l
  <1>4. leases' \in [Ops -> PlatformLease \cup {None}] /\ leases'[p] = l /\ \A q \in Ops : q # p => leases'[q] = leases[q]
    BY <1>1, <1>2, <1>3
  <1>5. /\ AccountedOf(ledger', leases', fate') = AccountedIn(Store) /\ UncommittedOf(ledger', leases') = UncommittedIn(Store)
        /\ Exempt(stored', fate') = ExemptIn(Store)
    <2>1. AccountedOf(ledger, leases', fate) = AccountedOf(ledger, leases, fate)
      BY <1>2, <1>4, Names DEF AccountedOf
    <2>2. UncommittedOf(ledger, leases') = UncommittedOf(ledger, leases)
      BY <1>2, <1>4, Names DEF UncommittedOf
    <2> QED BY <1>1, <2>1, <2>2 DEF AccountedIn, UncommittedIn, ExemptIn
  <1>6. /\ Store.live # Locked => Accounted(makers, AccountedOf(ledger', leases', fate'), Store.live)
        /\ Accounted(makers, AccountedOf(ledger', leases', fate'), Store.file)
    BY <1>1, <1>5 DEF LiveSound, FileSound
  <1>7. StoreTyped(Store)'
    BY <1>1, StoreTypedIs, StoreTypedNext
  <1>8. Spent(p, client, leases', proofs')
    BY <1>1, <1>2, <1>4 DEF Spent
  <1> QED BY <1>1, <1>2, <1>4, <1>5, <1>6, <1>7, <1>8, LeaseStep

LEMMA KeepsPlatformAssertion ==
    ASSUME IInv, NEW p \in Ops, create_platform_passkey_assertion_for_operation(p)
    PROVE  IInv'
  <1>1. /\ leases[p] # None /\ leases' = [leases EXCEPT ![p].consumed = TRUE]
        /\ UNCHANGED <<ledger, live, file, gen, now, conn, client, site, stored, fate, makers, proofs>>
    BY DEF create_platform_passkey_assertion_for_operation, MayConsume
  <1> QED BY <1>1, KeepsConsumed

LEMMA PlatformPasskey ==
    ASSUME NEW p, create_platform_registration_with_credential_id(PlatformRequest(p), p) # Refused
    PROVE  LET pk == create_platform_registration_with_credential_id(PlatformRequest(p), p).passkey
           IN Passkey(pk, p) /\ pk.rp = Rp /\ pk.user = User
  <1> DEFINE q == PlatformRequest(p)
             made == create_platform_registration_with_credential_id(q, p)
             material == create_registration_material(q, p, WINDOWS_PLUGIN_AUTHENTICATOR_AAGUID)
             pk == made.passkey
  <1>1. q.rp = Rp /\ q.user = User
    BY DEF PlatformRequest
  <1>2. made # Refused
    OBVIOUS
  <1> HIDE DEF q
  <1>3. made = material
    <2>1. made = IF validate_platform_relying_party(q.rp) /\ q.uv THEN material ELSE Refused
      BY DEF create_platform_registration_with_credential_id
    <2> HIDE DEF material, made
    <2> QED BY <1>2, <2>1
  <1>4. material.passkey = [cred |-> p, key |-> p, rp |-> q.rp, user |-> q.user, backup |-> {"eligible", "state"}]
    BY <1>2, <1>3, MaterialMade
  <1> HIDE DEF material, made
  <1>5. pk = [cred |-> p, key |-> p, rp |-> Rp, user |-> User, backup |-> {"eligible", "state"}]
    BY <1>1, <1>3, <1>4
  <1> HIDE DEF pk
  <1>6. Passkey(pk, p) /\ pk.rp = Rp /\ pk.user = User
    BY <1>5, MadeIsPasskey
  <1> QED BY <1>6 DEF pk, made, q

\* A platform registration keeps the invariant.
LEMMA KeepsPlatformRegister ==
    ASSUME IInv, NEW p \in Ops, register_platform_passkey_for_operation(p)
    PROVE  IInv'
  <1> DEFINE made == create_platform_registration_with_credential_id(PlatformRequest(p), p)
             pk == made.passkey
             rb == RollbackState(live, p, Rp, User)
             l == [leases[p] EXCEPT !.consumed = TRUE, !.rollback = rb]
             registers == /\ made # Refused /\ leases' = [leases EXCEPT ![p] = l]
                          /\ live' = WithRegistration(live, p, pk) /\ HistoryCuts /\ Makes(rb.entry, p)
             refuses == leases' = [leases EXCEPT ![p].consumed = TRUE] /\ UNCHANGED <<live, fate, makers>>
  <1>1. /\ leases[p] # None /\ live # Locked /\ ~leases[p].consumed
        /\ registers \/ refuses
        /\ UNCHANGED <<ledger, file, gen, now, conn, client, site, stored, proofs>>
    BY DEF register_platform_passkey_for_operation, MayConsume, Unlocked
  <1>2. /\ leases \in [Ops -> PlatformLease \cup {None}] /\ proofs \in [Makers -> Nat] /\ p \in Makers /\ p \notin Tokens
        /\ gen \in Nat /\ now \in Nat /\ conn \in Nat /\ client \in [Tokens -> Statuses]
        /\ leases[p] \in PlatformLease /\ proofs[p] > 0 /\ leases[p].rollback = None
    BY <1>1, AtOperation
  <1>3. CASE refuses
    BY <1>1, <1>3, KeepsConsumed
  <1>4. CASE registers
    <2> HIDE DEF pk
    <2>2. Passkey(pk, p) /\ pk.rp = Rp /\ pk.user = User
      BY <1>4, PlatformPasskey DEF pk
    <2>3. ~Spent(p, client, leases, proofs)
      BY <1>1 DEF Spent
    <2>4. live # Locked /\ rb = RollbackState(live, p, pk.rp, pk.user) /\ live' = WithRegistration(live, p, pk) /\ HistoryCuts
      BY <1>1, <1>4, <2>2
    <2>5. makers' = MadeBy(makers, rb.entry, p)
      <3> HIDE DEF rb
      <3> QED BY <1>4 DEF Makes, MadeBy
    <2>6. rb \in Rollback /\ rb # None
      <3>1. IsVault(live) /\ MaxHistory \in Nat /\ Placed(makers, live)
        BY <2>4, NowLive
      <3>2. Unused(makers, p)
        BY <2>3 DEF IInv, AllSpent, Unused
      <3>3. Registers(live, p, rb, live')
        <4> HIDE DEF rb
        <4> QED BY <1>2, <2>2, <2>4, <3>1, <3>2, NotPlaced, RegisteredVault
      <3> QED BY <3>3, Names DEF Registers
    <2> HIDE DEF rb
    <2>7. l \in PlatformLease /\ l.rollback = rb /\ l.consumed = TRUE /\ l # None
      <3>1. l \in PlatformLease /\ l.rollback = rb /\ l.consumed = TRUE
        BY <1>2, <2>6 DEF PlatformLease
      <3> QED BY <3>1, Names
    <2>8. leases' = [leases EXCEPT ![p] = l]
      BY <1>4
    <2> HIDE DEF l
    <2>9. /\ leases' \in [Ops -> PlatformLease \cup {None}] /\ leases'[p] = l /\ \A x \in Ops : x # p => leases'[x] = leases[x]
          /\ ledger' \in [Tokens -> PasskeyCeremony \cup {None}] /\ client' \in [Tokens -> Statuses]
      <3>1. ledger \in [Tokens -> PasskeyCeremony \cup {None}]
        BY NowStore, StoreTypedIs
      <3> QED BY <1>1, <1>2, <2>7, <2>8, <3>1
    <2>10. /\ fate'.published = fate.published /\ fate'.committed = fate.committed /\ fate'.abandoned = fate.abandoned
           /\ fate'.deleted = fate.deleted /\ fate'.discarded = fate.discarded
           /\ Exempt(stored, fate) \subseteq Exempt(stored', fate')
      BY <1>1, <2>4, HistoryCutsOnly
    <2>11. /\ UndoOf(ledger', leases')[p] = rb
           /\ \A q \in Makers : q # p => UndoOf(ledger', leases')[q] = UndoOf(ledger, leases)[q]
      BY <1>1, <1>2, <2>7, <2>9, Names DEF UndoOf
    <2>12. p \in AccountedOf(ledger', leases', fate')
      BY <1>2, <2>6, <2>7, <2>9 DEF AccountedOf
    <2>13. AccountedOf(ledger, leases, fate) \subseteq AccountedOf(ledger', leases', fate')
      BY <1>1, <2>6, <2>7, <2>9, <2>10, Names DEF AccountedOf
    <2>14. UncommittedOf(ledger', leases') \subseteq UncommittedOf(ledger, leases) \cup {p}
      BY <1>1, <2>9, Names DEF UncommittedOf
    <2>15. \A q \in WaitingOf(ledger', client', Exempt(stored', fate')) :
             q \notin Exempt(stored', fate') /\ (q = p \/ q \in WaitingOf(ledger, client, Exempt(stored, fate)))
      BY <1>1, <2>10 DEF WaitingOf
    <2>16. LedgerKept(ledger', fate', client') /\ Attended(ledger', fate', client', {}) /\ Answered(ledger', client', Exempt(stored', fate'))
      <3>1. LedgerKept(ledger, fate, client) /\ Attended(ledger, fate, client, {}) /\ Answered(ledger, client, Exempt(stored, fate))
        BY NowStore
      <3>2. LedgerKept(ledger', fate', client')
        BY <1>1, <2>10, <3>1 DEF LedgerKept
      <3>3. Attended(ledger', fate', client', {})
        BY <1>1, <2>10, <3>1 DEF Attended
      <3>4. Answered(ledger', client', Exempt(stored', fate'))
        BY <1>1, <2>10, <3>1 DEF Answered
      <3> QED BY <3>2, <3>3, <3>4
    <2>17. \A q \in Makers : q = p \/ Spent(q, client, leases, proofs) => Spent(q, client', leases', proofs')
      BY <1>1, <1>2, <2>7, <2>9, Names DEF Spent
    <2>18. LeasesKept(leases', proofs')
      <3>1. LeasesKept(leases, proofs)
        BY DEF IInv
      <3> QED BY <1>1, <1>2, <2>7, <2>9, <3>1 DEF LeasesKept
    <2> HIDE DEF registers, refuses, made
    <2> QED BY <1>1, <1>2, <2>2, <2>3, <2>4, <2>5, <2>9, <2>11, <2>12, <2>13, <2>14, <2>15, <2>16, <2>17, <2>18, RegisterStep
  <1> QED BY <1>1, <1>3, <1>4

\* A step after which operation p has nothing to roll back any more.
LEMMA SettleStep ==
    ASSUME IInv, NEW p \in Ops, leases[p] # None, NEW st, LiveSound(st, {}), st.ledger = ledger,
           NEW M, FileSound(st, M), UncommittedIn(Store) \ {p} \subseteq M,
           NEW F \in Fates, st.fate.published \subseteq F.published, st.fate.committed \subseteq F.committed,
           st.fate.abandoned \subseteq F.abandoned, st.fate.discarded \subseteq F.discarded,
           st.fate.deleted \subseteq F.deleted, st.fate.cut \subseteq F.cut,
           NEW B, (AccountedIn(st) \ {p}) \cup F.committed \cup F.published \cup F.abandoned = B,
           st.live # Locked => Accounted(makers, B, st.live), Accounted(makers, B, st.file),
           live' = st.live, file' = st.file, stored' = st.stored, fate' = F, gen' \in Nat,
           UNCHANGED <<ledger, client, makers, now, conn, proofs>>,
           NEW l \in PlatformLease \cup {None}, leases' = [leases EXCEPT ![p] = l],
           l # None => l.rollback = None /\ l.consumed,
           site' = site \/ (site' = site \cup {p} /\ p \in ExemptIn(st))
    PROVE  IInv'
  <1>1. /\ leases \in [Ops -> PlatformLease \cup {None}] /\ proofs \in [Makers -> Nat] /\ p \in Makers /\ p \notin Tokens
        /\ proofs[p] > 0 /\ StoreTyped(st)
    BY AtOperation DEF LiveSound
  <1>2. /\ leases' \in [Ops -> PlatformLease \cup {None}] /\ leases'[p] = l /\ \A q \in Ops : q # p => leases'[q] = leases[q]
    BY <1>1
  <1>3. StoreTyped(Store)'
    <2>1. /\ ledger' \in [Tokens -> PasskeyCeremony \cup {None}] /\ (live' # Locked => IsVault(live')) /\ IsVault(file')
          /\ stored' \in SUBSET Held /\ fate' \in Fates
      BY <1>1 DEF StoreTyped
    <2> QED BY <2>1, StoreTypedNext
  <1>4. B \subseteq AccountedOf(ledger', leases', fate')
    BY <1>1, <1>2, Names DEF AccountedIn, AccountedOf
  <1>5. UncommittedOf(ledger', leases') \subseteq M
    BY <1>1, <1>2, Names, OfStore DEF UncommittedOf
  <1>6. ExemptIn(st) \subseteq Exempt(stored', fate')
    BY DEF ExemptIn, Exempt
  <1>7. Spent(p, client, leases', proofs')
    BY <1>1, <1>2 DEF Spent
  <1>8. UndoOf(ledger', leases')[p] = None
    BY <1>1, <1>2 DEF UndoOf
  <1>9. proofs' \in [Makers -> Nat] /\ proofs'[p] > 0 /\ \A q \in Ops : proofs'[q] = proofs[q]
    BY <1>1
  <1> DEFINE A == AccountedOf(ledger', leases', fate')
  <1>10. (st.live # Locked => Accounted(makers, A, st.live)) /\ Accounted(makers, A, st.file)
    <2>1. B \subseteq A
      BY <1>4
    <2> HIDE DEF A
    <2>2. Accounted(makers, B, st.file) => Accounted(makers, A, st.file)
      BY <2>1, AccountedMono
    <2>3. Accounted(makers, B, st.live) => Accounted(makers, A, st.live)
      BY <2>1, AccountedMono
    <2> QED BY <2>2, <2>3
  <1>11. /\ leases'[p] = None \/ leases'[p].rollback = None
         /\ leases'[p] # None => proofs'[p] > 0 /\ (leases'[p].rollback # None => leases'[p].consumed)
         /\ \A q \in Ops : q # p => leases'[q] = leases[q] /\ proofs'[q] = proofs[q]
    BY <1>2, <1>9
  <1>12. \/ site' = site
         \/ (site' = site \cup {p} /\ p \in Exempt(stored', fate') /\ UndoOf(ledger', leases')[p] = None
                 /\ Spent(p, client, leases', proofs'))
    BY <1>6, <1>7, <1>8
  <1>13. st.fate.published \subseteq fate'.published /\ st.fate.abandoned \subseteq fate'.abandoned
         /\ st.fate.discarded \subseteq fate'.discarded
    OBVIOUS
  <1> QED BY <1>2, <1>3, <1>5, <1>6, <1>7, <1>9, <1>10, <1>11, <1>12, <1>13, LeaseStep

\* What the file holds of an operation that has not been committed was
\* published by another save.
LEMMA FileWithout ==
    ASSUME NEW mk, NEW A, NEW f, Accounted(mk, A, f), NEW M, NEW P, FileKnown(M, f, P), NEW p \in M, NEW B, (A \ {p}) \cup P \subseteq B
    PROVE  Accounted(mk, B, f)
  BY DEF Accounted, FileKnown

LEMMA FateStoreIs ==
    ASSUME NEW st, StoreTyped(st), NEW p
    PROVE  /\ [st EXCEPT !.fate.committed = @ \cup {p}]
                = StoreOf(st.ledger, st.live, st.file, st.stored, [st.fate EXCEPT !.committed = @ \cup {p}])
           /\ [st EXCEPT !.fate.published = @ \cup {p}]
                = StoreOf(st.ledger, st.live, st.file, st.stored, [st.fate EXCEPT !.published = @ \cup {p}])
  <1>1. [st EXCEPT !.fate.committed = @ \cup {p}] = [st EXCEPT !.fate = [st.fate EXCEPT !.committed = @ \cup {p}]]
    BY DEF StoreTyped
  <1>2. [st EXCEPT !.fate.published = @ \cup {p}] = [st EXCEPT !.fate = [st.fate EXCEPT !.published = @ \cup {p}]]
    BY DEF StoreTyped
  <1>3. \A y : [st EXCEPT !.fate = y] = StoreOf(st.ledger, st.live, st.file, st.stored, y)
    BY DEF StoreTyped, StoreOf
  <1> QED BY <1>1, <1>2, <1>3

\* The commit of a platform registration, and its failures, keep the
\* invariant.
LEMMA KeepsPlatformCommit ==
    ASSUME IInv, NEW p \in Ops, NEW fails \in BOOLEAN, commit_platform_passkey_registration_operation(p, fails)
    PROVE  IInv'
  <1> DEFINE rb == leases[p].rollback
             st == IF fails THEN Store ELSE SavedStore(Store, p)
             held == entry_has_passkey_credential(live, rb.entry, rb.cred)
             ok == ~fails /\ held
             w == restore_passkey_registration_rollback(live, rb)
             s == IF ok \/ w = None THEN st ELSE RestoredStore(st, w)
             F == CASE ok -> [s.fate EXCEPT !.committed = @ \cup {p}]
                    [] ~ok /\ fails -> s.fate
                    [] OTHER -> [s.fate EXCEPT !.published = @ \cup {p}]
             l == [leases[p] EXCEPT !.rollback = None]
             z == commit_platform_passkey_registration(p, rb, fails)
             settled == CASE z.ok -> [z.st EXCEPT !.fate.committed = @ \cup {p}]
                          [] ~z.ok /\ fails -> z.st
                          [] OTHER -> [z.st EXCEPT !.fate.published = @ \cup {p}]
  <1>1. /\ leases[p] # None /\ live # Locked /\ rb # None /\ Becomes(settled)
        /\ site' = (IF z.ok THEN site \cup {p} ELSE site) /\ leases' = [leases EXCEPT ![p] = l]
        /\ UNCHANGED <<gen, now, conn, client, makers, proofs>>
    BY DEF commit_platform_passkey_registration_operation, Unlocked
  <1>2. /\ leases[p] \in PlatformLease /\ leases[p].consumed = TRUE /\ p \in Makers /\ p \notin Tokens /\ gen \in Nat
        /\ UndoIn(Store)[p] = rb /\ LiveSound(Store, {}) /\ FileSound(Store, UncommittedIn(Store)) /\ StoreTyped(Store)
        /\ Store.ledger = ledger /\ Store.live = live /\ Store.file = file /\ Store.stored = stored /\ Store.fate = fate
    <2>1. leases[p] \in PlatformLease => leases[p].consumed \in BOOLEAN
      BY DEF PlatformLease
    <2> HIDE DEF z, settled, F, s, st, w, l
    <2> QED BY <1>1, <2>1, AtOperation
  <1>3. /\ LiveSound(st, {}) /\ st.live = live /\ st.ledger = ledger /\ UndoIn(st) = UndoIn(Store)
        /\ FileSound(st, IF fails THEN UncommittedIn(Store) ELSE UncommittedIn(Store) \ {p})
        /\ StoreTyped(st) /\ WaitingIn(st) \subseteq Tokens /\ (~fails => CredsOf(live) \subseteq ExemptIn(st))
    <2>1. WaitingIn(st) \subseteq Tokens
      BY DEF WaitingIn, WaitingOf
    <2>2. CASE fails
      BY <1>2, <2>1, <2>2
    <2>3. CASE ~fails
      <3> DEFINE o == SavedStore(Store, p)
      <3>1. LiveSound(o, {}) /\ FileSound(o, UncommittedIn(Store) \ {p})
        BY <1>1, <1>2, SaveSound
      <3>2. /\ StoreTyped(o) /\ o.ledger = Store.ledger /\ o.live = Store.live /\ UndoIn(o) = UndoIn(Store)
            /\ CredsOf(Store.live) \subseteq ExemptIn(o)
        BY <1>1, <1>2, SaveChanges
      <3>3. st = o
        BY <2>3
      <3> HIDE DEF o, st
      <3> QED BY <1>2, <2>1, <2>3, <3>1, <3>2, <3>3
    <2> QED BY <2>2, <2>3
  <1>4. z.ok = ok /\ z.st = s
    <2> DEFINE S0 == IF fails THEN Store ELSE Saved(Store, p)
    <2>1. S0 = st
      BY <1>2, SavedStoreIs
    <2>2. z = [ok |-> ~fails /\ entry_has_passkey_credential(S0.live, rb.entry, rb.cred),
               st |-> IF (~fails /\ entry_has_passkey_credential(S0.live, rb.entry, rb.cred))
                         \/ restore_passkey_registration_rollback(S0.live, rb) = None
                      THEN S0 ELSE [S0 EXCEPT !.live = restore_passkey_registration_rollback(S0.live, rb)]]
      BY DEF commit_platform_passkey_registration
    <2> HIDE DEF S0, st, z
    <2>3. z = [ok |-> ok, st |-> IF ok \/ w = None THEN st ELSE [st EXCEPT !.live = w]]
      BY <1>3, <2>1, <2>2
    <2>4. [st EXCEPT !.live = w] = RestoredStore(st, w)
      <3> HIDE DEF w
      <3> QED BY <1>3, RestoredStoreIs
    <2>5. z = [ok |-> ok, st |-> s]
      <3> HIDE DEF w, ok
      <3> QED BY <2>3, <2>4
    <2> HIDE DEF s, ok
    <2> QED BY <2>5
  <1>5. /\ LiveSound(s, {}) /\ s.ledger = ledger /\ StoreTyped(s) /\ (ok => s = st)
        /\ FileSound(s, IF fails THEN UncommittedIn(Store) ELSE UncommittedIn(Store) \ {p})
        /\ ~ok /\ s.live # Locked => Accounted(makers, AccountedIn(s) \ {p}, s.live)
    <2> DEFINE M == IF fails THEN UncommittedIn(Store) ELSE UncommittedIn(Store) \ {p}
    <2>1. CASE ok
      <3>1. s = st
        BY <2>1
      <3> HIDE DEF s, st
      <3> QED BY <1>3, <2>1, <3>1
    <2>2. CASE ~ok
      <3> DEFINE x == Restored(st.live, UndoIn(st)[p])
                 o == RestoredStore(st, x)
      <3>1. UndoIn(st)[p] = rb /\ UndoIn(st)[p] # None /\ st.live # Locked /\ p \notin WaitingIn(st) /\ st.live = live
        BY <1>1, <1>2, <1>3
      <3>2. s = o
        <4>1. st = StoreOf(st.ledger, st.live, st.file, st.stored, st.fate)
          BY <1>3 DEF StoreTyped, StoreOf
        <4>2. w # None => x = w
          BY <3>1 DEF Restored
        <4>3. w = None => x = st.live
          BY <3>1 DEF Restored
        <4> HIDE DEF x, w, st
        <4> QED BY <2>2, <4>1, <4>2, <4>3 DEF RestoredStore
      <3>3. /\ LiveSound(o, {}) /\ \A N : FileSound(st, N) => FileSound(o, N)
            /\ AccountedIn(o) = AccountedIn(st) /\ Accounted(makers, AccountedIn(st) \ {p}, o.live)
        <4>1. Typed /\ Sole(makers)
          BY NowStore
        <4> HIDE DEF st
        <4> QED BY <1>2, <1>3, <3>1, <4>1, RestoreSound
      <3>4. o.ledger = st.ledger
        BY StoreOfParts DEF RestoredStore
      <3>5. StoreTyped(o)
        BY <3>3 DEF LiveSound
      <3>6. FileSound(o, M)
        <4> HIDE DEF M, o, st
        <4> QED BY <1>3, <3>3 DEF M
      <3> HIDE DEF o, s, st, ok, w, M
      <3>7. LiveSound(s, {}) /\ s.ledger = ledger /\ StoreTyped(s) /\ FileSound(s, M) /\ Accounted(makers, AccountedIn(s) \ {p}, s.live)
        BY <1>3, <3>2, <3>3, <3>4, <3>5, <3>6
      <3> QED BY <2>2, <3>7 DEF M
    <2> QED BY <2>1, <2>2
  <1>6. settled = StoreOf(s.ledger, s.live, s.file, s.stored, F)
    <2>1. s = StoreOf(s.ledger, s.live, s.file, s.stored, s.fate)
      BY <1>5 DEF StoreTyped, StoreOf
    <2> DEFINE C == [s EXCEPT !.fate.committed = @ \cup {p}]
               P == [s EXCEPT !.fate.published = @ \cup {p}]
               G == [s.fate EXCEPT !.committed = @ \cup {p}]
               H == [s.fate EXCEPT !.published = @ \cup {p}]
    <2>2. settled = CASE ok -> C [] ~ok /\ fails -> s [] OTHER -> P
      <3> HIDE DEF s, ok, z
      <3> QED BY <1>4
    <2>3. F = CASE ok -> G [] ~ok /\ fails -> s.fate [] OTHER -> H
      OBVIOUS
    <2>4. C = StoreOf(s.ledger, s.live, s.file, s.stored, G) /\ P = StoreOf(s.ledger, s.live, s.file, s.stored, H)
      <3> HIDE DEF s
      <3> QED BY <1>5, FateStoreIs
    <2> HIDE DEF C, P, G, H, F, settled, s, ok
    <2> QED BY <2>1, <2>2, <2>3, <2>4
  <1>7. /\ F \in Fates /\ s.fate.published \subseteq F.published /\ s.fate.committed \subseteq F.committed
        /\ s.fate.abandoned \subseteq F.abandoned /\ s.fate.discarded \subseteq F.discarded
        /\ s.fate.deleted \subseteq F.deleted /\ s.fate.cut \subseteq F.cut
        /\ ok \/ ~fails => p \in F.committed \cup F.published
    <2>1. s.fate \in Fates /\ p \in Held
      BY <1>2, <1>5, Names DEF StoreTyped, Held
    <2> HIDE DEF s, ok
    <2>2. ASSUME NEW f \in Fates
          PROVE  LET G == [f EXCEPT !.committed = @ \cup {p}] IN
                   /\ G \in Fates /\ f.published \subseteq G.published /\ f.committed \subseteq G.committed
                   /\ f.abandoned \subseteq G.abandoned /\ f.discarded \subseteq G.discarded
                   /\ f.deleted \subseteq G.deleted /\ f.cut \subseteq G.cut /\ p \in G.committed
      BY <2>1 DEF Fates
    <2>3. ASSUME NEW f \in Fates
          PROVE  LET G == [f EXCEPT !.published = @ \cup {p}] IN
                   /\ G \in Fates /\ f.published \subseteq G.published /\ f.committed \subseteq G.committed
                   /\ f.abandoned \subseteq G.abandoned /\ f.discarded \subseteq G.discarded
                   /\ f.deleted \subseteq G.deleted /\ f.cut \subseteq G.cut /\ p \in G.published
      BY <2>1 DEF Fates
    <2>4. CASE ok
      <3>1. F = [s.fate EXCEPT !.committed = @ \cup {p}]
        BY <2>4
      <3> HIDE DEF F
      <3> QED BY <2>1, <2>2, <3>1
    <2>5. CASE ~ok /\ fails
      <3>1. F = s.fate
        BY <2>5
      <3> HIDE DEF F
      <3> QED BY <2>1, <2>5, <3>1
    <2>6. CASE ~ok /\ ~fails
      <3>1. F = [s.fate EXCEPT !.published = @ \cup {p}]
        BY <2>6
      <3> HIDE DEF F
      <3> QED BY <2>1, <2>3, <3>1
    <2> QED BY <2>4, <2>5, <2>6
  <1>8. /\ l \in PlatformLease /\ l.rollback = None /\ l.consumed = TRUE
    BY <1>2 DEF PlatformLease
  <1>9. ok => p \in ExemptIn(s)
    <2>1. Undoable(UndoIn(Store), makers)
      BY <1>2 DEF LiveSound
    <2>2. rb.cred = p
      <3> HIDE DEF rb
      <3> QED BY <1>1, <1>2, <2>1 DEF Undoable
    <2>3. held => p \in CredsOf(live)
      BY <2>2 DEF entry_has_passkey_credential, CredsOf
    <2> HIDE DEF s, st, held
    <2> QED BY <1>3, <1>5, <2>3
  <1>10. p \in UncommittedIn(Store)
    BY <1>1, <1>2, OfStore DEF UncommittedOf
  <1> DEFINE B == (AccountedIn(s) \ {p}) \cup F.committed \cup F.published \cup F.abandoned
             M == IF fails THEN UncommittedIn(Store) ELSE UncommittedIn(Store) \ {p}
  <1>11. settled = StoreOf(s.ledger, s.live, s.file, s.stored, F) /\ Becomes(settled)
    BY <1>1, <1>6
  <1>12. site' = site \/ (site' = site \cup {p} /\ p \in ExemptIn(s))
    <2> HIDE DEF s, ok, z
    <2> QED BY <1>1, <1>4, <1>9
  <1> HIDE DEF s, st, F, l, ok, w, z, settled, B
  <1>13. (s.live # Locked => Accounted(makers, B, s.live)) /\ Accounted(makers, B, s.file)
    <2>1. /\ s.live # Locked => Accounted(makers, AccountedIn(s), s.live)
          /\ Accounted(makers, AccountedIn(s), s.file) /\ (fails => FileKnown(UncommittedIn(Store), s.file, s.fate.published))
      BY <1>5 DEF LiveSound, FileSound
    <2>2. CASE ok \/ ~fails
      <3>1. AccountedIn(s) \subseteq B
        BY <1>7, <2>2 DEF B
      <3> QED BY <2>1, <3>1, AccountedMono
    <2>3. CASE ~ok /\ fails
      <3>1. AccountedIn(s) \ {p} \subseteq B /\ (AccountedIn(s) \ {p}) \cup s.fate.published \subseteq B
        BY <1>7 DEF B
      <3>2. Accounted(makers, B, s.file)
        BY <1>10, <2>1, <2>3, <3>1, FileWithout
      <3> QED BY <1>5, <2>3, <3>1, <3>2, AccountedMono
    <2> QED BY <2>2, <2>3
  <1>14. live' = s.live /\ file' = s.file /\ stored' = s.stored /\ fate' = F /\ ledger' = ledger
    BY <1>5, <1>11, StoreOfParts DEF Becomes
  <1>15. B = (AccountedIn(s) \ {p}) \cup F.committed \cup F.published \cup F.abandoned /\ UncommittedIn(Store) \ {p} \subseteq M /\ FileSound(s, M)
    BY <1>5 DEF B
  <1>16. UNCHANGED <<ledger, client, makers, now, conn, proofs>> /\ gen' \in Nat
    BY <1>1, <1>2, <1>14
  <1> HIDE DEF M
  <1> QED BY <1>1, <1>5, <1>7, <1>8, <1>12, <1>13, <1>14, <1>15, <1>16, SettleStep

\* The end of a platform operation keeps the invariant.
LEMMA KeepsEnd ==
    ASSUME IInv, NEW p \in Ops, end_platform_passkey_operation(p)
    PROVE  IInv'
  <1> DEFINE rb == leases[p].rollback
             locked == StoreOf(ledger, Locked, file, stored, Discards(fate))
             undone == RestoredStore(Store, Restored(live, rb))
             v == IF rb = None \/ live = Locked THEN live ELSE restore_passkey_registration_rollback(live, rb)
             locks == live' = Locked /\ fate' = Discards(fate)
             unlocks == live' = (IF v = None THEN live ELSE v) /\ fate' = fate
  <1>1. /\ leases[p] # None /\ leases' = [leases EXCEPT ![p] = None]
        /\ gen' = gen + 1 \/ gen' = gen
        /\ locks \/ unlocks
        /\ UNCHANGED <<ledger, file, now, conn, client, site, stored, makers, proofs>>
    BY DEF end_platform_passkey_operation, Unlocked
  <1>2. /\ p \in Makers /\ p \notin Tokens /\ gen \in Nat
        /\ UndoIn(Store)[p] = rb /\ LiveSound(Store, {}) /\ FileSound(Store, UncommittedIn(Store)) /\ StoreTyped(Store)
        /\ Store.ledger = ledger /\ Store.live = live /\ Store.file = file /\ Store.stored = stored /\ Store.fate = fate
    BY <1>1, AtOperation
  <1>3. /\ p \in UncommittedIn(Store) <=> rb # None
        /\ rb = None /\ p \in AccountedIn(Store) => p \in fate.committed \cup fate.published \cup fate.abandoned
    BY <1>1, <1>2, OfStore DEF UncommittedOf, AccountedOf
  <1> HIDE DEF locked, undone, v, rb
  <1>4. PICK s : /\ LiveSound(s, {}) /\ FileSound(s, UncommittedIn(Store)) /\ s.ledger = ledger /\ s.file = file /\ s.stored = stored
                 /\ live' = s.live /\ fate' = s.fate /\ AccountedIn(s) = AccountedIn(Store)
                 /\ fate.published \subseteq s.fate.published /\ fate.committed \subseteq s.fate.committed
                 /\ fate.abandoned \subseteq s.fate.abandoned
                 /\ rb # None /\ s.live # Locked => Accounted(makers, AccountedIn(s) \ {p}, s.live)
    <2>1. CASE locks
      <3>1. /\ LiveSound(locked, {}) /\ FileSound(locked, UncommittedIn(Store)) /\ locked.ledger = ledger /\ locked.file = file
            /\ locked.live = Locked /\ locked.stored = stored /\ locked.fate = Discards(fate)
            /\ locked.fate.published = fate.published /\ locked.fate.committed = fate.committed
            /\ locked.fate.abandoned = fate.abandoned
        BY LockedSound DEF locked
      <3>2. AccountedIn(locked) = AccountedIn(Store)
        BY <1>2, <3>1 DEF AccountedIn, AccountedOf
      <3> QED BY <2>1, <3>1, <3>2
    <2>2. CASE unlocks /\ (rb = None \/ live = Locked)
      <3>1. live' = Store.live /\ fate' = Store.fate
        BY <1>2, <2>2 DEF v
      <3> QED BY <1>2, <2>2, <3>1
    <2>3. CASE unlocks /\ rb # None /\ live # Locked
      <3>1. live' = Restored(live, rb) /\ fate' = fate
        BY <2>3 DEF Restored, v
      <3>2. /\ undone.ledger = ledger /\ undone.live = Restored(live, rb) /\ undone.file = file /\ undone.stored = stored
            /\ undone.fate = fate
        BY <1>2, StoreOfParts DEF RestoredStore, undone
      <3>3. /\ LiveSound(undone, {}) /\ \A M : FileSound(Store, M) => FileSound(undone, M)
            /\ AccountedIn(undone) = AccountedIn(Store) /\ Accounted(makers, AccountedIn(Store) \ {p}, undone.live)
        <4>1. Typed /\ Sole(makers)
          BY NowStore
        <4>2. p \notin WaitingIn(Store) /\ undone = RestoredStore(Store, Restored(Store.live, UndoIn(Store)[p]))
          BY <1>2 DEF WaitingIn, WaitingOf, undone
        <4> QED BY <1>2, <2>3, <4>1, <4>2, RestoreSound
      <3> QED BY <1>2, <3>1, <3>2, <3>3
    <2> QED BY <1>1, <2>1, <2>2, <2>3
  <1> DEFINE F == s.fate
             B == (AccountedIn(s) \ {p}) \cup F.committed \cup F.published \cup F.abandoned
             M == UncommittedIn(Store)
  <1>5. (s.live # Locked => Accounted(makers, B, s.live)) /\ Accounted(makers, B, s.file)
    <2>1. /\ s.live # Locked => Accounted(makers, AccountedIn(s), s.live)
          /\ Accounted(makers, AccountedIn(s), s.file) /\ FileKnown(M, s.file, F.published)
      BY <1>4 DEF LiveSound, FileSound
    <2>2. CASE rb = None
      <3>1. AccountedIn(s) \subseteq B
        BY <1>3, <1>4, <2>2
      <3> HIDE DEF B
      <3> QED BY <2>1, <3>1, AccountedMono
    <2>3. CASE rb # None
      <3>1. AccountedIn(s) \ {p} \subseteq B /\ (AccountedIn(s) \ {p}) \cup F.published \subseteq B /\ p \in M
        BY <1>3, <2>3
      <3> HIDE DEF B, F, M
      <3>2. Accounted(makers, B, s.file)
        BY <2>1, <3>1, FileWithout
      <3> QED BY <1>4, <2>3, <3>1, <3>2, AccountedMono
    <2> QED BY <2>2, <2>3
  <1>6. F \in Fates /\ gen' \in Nat /\ leases' = [leases EXCEPT ![p] = None]
    BY <1>1, <1>2, <1>4 DEF LiveSound, StoreTyped
  <1>7. B = (AccountedIn(s) \ {p}) \cup F.committed \cup F.published \cup F.abandoned /\ UncommittedIn(Store) \ {p} \subseteq M /\ FileSound(s, M)
    BY <1>4
  <1>8. /\ live' = s.live /\ file' = s.file /\ stored' = s.stored /\ fate' = F /\ site' = site
        /\ s.fate.published \subseteq F.published /\ s.fate.committed \subseteq F.committed
        /\ s.fate.abandoned \subseteq F.abandoned /\ s.fate.discarded \subseteq F.discarded
        /\ s.fate.deleted \subseteq F.deleted /\ s.fate.cut \subseteq F.cut
    BY <1>1, <1>4
  <1>9. UNCHANGED <<ledger, client, makers, now, conn, proofs>>
    BY <1>1
  <1> DEFINE l == None
  <1>10. l \in PlatformLease \cup {None} /\ (l # None => l.rollback = None /\ l.consumed) /\ leases' = [leases EXCEPT ![p] = l]
    BY <1>1
  <1> HIDE DEF B, F, M, l, locks, unlocks
  <1> QED BY <1>1, <1>4, <1>5, <1>6, <1>7, <1>8, <1>9, <1>10, SettleStep

(***************************************************************************)
(* Reconciliation: aborts one after another                                *)
(***************************************************************************)

\* What was handed over is in vault w where it is in vault v.
SiteKept(v, w) == \A e \in DOMAIN v : v[e].cred \in site => e \in DOMAIN w /\ w[e].cred = v[e].cred

\* A rollback keeps what was handed over: its own credential was not.
LEMMA RestoreKeepsSite ==
    ASSUME Typed, Sole(makers), NEW st, NEW late, LiveSound(st, late), st.live # Locked,
           NEW m \in Makers, UndoIn(st)[m] # None
    PROVE  /\ SiteKept(st.live, Restored(st.live, UndoIn(st)[m]))
           /\ Restored(st.live, UndoIn(st)[m]) # Locked
  <1> DEFINE R == UndoIn(st)
  <1>1. R[m] \in Rollback /\ Ready(R, makers, st.live)
    BY UndoInTyped, LiveReady DEF LiveSound
  <1>2. m \notin site
    BY DEF LiveSound, HandedOver
  <1> HIDE DEF R
  <1>3. \A x \in DOMAIN st.live : st.live[x].cred # m =>
          x \in DOMAIN Restored(st.live, R[m]) /\ Restored(st.live, R[m])[x] = st.live[x]
    BY <1>1, RestoredElsewhere DEF R
  <1>4. Restored(st.live, R[m]) # Locked
    BY <1>1, RestoredVault DEF R
  <1> QED BY <1>2, <1>3, <1>4 DEF SiteKept, R

\* An abort changes one ceremony, which it closes, and keeps what was
\* handed over.
LEMMA AbortEffects ==
    ASSUME Typed, Sole(makers), NEW st, NEW late, LiveSound(st, late), NEW t \in Tokens, st.ledger[t] # None,
           NEW next \in Closed, NEW saveFails \in BOOLEAN
    PROVE  LET s == abort_passkey_registration(st, t, next, saveFails).st
           IN /\ \A x \in Tokens : s.ledger[x] = st.ledger[x] \/ (x = t /\ s.ledger[x] # None /\ s.ledger[x].phase = next)
              /\ st.live # Locked => s.live # Locked /\ SiteKept(st.live, s.live)
  <1> DEFINE c == st.ledger[t]
             w == restore_passkey_registration_rollback(st.live, c.rollback)
             v == IF c.rollback = None THEN st.live ELSE w
             s == abort_passkey_registration(st, t, next, saveFails).st
             closed == ClosedStore(st, t, next, v)
             saves == c.rollback # None /\ c.durable = "saved"
             refused == c.durable = "committed" \/ (c.rollback # None /\ (st.live = Locked \/ v = None))
             Good(L) == \A x \in Tokens : L[x] = st.ledger[x] \/ (x = t /\ L[x] # None /\ L[x].phase = next)
  <1>1. StoreTyped(st)
    BY DEF LiveSound
  <1>2. /\ refused => s = st
        /\ ~refused /\ saves /\ saveFails => s = RestoredStore(st, v)
        /\ ~refused /\ saves /\ ~saveFails => s = Saved(closed, t)
        /\ ~refused /\ ~saves => s = closed
    BY <1>1, AbortIs
  <1>3. ~refused /\ st.live # Locked => v # Locked /\ SiteKept(st.live, v)
    <2> SUFFICES ASSUME ~refused, st.live # Locked PROVE v # Locked /\ SiteKept(st.live, v)
      OBVIOUS
    <2>1. CASE c.rollback = None
      BY <2>1 DEF SiteKept
    <2>2. CASE c.rollback # None
      <3>1. UndoIn(st)[t] = c.rollback /\ t \in Makers
        BY <1>1, UndoInTyped, Names
      <3>2. v = Restored(st.live, UndoIn(st)[t])
        BY <2>2, <3>1 DEF Restored
      <3> HIDE DEF v
      <3> QED BY <2>2, <3>1, <3>2, RestoreKeepsSite
    <2> QED BY <2>1, <2>2
  <1>4. SiteKept(st.live, st.live)
    BY DEF SiteKept
  <1> HIDE DEF v
  <1>5. (Good(closed.ledger) /\ closed.live = v /\ StoreTyped(closed)) \/ refused
    <2>1. c \in PasskeyCeremony
      BY <1>1 DEF StoreTyped
    <2>2. ClosedBy(c, next) # None /\ ClosedBy(c, next).phase = next
      BY <2>1, ClosedByTyped
    <2>3. /\ closed.ledger[t] = ClosedBy(c, next) /\ \A x \in Tokens : x # t => closed.ledger[x] = st.ledger[x]
          /\ closed.live = v /\ ((v # Locked => IsVault(v)) => StoreTyped(closed))
      BY <1>1, CloseChanges
    <2>4. ~refused => (v # Locked => IsVault(v))
      <3>1. CASE c.rollback = None
        BY <1>1, <3>1 DEF v, StoreTyped
      <3>2. CASE c.rollback # None
        <4>1. UndoIn(st)[t] = c.rollback /\ t \in Makers /\ UndoIn(st) \in [Makers -> Rollback \cup {None}]
          BY <1>1, UndoInTyped, Names
        <4>2. ~refused => v = Restored(st.live, UndoIn(st)[t]) /\ st.live # Locked
          BY <3>2, <4>1 DEF Restored, v
        <4>3. ~refused => Ready(UndoIn(st), makers, st.live)
          BY <4>2, LiveReady
        <4> QED BY <3>2, <4>1, <4>2, <4>3, RestoredVault
      <3> QED BY <3>1, <3>2
    <2> HIDE DEF closed, refused
    <2> QED BY <2>2, <2>3, <2>4
  <1>6. CASE refused
    BY <1>2, <1>4, <1>6
  <1> DEFINE Done == Good(s.ledger) /\ (st.live # Locked => s.live # Locked /\ SiteKept(st.live, s.live))
  <1>7. CASE ~refused /\ saves /\ saveFails
    <2>1. s = RestoredStore(st, v)
      BY <1>2, <1>7
    <2>2. Done
      <3> HIDE DEF s, refused
      <3>1. s.ledger = st.ledger /\ s.live = v
        BY <2>1, StoreOfParts DEF RestoredStore
      <3> QED BY <1>3, <1>7, <3>1
    <2> QED BY <2>2
  <1>8. CASE ~refused /\ saves /\ ~saveFails
    <2>1. s.ledger = closed.ledger /\ s.live = closed.live
      <3>1. s = SavedStore(closed, t)
        <4>1. s = Saved(closed, t) /\ StoreTyped(closed)
          BY <1>2, <1>5, <1>8
        <4> HIDE DEF s, closed
        <4> QED BY <4>1, SavedStoreIs
      <3> HIDE DEF s, closed
      <3> QED BY <3>1, StoreOfParts DEF SavedStore
    <2>2. Done
      <3> HIDE DEF s, closed, refused, saves, Good
      <3> QED BY <1>3, <1>5, <1>8, <2>1
    <2> QED BY <2>2
  <1>9. CASE ~refused /\ ~saves
    <2>1. s = closed
      BY <1>2, <1>9
    <2>2. Done
      <3> HIDE DEF s, closed, refused, saves, Good
      <3> QED BY <1>3, <1>5, <1>9, <2>1
    <2> QED BY <2>2
  <1> QED BY <1>6, <1>7, <1>8, <1>9

OneBack(st, t, fails) == abort_passkey_registration(st, t, "failed", t \in fails).st
RolledBack(base, seq, fails) ==
    FoldLeft(LAMBDA st, t : abort_passkey_registration(st, t, "failed", t \in fails).st, base, seq)

\* A function of the sets of positions of seq, by which the fold is defined.
FoldBody(g, base, seq, fails, s) == IF s = {} THEN base ELSE OneBack(g[s \ {Max(s)}], seq[Max(s)], fails)
IsFold(g, base, seq, fails, S) == g = [s \in SUBSET S |-> FoldBody(g, base, seq, fails, s)]
FoldOf(base, seq, fails, S) == CHOOSE g : IsFold(g, base, seq, fails, S)

LEMMA RolledBackIs ==
    ASSUME NEW base, NEW seq, NEW fails
    PROVE  RolledBack(base, seq, fails) = FoldOf(base, seq, fails, DOMAIN seq)[DOMAIN seq]
  BY DEF RolledBack, FoldOf, FoldLeft, MapThenFoldSet, OneBack, FoldBody, IsFold

\* A finite set of numbers has a greatest.
LEMMA MaxIn ==
    ASSUME NEW S \in SUBSET Nat, IsFiniteSet(S), S # {}
    PROVE  Max(S) \in S
  <1> DEFINE Bad == {s \in SUBSET S : s # {} /\ \A x \in s : \E y \in s : ~ (x >= y)}
  <1>1. Bad = {}
    <2> SUFFICES ASSUME Bad # {} PROVE FALSE
      OBVIOUS
    <2>1. IsWellFoundedOn(StrictSubsetOrdering(S), SUBSET S)
      BY FS_StrictSubsetOrderingWellFounded, FS_FiniteSubsetsOfFinite
    <2>2. PICK s \in Bad : \A y \in Bad : <<y, s>> \notin StrictSubsetOrdering(S)
      <3> HIDE DEF Bad
      <3>1. Bad \subseteq SUBSET S
        BY DEF Bad
      <3> QED BY <2>1, <3>1, WFMin
    <2>3. PICK x \in s : TRUE
      OBVIOUS
    <2>4. CASE s = {x}
      BY <2>4
    <2>5. CASE s # {x}
      <3>1. <<s \ {x}, s>> \in StrictSubsetOrdering(S)
        BY <2>3 DEF StrictSubsetOrdering
      <3>2. s \ {x} \notin Bad
        BY <3>1, <2>2
      <3>3. PICK m \in s \ {x} : \A y \in s \ {x} : m >= y
        BY <3>2, <2>3, <2>5
      <3>4. (\A y \in s : m >= y) \/ (\A y \in s : x >= y)
        BY <3>3, <2>3
      <3> QED BY <3>3, <3>4, <2>3
    <2> QED BY <2>4, <2>5
  <1>2. \E x \in S : \A y \in S : x >= y
    BY <1>1
  <1> QED BY <1>2 DEF Max

\* Two such functions agree.
LEMMA FoldUnique ==
    ASSUME NEW base, NEW seq, NEW fails, NEW S \in SUBSET Nat, IsFiniteSet(S), NEW T \in SUBSET Nat, IsFiniteSet(T),
           NEW g, IsFold(g, base, seq, fails, S), NEW h, IsFold(h, base, seq, fails, T), S \subseteq T
    PROVE  \A s \in SUBSET S : g[s] = h[s]
  <1> DEFINE Bad == {s \in SUBSET S : g[s] # h[s]}
  <1> SUFFICES ASSUME Bad # {} PROVE FALSE
    OBVIOUS
  <1>1. IsWellFoundedOn(StrictSubsetOrdering(S), SUBSET S)
    BY FS_StrictSubsetOrderingWellFounded, FS_FiniteSubsetsOfFinite
  <1>2. PICK s \in Bad : \A y \in Bad : <<y, s>> \notin StrictSubsetOrdering(S)
    <2> HIDE DEF Bad
    <2>1. Bad \subseteq SUBSET S
      BY DEF Bad
    <2> QED BY <1>1, <2>1, WFMin
  <1>3. g[s] = FoldBody(g, base, seq, fails, s) /\ h[s] = FoldBody(h, base, seq, fails, s)
    BY DEF IsFold
  <1>4. CASE s = {}
    BY <1>3, <1>4 DEF FoldBody
  <1>5. CASE s # {}
    <2> DEFINE r == s \ {Max(s)}
    <2>1. Max(s) \in s
      BY <1>5, MaxIn, FS_Subset
    <2>2. <<r, s>> \in StrictSubsetOrdering(S)
      BY <2>1 DEF StrictSubsetOrdering
    <2>3. g[r] = h[r]
      BY <2>2, <1>2
    <2> QED BY <1>3, <1>5, <2>3 DEF FoldBody
  <1> QED BY <1>4, <1>5

\* There is one.
LEMMA FoldExists ==
    ASSUME NEW base, NEW seq, NEW fails, NEW S \in SUBSET Nat, IsFiniteSet(S)
    PROVE  \E g : IsFold(g, base, seq, fails, S)
  <1> DEFINE Bad == {T \in SUBSET S : ~ \E g : IsFold(g, base, seq, fails, T)}
  <1> SUFFICES ASSUME Bad # {} PROVE FALSE
    OBVIOUS
  <1>1. IsWellFoundedOn(StrictSubsetOrdering(S), SUBSET S)
    BY FS_StrictSubsetOrderingWellFounded, FS_FiniteSubsetsOfFinite
  <1>2. PICK T \in Bad : \A y \in Bad : <<y, T>> \notin StrictSubsetOrdering(S)
    <2> HIDE DEF Bad
    <2>1. Bad \subseteq SUBSET S
      BY DEF Bad
    <2> QED BY <1>1, <2>1, WFMin
  <1> DEFINE part(s) == CHOOSE g : IsFold(g, base, seq, fails, s)
             last == IF T = {} THEN base ELSE OneBack(part(T \ {Max(T)})[T \ {Max(T)}], seq[Max(T)], fails)
             G == [s \in SUBSET T |-> IF s = T THEN last ELSE part(s)[s]]
  <1>3. \A s \in SUBSET T : s # T => IsFold(part(s), base, seq, fails, s)
    <2> TAKE s \in SUBSET T
    <2> SUFFICES ASSUME s # T PROVE IsFold(part(s), base, seq, fails, s)
      OBVIOUS
    <2>1. <<s, T>> \in StrictSubsetOrdering(S)
      BY DEF StrictSubsetOrdering
    <2>2. s \notin Bad /\ s \in SUBSET S
      BY <2>1, <1>2
    <2>3. \E g : IsFold(g, base, seq, fails, s)
      BY <2>2
    <2> QED BY <2>3
  <1>4. ASSUME NEW s \in SUBSET T, s # {} PROVE Max(s) \in s /\ s \ {Max(s)} \in SUBSET T /\ s \ {Max(s)} # T
    BY <1>4, MaxIn, FS_Subset
  <1>5. ASSUME NEW s \in SUBSET T PROVE G[s] = FoldBody(G, base, seq, fails, s)
    <2>1. CASE s = {}
      <3>1. CASE s = T
        BY <2>1, <3>1 DEF FoldBody
      <3>2. CASE s # T
        <4>1. IsFold(part(s), base, seq, fails, s)
          BY <3>2, <1>3
        <4>2. part(s)[s] = FoldBody(part(s), base, seq, fails, s)
          <5> HIDE DEF part
          <5> QED BY <4>1 DEF IsFold
        <4>3. G[s] = part(s)[s]
          <5> HIDE DEF part
          <5> QED BY <3>2
        <4> HIDE DEF part, G
        <4> QED BY <2>1, <4>2, <4>3 DEF FoldBody
      <3> QED BY <3>1, <3>2
    <2>2. CASE s # {}
      <3> DEFINE r == s \ {Max(s)}
      <3>1. r \in SUBSET T /\ r # T /\ r \subseteq s
        BY <2>2, <1>4
      <3>2. IsFold(part(r), base, seq, fails, r)
        BY <3>1, <1>3
      <3>3. G[r] = part(r)[r]
        BY <3>1
      <3>4. CASE s = T
        BY <3>4, <3>3, <2>2 DEF FoldBody
      <3>5. CASE s # T
        <4>1. IsFold(part(s), base, seq, fails, s)
          BY <3>5, <1>3
        <4>2. part(r)[r] = part(s)[r]
          <5> DEFINE h == part(r)
                     k == part(s)
          <5>1. IsFiniteSet(r) /\ IsFiniteSet(s) /\ r \in SUBSET Nat /\ s \in SUBSET Nat
            BY <3>1, FS_Subset
          <5>2. IsFold(h, base, seq, fails, r) /\ IsFold(k, base, seq, fails, s) /\ r \subseteq s
            BY <3>1, <3>2, <4>1
          <5> HIDE DEF part, r, h, k
          <5>3. \A x \in SUBSET r : h[x] = k[x]
            BY <5>1, <5>2, FoldUnique
          <5>4. h[r] = k[r]
            BY <5>3
          <5> QED BY <5>4 DEF h, k
        <4>3. part(s)[s] = FoldBody(part(s), base, seq, fails, s)
          BY <4>1 DEF IsFold
        <4>4. G[s] = part(s)[s]
          BY <3>5
        <4> HIDE DEF part, G
        <4> QED BY <4>2, <4>3, <4>4, <3>3, <2>2 DEF FoldBody
      <3> QED BY <3>4, <3>5
    <2> QED BY <2>1, <2>2
  <1>6. IsFold(G, base, seq, fails, T)
    <2>1. G = [s \in SUBSET T |-> G[s]]
      OBVIOUS
    <2> HIDE DEF G
    <2> QED BY <1>5, <2>1 DEF IsFold
  <1> HIDE DEF G
  <1> QED BY <1>2, <1>6

LEMMA SequenceOf ==
    ASSUME NEW T, IsFiniteSet(T)
    PROVE  /\ DOMAIN SetToSeq(T) \in SUBSET Nat /\ IsFiniteSet(DOMAIN SetToSeq(T))
           /\ \A i \in DOMAIN SetToSeq(T) : SetToSeq(T)[i] \in T
  <1> DEFINE n == Cardinality(T)
  <1>1. n \in Nat /\ ExistsBijection(1..n, T)
    BY FS_CardinalityType
  <1>2. \E f \in [1..n -> T] : IsInjective(f)
    BY <1>1 DEF ExistsBijection, Bijection, Injection
  <1>3. SetToSeq(T) \in [1..n -> T]
    BY <1>2 DEF SetToSeq
  <1>4. IsFiniteSet(1..n)
    BY <1>1, FS_Interval
  <1> HIDE DEF n
  <1> QED BY <1>1, <1>3, <1>4

\* What holds between two aborts of a reconciliation of ceremonies T: the
\* others are as they were marked, and what was handed over is there.
Midway(st, T, mk, v) ==
    /\ StoreSound(st, T)
    /\ \A t \in Tokens : st.ledger[t] = mk[t] \/ (t \in T /\ st.ledger[t] # None /\ st.ledger[t].phase = "failed")
    /\ v # Locked => st.live # Locked /\ SiteKept(v, st.live)

LEMMA MidwayStep ==
    ASSUME Typed, Sole(makers), NEW T \in SUBSET Tokens, NEW mk, \A t \in T : mk[t] # None, NEW v, NEW st, Midway(st, T, mk, v),
           NEW t \in T, NEW b \in BOOLEAN, NEW s, s = abort_passkey_registration(st, t, "failed", b).st
    PROVE  Midway(s, T, mk, v)
  <1>1. /\ StoreSound(st, T) /\ t \in Tokens /\ st.ledger[t] # None /\ "failed" \in Closed /\ LiveSound(st, T)
        /\ T \cup {t} = T
    BY DEF Midway, Closed, StoreSound
  <1>2. StoreSound(s, T)
    <2> DEFINE w == abort_passkey_registration(st, t, "failed", b).st
    <2>1. StoreSound(w, T \cup {t})
      <3> HIDE DEF w
      <3> QED BY <1>1, AbortSound DEF w
    <2> HIDE DEF w
    <2>2. s = w
      BY DEF w
    <2> QED BY <1>1, <2>1, <2>2
  <1>3. /\ \A x \in Tokens : s.ledger[x] = st.ledger[x] \/ (x = t /\ s.ledger[x] # None /\ s.ledger[x].phase = "failed")
        /\ st.live # Locked => s.live # Locked /\ SiteKept(st.live, s.live)
    BY <1>1, AbortEffects
  <1>4. v # Locked => s.live # Locked /\ SiteKept(v, s.live)
    BY <1>3 DEF Midway, SiteKept
  <1> QED BY <1>2, <1>3, <1>4 DEF Midway

LEMMA MidwayAll ==
    ASSUME Typed, Sole(makers), NEW T \in SUBSET Tokens, NEW mk, \A t \in T : mk[t] # None, NEW v,
           NEW base, Midway(base, T, mk, v), NEW fails,
           NEW seq, DOMAIN seq \in SUBSET Nat, IsFiniteSet(DOMAIN seq), \A i \in DOMAIN seq : seq[i] \in T
    PROVE  Midway(RolledBack(base, seq, fails), T, mk, v)
  <1> DEFINE S == DOMAIN seq
             g == FoldOf(base, seq, fails, S)
             Bad == {s \in SUBSET S : ~Midway(g[s], T, mk, v)}
  <1>1. IsFold(g, base, seq, fails, S)
    BY FoldExists DEF FoldOf
  <1>2. \A s \in SUBSET S : g[s] = FoldBody(g, base, seq, fails, s)
    <2> HIDE DEF g
    <2> QED BY <1>1 DEF IsFold
  <1>3. RolledBack(base, seq, fails) = g[S]
    BY RolledBackIs
  <1> HIDE DEF g
  <1>4. Bad = {}
    <2> SUFFICES ASSUME Bad # {} PROVE FALSE
      OBVIOUS
    <2>1. IsWellFoundedOn(StrictSubsetOrdering(S), SUBSET S)
      BY FS_StrictSubsetOrderingWellFounded, FS_FiniteSubsetsOfFinite
    <2>2. PICK s \in Bad : \A y \in Bad : <<y, s>> \notin StrictSubsetOrdering(S)
      <3> HIDE DEF Bad
      <3>1. Bad \subseteq SUBSET S
        BY DEF Bad
      <3> QED BY <2>1, <3>1, WFMin
    <2>3. CASE s = {}
      BY <1>2, <2>3 DEF FoldBody
    <2>4. CASE s # {}
      <3> DEFINE r == s \ {Max(s)}
                 t == seq[Max(s)]
                 b == t \in fails
                 o == g[r]
                 w == abort_passkey_registration(o, t, "failed", b).st
      <3>1. Max(s) \in s
        BY <2>4, MaxIn, FS_Subset
      <3>2. <<r, s>> \in StrictSubsetOrdering(S)
        BY <3>1 DEF StrictSubsetOrdering
      <3>3. Midway(o, T, mk, v)
        BY <2>2, <3>2
      <3>4. t \in T /\ b \in BOOLEAN
        BY <3>1
      <3>5. g[s] = w
        BY <1>2, <2>4 DEF FoldBody, OneBack
      <3>6. ~Midway(g[s], T, mk, v)
        BY <2>2
      <3> DEFINE q == w
      <3>7. q = abort_passkey_registration(o, t, "failed", b).st
        OBVIOUS
      <3> HIDE DEF q, w, o, b, t, r
      <3>8. Midway(q, T, mk, v)
        BY <3>3, <3>4, <3>7, MidwayStep
      <3> QED BY <3>5, <3>6, <3>8 DEF q
    <2> QED BY <2>3, <2>4
  <1> QED BY <1>3, <1>4

\* The ledger with the deliveries left open marked as unknown.
Marks(L) ==
    /\ L \in [Tokens -> PasskeyCeremony \cup {None}]
    /\ \A t \in Tokens :
         \/ L[t] = ledger[t]
         \/ /\ ledger[t] # None /\ ledger[t].durable = "committed" /\ ledger[t].phase = "s4"
            /\ L[t] # None /\ L[t].id = ledger[t].id /\ L[t].phase = "delivered"
            /\ L[t].durable = "committed" /\ L[t].rollback = ledger[t].rollback

LEMMA MarksThem ==
    ASSUME ledger \in [Tokens -> PasskeyCeremony \cup {None}],
           NEW due \in SUBSET Tokens, \A t \in due : ledger[t] # None /\ ledger[t].phase = "s4"
    PROVE  Marks([t \in Tokens |-> IF t \in due /\ ledger[t].durable = "committed"
                                   THEN [ledger[t] EXCEPT !.phase = "delivered", !.delivery = "unknown"] ELSE ledger[t]])
  <1> DEFINE L == [t \in Tokens |-> IF t \in due /\ ledger[t].durable = "committed"
                                   THEN [ledger[t] EXCEPT !.phase = "delivered", !.delivery = "unknown"] ELSE ledger[t]]
  <1>1. ASSUME NEW t \in Tokens
        PROVE  \/ L[t] = ledger[t]
               \/ /\ ledger[t] # None /\ ledger[t].durable = "committed" /\ ledger[t].phase = "s4"
                  /\ L[t] \in PasskeyCeremony /\ L[t] # None /\ L[t].id = ledger[t].id /\ L[t].phase = "delivered"
                  /\ L[t].durable = "committed" /\ L[t].rollback = ledger[t].rollback
    <2>1. CASE t \in due /\ ledger[t].durable = "committed"
      <3> DEFINE c == ledger[t]
                 d == [c EXCEPT !.phase = "delivered", !.delivery = "unknown"]
      <3>1. c \in PasskeyCeremony /\ L[t] = d
        BY <2>1
      <3>2. d \in PasskeyCeremony /\ d.id = c.id /\ d.phase = "delivered" /\ d.durable = c.durable /\ d.rollback = c.rollback
        <4> HIDE DEF c
        <4> QED BY <3>1 DEF PasskeyCeremony, Closed
      <3> HIDE DEF d, L
      <3> QED BY <2>1, <3>1, <3>2, Names
    <2>2. CASE ~(t \in due /\ ledger[t].durable = "committed")
      BY <2>2
    <2> QED BY <2>1, <2>2
  <1>2. L = [t \in Tokens |-> L[t]]
    OBVIOUS
  <1>3. Marks(L)
    <2> HIDE DEF L
    <2>1. \A t \in Tokens : L[t] \in PasskeyCeremony \cup {None}
      BY <1>1
    <2>2. L \in [Tokens -> PasskeyCeremony \cup {None}]
      BY <1>2, <2>1
    <2> QED BY <1>1, <2>2 DEF Marks
  <1> QED BY <1>3

MarkedStore(L) == StoreOf(L, live, file, stored, fate)

LEMMA MarkedSound ==
    ASSUME IInv, NEW L, Marks(L), NEW T \in SUBSET Tokens
    PROVE  Midway(MarkedStore(L), T, L, live) /\ StoreTyped(MarkedStore(L))
  <1> DEFINE s == MarkedStore(L)
  <1>1. LiveSound(Store, {}) /\ FileSound(Store, UncommittedIn(Store)) /\ StoreTyped(Store)
        /\ Typed /\ LedgerKept(ledger, fate, client) /\ Attended(ledger, fate, client, {}) /\ Answered(ledger, client, Exempt(stored, fate))
    BY NowStore
  <1>2. /\ ledger \in [Tokens -> PasskeyCeremony \cup {None}] /\ (live # Locked => IsVault(live)) /\ IsVault(file)
        /\ stored \in SUBSET Held /\ fate \in Fates
    BY <1>1, StoreTypedIs
  <1>3. \A t \in Tokens :
          \/ L[t] = ledger[t]
          \/ /\ ledger[t] # None /\ ledger[t].durable = "committed" /\ ledger[t].phase = "s4"
             /\ L[t] # None /\ L[t].id = ledger[t].id /\ L[t].phase = "delivered"
             /\ L[t].durable = "committed" /\ L[t].rollback = ledger[t].rollback
    BY DEF Marks
  <1>4. L \in [Tokens -> PasskeyCeremony \cup {None}]
    BY DEF Marks
  <1>5. /\ s.ledger = L /\ s.live = live /\ s.file = file /\ s.stored = stored /\ s.fate = fate /\ StoreTyped(s)
    BY <1>2, <1>4, StoreOfParts DEF MarkedStore
  <1> HIDE DEF s
  <1>6. \A t \in Tokens : ledger[t] # None /\ ledger[t].durable = "committed" => ledger[t].rollback = None
    BY <1>1 DEF LedgerKept
  <1>7. UndoIn(s) = UndoIn(Store)
    <2>1. \A m \in Makers : UndoOf(L, leases)[m] = UndoOf(ledger, leases)[m]
      BY <1>3, <1>6, Names DEF UndoOf
    <2>2. UndoOf(L, leases) = [m \in Makers |-> UndoOf(L, leases)[m]] /\ UndoOf(ledger, leases) = [m \in Makers |-> UndoOf(ledger, leases)[m]]
      BY DEF UndoOf
    <2> QED BY <1>5, <2>1, <2>2, OfStore DEF UndoIn
  <1>8. AccountedIn(s) = AccountedIn(Store)
    <2>1. AccountedOf(L, leases, fate) = AccountedOf(ledger, leases, fate)
      BY <1>3, <1>6, Names DEF AccountedOf
    <2> QED BY <1>5, <2>1, OfStore DEF AccountedIn
  <1>9. UncommittedIn(s) = UncommittedIn(Store)
    <2>1. UncommittedOf(L, leases) = UncommittedOf(ledger, leases)
      BY <1>3, Names DEF UncommittedOf
    <2> QED BY <1>5, <2>1, OfStore DEF UncommittedIn
  <1>10. ExemptIn(s) = ExemptIn(Store) /\ WaitingIn(s) = WaitingIn(Store)
    <2>1. WaitingOf(L, client, Exempt(stored, fate)) = WaitingOf(ledger, client, Exempt(stored, fate))
      BY <1>3 DEF WaitingOf
    <2> QED BY <1>5, <2>1, OfStore DEF ExemptIn, WaitingIn
  <1>11. LedgerKept(L, fate, client)
    BY <1>1, <1>3 DEF LedgerKept, Closed
  <1>12. Attended(L, fate, client, T)
    BY <1>1, <1>3 DEF Attended, Closed
  <1>13. Answered(L, client, Exempt(stored, fate))
    BY <1>1, <1>3 DEF Answered
  <1>14. LiveSound(s, T)
    BY <1>1, <1>5, <1>7, <1>8, <1>10, <1>11, <1>12, <1>13, OfStore DEF LiveSound
  <1>15. FileSound(s, UncommittedIn(s))
    BY <1>1, <1>5, <1>8, <1>9, OfStore DEF FileSound
  <1>16. live # Locked => s.live # Locked /\ SiteKept(live, s.live)
    BY <1>5 DEF SiteKept
  <1> QED BY <1>5, <1>14, <1>15, <1>16 DEF Midway, StoreSound, s

\* The store of a reconciliation, with what it takes from an extension that
\* is still at work.
LEMMA LateStoreIs ==
    ASSUME NEW st, StoreTyped(st), NEW D \in SUBSET Held
    PROVE  LET s == [st EXCEPT !.fate.discarded = @ \cup D]
               F == s.fate
           IN /\ s.ledger = st.ledger /\ s.live = st.live /\ s.file = st.file /\ s.stored = st.stored
              /\ StoreTyped(s) /\ F \in Fates /\ F.discarded = st.fate.discarded \cup D
              /\ F.published = st.fate.published /\ F.committed = st.fate.committed /\ F.abandoned = st.fate.abandoned
              /\ F.deleted = st.fate.deleted /\ F.cut = st.fate.cut
  <1> DEFINE G == [st.fate EXCEPT !.discarded = @ \cup D]
             s == [st EXCEPT !.fate.discarded = @ \cup D]
  <1>1. s = [st EXCEPT !.fate = G]
    BY DEF StoreTyped
  <1>2. st.fate \in Fates
    BY DEF StoreTyped
  <1>3. /\ G \in Fates /\ G.discarded = st.fate.discarded \cup D
        /\ G.published = st.fate.published /\ G.committed = st.fate.committed /\ G.abandoned = st.fate.abandoned
        /\ G.deleted = st.fate.deleted /\ G.cut = st.fate.cut
    BY <1>2 DEF Fates
  <1> HIDE DEF G
  <1>4. s = StoreOf(st.ledger, st.live, st.file, st.stored, G)
    BY <1>1 DEF StoreTyped, StoreOf
  <1> HIDE DEF s
  <1>5. /\ s.ledger = st.ledger /\ s.live = st.live /\ s.file = st.file /\ s.stored = st.stored /\ s.fate = G /\ StoreTyped(s)
    <2>1. /\ st.ledger \in [Tokens -> PasskeyCeremony \cup {None}] /\ (st.live # Locked => IsVault(st.live)) /\ IsVault(st.file)
          /\ st.stored \in SUBSET Held
      BY DEF StoreTyped
    <2> QED BY <1>3, <1>4, <2>1, StoreOfParts
  <1> QED BY <1>3, <1>5 DEF s

\* The parts of a reconciliation: the ceremonies T it aborts, the ledger L
\* in which the others are marked, and the store st after the aborts.
Reconciles(T, L, st) ==
    /\ T \in SUBSET Tokens /\ Marks(L) /\ Midway(st, T, L, live) /\ \A t \in T : L[t].phase \notin Closed
    /\ Becomes([st EXCEPT !.fate.discarded = @ \cup {t \in T : Overtaken(t) /\ st.ledger[t].phase = "failed"}])
    /\ UNCHANGED <<gen, leases, now, conn, client, site, makers, proofs>>

LEMMA ReconcileIs ==
    ASSUME IInv, NEW fails \in SUBSET Tokens, reconcile_passkey_ceremony_ledger(fails)
    PROVE  \E T, L, st : Reconciles(T, L, st)
  <1> DEFINE due == {t \in Tokens : LeftOpen(ledger[t])}
             T == {t \in due : ledger[t].id.kind = "create" /\ ledger[t].durable \in {"mutated", "saved"}}
             L == [t \in Tokens |-> IF t \in due /\ ledger[t].durable = "committed"
                                    THEN [ledger[t] EXCEPT !.phase = "delivered", !.delivery = "unknown"] ELSE ledger[t]]
             base == [Store EXCEPT !.ledger = L]
             q == SetToSeq(T)
             st == RolledBack(base, q, fails)
  <1>1. /\ Becomes([st EXCEPT !.fate.discarded = @ \cup {t \in T : Overtaken(t) /\ st.ledger[t].phase = "failed"}])
        /\ UNCHANGED <<gen, leases, now, conn, client, site, makers, proofs>>
    BY DEF reconcile_passkey_ceremony_ledger, RolledBack
  <1>2. \A t \in due : ledger[t] # None /\ ledger[t].phase = "s4"
    BY DEF LeftOpen
  <1>3. ledger \in [Tokens -> PasskeyCeremony \cup {None}] /\ Typed /\ Sole(makers)
    BY NowStore, StoreTypedIs
  <1> HIDE DEF due
  <1>4. due \in SUBSET Tokens
    BY DEF due
  <1>5. Marks(L)
    BY <1>2, <1>3, <1>4, MarksThem
  <1>6. \A t \in T : L[t] # None /\ L[t].phase \notin Closed
    <2>1. \A t \in T : L[t] = ledger[t]
      BY <1>4
    <2> QED BY <1>2, <2>1 DEF Closed
  <1>7. T \in SUBSET Tokens /\ IsFiniteSet(T)
    <2>1. T \subseteq Tokens
      BY <1>4
    <2> QED BY <2>1, Names, FS_Subset
  <1> HIDE DEF T, L
  <1>8. base = MarkedStore(L)
    BY DEF Store, StoreOf, MarkedStore
  <1>9. Midway(base, T, L, live)
    BY <1>5, <1>7, <1>8, MarkedSound
  <1> HIDE DEF base
  <1>10. DOMAIN q \in SUBSET Nat /\ IsFiniteSet(DOMAIN q) /\ \A i \in DOMAIN q : q[i] \in T
    BY <1>7, SequenceOf
  <1> HIDE DEF q
  <1>11. Midway(st, T, L, live)
    BY <1>3, <1>6, <1>7, <1>9, <1>10, MidwayAll
  <1> HIDE DEF st
  <1>12. Reconciles(T, L, st)
    BY <1>1, <1>5, <1>6, <1>7, <1>11 DEF Reconciles
  <1> QED BY <1>12

\* A reconciliation keeps the invariant.
LEMMA KeepsReconcile ==
    ASSUME IInv, NEW fails \in SUBSET Tokens, reconcile_passkey_ceremony_ledger(fails)
    PROVE  IInv'
  <1>0. PICK T, L, st : Reconciles(T, L, st)
    BY ReconcileIs
  <1>1. /\ T \in SUBSET Tokens /\ Marks(L) /\ Midway(st, T, L, live) /\ \A t \in T : L[t].phase \notin Closed
        /\ Becomes([st EXCEPT !.fate.discarded = @ \cup {t \in T : Overtaken(t) /\ st.ledger[t].phase = "failed"}])
        /\ UNCHANGED <<gen, leases, now, conn, client, site, makers, proofs>>
    BY <1>0 DEF Reconciles
  <1> DEFINE D == {t \in T : Overtaken(t) /\ st.ledger[t].phase = "failed"}
             s == [st EXCEPT !.fate.discarded = @ \cup D]
             F == s.fate
  <1>2. LiveSound(st, T) /\ FileSound(st, UncommittedIn(st)) /\ StoreTyped(st) /\ Becomes(s)
    BY <1>1 DEF Midway, StoreSound, LiveSound
  <1>3. /\ s.ledger = st.ledger /\ s.live = st.live /\ s.file = st.file /\ s.stored = st.stored
        /\ StoreTyped(s) /\ F \in Fates /\ F.discarded = st.fate.discarded \cup D
        /\ F.published = st.fate.published /\ F.committed = st.fate.committed /\ F.abandoned = st.fate.abandoned
        /\ F.deleted = st.fate.deleted /\ F.cut = st.fate.cut
    <2>1. D \in SUBSET Held
      BY <1>1, Names DEF Held
    <2> HIDE DEF D
    <2> QED BY <1>2, <2>1, LateStoreIs
  <1> HIDE DEF s, F
  <1>4. /\ ledger' = st.ledger /\ live' = st.live /\ file' = st.file /\ stored' = st.stored /\ fate' = F /\ StoreTyped(Store)'
    BY <1>2, <1>3, BecomesParts DEF F
  <1>5. ExemptIn(st) \subseteq Exempt(stored', fate')
    BY <1>3, <1>4 DEF ExemptIn, Exempt
  <1>6. \A t \in Tokens : Follows(st.ledger[t], ledger'[t], t \in fate'.abandoned, t \in fate'.committed)
    BY <1>4 DEF Follows
  <1>7. LedgerKept(ledger', fate', client')
    BY <1>1, <1>2, <1>3, <1>4 DEF LiveSound, LedgerKept
  <1>8. Answered(ledger', client', Exempt(stored', fate'))
    BY <1>1, <1>2, <1>4, <1>5 DEF LiveSound, Answered
  <1>9. Attended(ledger', fate', client', {})
    <2>1. Attended(st.ledger, st.fate, client, T)
      BY <1>2 DEF LiveSound
    <2>2. \A t \in Tokens : st.ledger[t] = L[t] \/ (t \in T /\ st.ledger[t] # None /\ st.ledger[t].phase = "failed")
      BY <1>1 DEF Midway
    <2> QED BY <1>1, <1>3, <1>4, <2>1, <2>2 DEF Attended, Overtaken
  <1>10. gen' \in Nat /\ now' \in Nat /\ conn' \in Nat /\ client' \in [Tokens -> Statuses]
    BY <1>1, NowStore
  <1> QED BY <1>1, <1>2, <1>4, <1>5, <1>6, <1>7, <1>8, <1>9, <1>10, <1>3, StoreStep

(***************************************************************************)
(* The invariant                                                           *)
(***************************************************************************)

LEMMA InitStore ==
    ASSUME Init
    PROVE  StoreSound(Store, {})
  <1>1. /\ ledger = [t \in Tokens |-> None] /\ leases = [p \in Ops |-> None] /\ client = [t \in Tokens |-> "idle"]
        /\ live = InitialVault /\ file = InitialVault /\ site = CredsOf(InitialVault) /\ stored = CredsOf(InitialVault)
        /\ fate = [deleted |-> {}, discarded |-> {}, cut |-> {}, published |-> {}, abandoned |-> {}, committed |-> {}]
        /\ makers = [e \in {} |-> {}]
    BY DEF Init
  <1>2. IsVault(InitialVault) /\ InitialVault # Locked /\ DOMAIN InitialVault \cap Makers = {} /\ CredsOf(InitialVault) \cap Makers = {}
    BY PasskeyNames
  <1>3. \A e \in DOMAIN InitialVault : \A i \in DOMAIN Line(InitialVault[e]) :
          Line(InitialVault[e])[i] \in CredsOf(InitialVault) /\ Line(InitialVault[e])[i] \in Held
    <2>1. ASSUME NEW e \in DOMAIN InitialVault, NEW i \in DOMAIN Line(InitialVault[e]) PROVE Line(InitialVault[e])[i] \in Held
      <3>1. InitialVault[e] \in Entry
        BY <1>2, EntryTyped
      <3> QED BY <3>1, LineFacts
    <2> QED BY <1>2, <2>1, CredsOnLine
  <1>4. CredsOf(InitialVault) \subseteq Held
    BY <1>2, <1>3, CredsOnLine
  <1>5. fate \in Fates
    BY <1>1 DEF Fates
  <1>6. StoreTyped(Store)
    BY <1>1, <1>2, <1>4, <1>5, StoreTypedIs
  <1>7. \A m \in Makers : UndoOf(ledger, leases)[m] = None
    BY <1>1, Names DEF UndoOf
  <1>8. WaitingOf(ledger, client, Exempt(stored, fate)) = {}
    BY <1>1 DEF WaitingOf
  <1>9. UncommittedOf(ledger, leases) = {}
    BY <1>1, Names DEF UncommittedOf
  <1>10. Undoable(UndoOf(ledger, leases), makers)
    BY <1>7 DEF Undoable
  <1>11. Placed(makers, InitialVault)
    BY <1>2, <1>3 DEF Placed
  <1>12. \A A : Accounted(makers, A, InitialVault)
    <2>1. \A e \in DOMAIN InitialVault : InitialVault[e].cred \notin Makers
      BY <1>2 DEF CredsOf
    <2> QED BY <2>1 DEF Accounted
  <1>13. \A R : Stacked(R, {}, InitialVault)
    BY DEF Stacked
  <1>14. LedgerKept(ledger, fate, client) /\ Attended(ledger, fate, client, {}) /\ Answered(ledger, client, Exempt(stored, fate))
    BY <1>1 DEF LedgerKept, Attended, Answered
  <1>15. HandedOver(site, UndoOf(ledger, leases), client, leases, proofs)
    BY <1>1, <1>2 DEF HandedOver
  <1>16. site \subseteq Exempt(stored, fate) /\ FileKnown({}, file, fate.published)
    BY <1>1 DEF Exempt, FileKnown
  <1> QED BY <1>1, <1>6, <1>8, <1>9, <1>10, <1>11, <1>12, <1>13, <1>14, <1>15, <1>16, SoundParts

LEMMA InitKept ==
    ASSUME Init
    PROVE  IInv
  <1>1. /\ gen = 0 /\ now = 0 /\ conn = 1 /\ leases = [p \in Ops |-> None] /\ client = [t \in Tokens |-> "idle"]
        /\ site = CredsOf(InitialVault) /\ stored = CredsOf(InitialVault) /\ makers = [e \in {} |-> {}]
        /\ proofs = [m \in Makers |-> 0]
    BY DEF Init
  <1>2. StoreSound(Store, {})
    BY InitStore
  <1>3. stored \in SUBSET Held
    BY <1>2, StoreTypedIs DEF StoreSound, LiveSound
  <1>4. makers \in [{} -> SUBSET Makers]
    BY <1>1
  <1>5. Typed
    BY <1>1, <1>3, <1>4 DEF Typed, Statuses
  <1>6. DOMAIN makers = {}
    BY <1>4
  <1>7. Sole(makers) /\ AllSpent(makers, client, leases, proofs)
    BY <1>6 DEF Sole, AllSpent
  <1>8. LeasesKept(leases, proofs)
    BY <1>1 DEF LeasesKept
  <1> QED BY <1>2, <1>5, <1>7, <1>8 DEF IInv

LEMMA CeremonyKept ==
    ASSUME IInv, NEW t \in Tokens, Ceremony(t)
    PROVE  IInv'
  <1>1. CASE \E id \in Identities : register_passkey_ceremony(t, id)
    BY <1>1, KeepsRegister
  <1>2. CASE \E next \in Active, related \in BOOLEAN : advance_passkey_ceremony_phase(t, next, related)
    BY <1>2, KeepsAdvance
  <1>3. CASE \E next \in ClosePhases : CloseEarly(t, next)
    BY <1>3, KeepsCloseEarly
  <1>4. CASE verify_passkey_user(t)
    BY <1>4, KeepsVerify
  <1>5. CASE ResolveCredentials(t)
    BY <1>5, KeepsResolve
  <1>6. CASE \E present, related \in BOOLEAN : create_passkey_assertion(t, present, related)
    BY <1>6, KeepsAssertion
  <1>7. CASE \E related \in BOOLEAN : create_passkey_registration(t, related)
    BY <1>7, KeepsCreate
  <1>8. CASE \E fails \in BOOLEAN : save_passkey_registration(t, fails)
    BY <1>8, KeepsSave
  <1>9. CASE commit_passkey_registration(t)
    BY <1>9, KeepsCommit
  <1>10. CASE Complete(t)
    BY <1>10, KeepsComplete
  <1>11. CASE Confirm(t)
    BY <1>11, KeepsConfirm
  <1>12. CASE \E next \in ClosePhases, fails \in BOOLEAN : Abort(t, next, fails)
    BY <1>12, KeepsAbort
  <1>13. CASE CloseWithoutRollback(t)
    BY <1>13, KeepsCloseWithoutRollback
  <1> QED BY <1>1, <1>2, <1>3, <1>4, <1>5, <1>6, <1>7, <1>8, <1>9, <1>10, <1>11, <1>12, <1>13 DEF Ceremony

LEMMA PlatformKept ==
    ASSUME IInv, NEW p \in Ops, Platform(p)
    PROVE  IInv'
  <1>1. CASE prepare_platform_passkey_operation(p)
    BY <1>1, KeepsPrepare
  <1>2. CASE register_platform_passkey_for_operation(p)
    BY <1>2, KeepsPlatformRegister
  <1>3. CASE create_platform_passkey_assertion_for_operation(p)
    BY <1>3, KeepsPlatformAssertion
  <1>4. CASE \E fails \in BOOLEAN : commit_platform_passkey_registration_operation(p, fails)
    BY <1>4, KeepsPlatformCommit
  <1>5. CASE end_platform_passkey_operation(p)
    BY <1>5, KeepsEnd
  <1> QED BY <1>1, <1>2, <1>3, <1>4, <1>5 DEF Platform

LEMMA StutterKept ==
    ASSUME IInv, UNCHANGED vars
    PROVE  IInv'
  <1>1. /\ ledger' = ledger /\ live' = live /\ file' = file /\ gen' = gen /\ leases' = leases /\ now' = now /\ conn' = conn
        /\ client' = client /\ site' = site /\ stored' = stored /\ fate' = fate /\ makers' = makers /\ proofs' = proofs
    BY DEF vars
  <1>2. Store' = Store
    BY <1>1 DEF Store
  <1>3. StoreSound(Store, {})'
    <2>1. StoreSound(Store, {})
      BY DEF IInv
    <2> HIDE DEF Store
    <2> QED BY <1>1, <1>2, <2>1
         DEF StoreSound, LiveSound, FileSound, UndoIn, AccountedIn, UncommittedIn, ExemptIn, WaitingIn
  <1>4. Typed'
    BY <1>1 DEF IInv, Typed
  <1>5. Sole(makers)' /\ LeasesKept(leases, proofs)' /\ AllSpent(makers, client, leases, proofs)'
    BY <1>1 DEF IInv, Sole, LeasesKept, AllSpent, Spent
  <1> QED BY <1>3, <1>4, <1>5 DEF IInv

LEMMA NextKept ==
    ASSUME IInv, [Next]_vars
    PROVE  IInv'
  <1>1. CASE \E t \in Tokens : Ceremony(t)
    BY <1>1, CeremonyKept
  <1>2. CASE \E p \in Ops : Platform(p)
    BY <1>2, PlatformKept
  <1>3. CASE \E fails \in SUBSET Tokens : reconcile_passkey_ceremony_ledger(fails)
    BY <1>3, KeepsReconcile
  <1>4. CASE Restart
    BY <1>4, KeepsRestart
  <1>5. CASE Unlocked /\ \E e \in DOMAIN live : EditEntry(e) \/ \E forGood \in BOOLEAN : RemoveEntry(e, forGood)
    BY <1>5, KeepsEditEntry, KeepsRemoveEntry DEF Unlocked
  <1>6. CASE SaveVault
    BY <1>6, KeepsSaveVault
  <1>7. CASE Lock
    BY <1>7, KeepsLock
  <1>8. CASE Unlock
    BY <1>8, KeepsUnlock
  <1>9. CASE Tick
    BY <1>9, KeepsTick
  <1>10. CASE UNCHANGED vars
    BY <1>10, StutterKept
  <1> QED BY <1>1, <1>2, <1>3, <1>4, <1>5, <1>6, <1>7, <1>8, <1>9, <1>10 DEF Next

\* Every state is sound: each step of a ceremony, an operation, the user or
\* the clock keeps IInv.
THEOREM Invariant == Spec => []IInv
  <1>1. Init => IInv
    BY InitKept
  <1>2. IInv /\ [Next]_vars => IInv'
    BY NextKept
  <1> QED BY <1>1, <1>2, PTL DEF Spec

\* A credential that was handed over has been saved: the commands of a
\* registration (created, saved, committed) are answered in this order, and
\* what a rollback in between takes out of the vault was never handed over,
\* in spite of aborts, reconciliations, locks and saves by others.
THEOREM HandedOverIsSaved == Spec => []SiteCredentialSaved
  <1>1. IInv => SiteCredentialSaved
    <2> SUFFICES ASSUME IInv PROVE SiteCredentialSaved
      OBVIOUS
    <2>1. site \subseteq Exempt(stored, fate)
      BY SoundParts DEF IInv
    <2> QED BY <2>1 DEF SiteCredentialSaved, Exempt
  <1> QED BY <1>1, Invariant, PTL

\* An aborted, failed or forgotten registration leaves no entry behind: a
\* credential in the vault or its file that is not committed can still be
\* undone by the ceremony or operation that made it.
THEOREM NothingLeftBehind == Spec => []UncommittedIsAccounted
  <1>1. IInv => UncommittedIsAccounted
    <2> SUFFICES ASSUME IInv, NEW v \in {live, file} \ {Locked}, NEW e \in DOMAIN v,
                        v[e].cred \in Makers, makers[e] = {v[e].cred},
                        v[e].cred \notin fate.committed \cup fate.published \cup fate.abandoned
                 PROVE  IF v[e].cred \in Ops THEN leases[v[e].cred] # None /\ leases[v[e].cred].rollback # None
                        ELSE /\ ledger[v[e].cred] # None /\ ledger[v[e].cred].phase = "s4"
                             /\ ledger[v[e].cred].rollback # None
      BY DEF UncommittedIsAccounted
    <2>1. Accounted(makers, AccountedOf(ledger, leases, fate), v)
      BY SoundParts DEF IInv
    <2>2. v[e].cred \in AccountedOf(ledger, leases, fate)
      BY <2>1 DEF Accounted
    <2> QED BY <2>2 DEF AccountedOf
  <1> QED BY <1>1, Invariant, PTL

(***************************************************************************)
(* What was handed over stays                                              *)
(***************************************************************************)

\* A step of RollbackKeepsOthers.
OthersKept ==
    Unlocked /\ live' # Locked =>
      \A e \in DOMAIN live : live[e].cred \in site \ fate'.deleted =>
        \/ e \in DOMAIN live' /\ live'[e].cred = live[e].cred
        \/ e \in DOMAIN live' /\ live'[e].cred \in Makers /\ makers' # makers

LEMMA SiteStays ==
    ASSUME live # Locked => SiteKept(live, live')
    PROVE  OthersKept
  BY DEF OthersKept, SiteKept, Unlocked

LEMMA SameVault ==
    ASSUME live # Locked => live' = live
    PROVE  OthersKept
  BY DEF OthersKept, Unlocked

\* A registration changes one entry, which is known to have a new maker.
LEMMA RegistrationKeepsOthers ==
    ASSUME IInv, live # Locked, NEW m \in Makers, ~Spent(m, client, leases, proofs), NEW pk, Passkey(pk, m),
           NEW rb, rb = RollbackState(live, m, pk.rp, pk.user),
           live' = WithRegistration(live, m, pk), makers' = MadeBy(makers, rb.entry, m)
    PROVE  OthersKept
  <1>1. IsVault(live) /\ MaxHistory \in Nat /\ Placed(makers, live)
    BY NowLive
  <1>2. Unused(makers, m)
    BY DEF IInv, AllSpent, Unused
  <1>3. Registers(live, m, rb, live')
    BY <1>1, <1>2, NotPlaced, RegisteredVault
  <1>4. makers' # makers
    <2>1. m \in makers'[rb.entry] /\ rb.entry \in DOMAIN makers'
      BY DEF MadeBy
    <2> QED BY <1>2, <2>1 DEF Unused
  <1> QED BY <1>3, <1>4 DEF Registers, OthersKept

LEMMA CreateKeepsOthers ==
    ASSUME IInv, NEW t \in Tokens, NEW related \in BOOLEAN, create_passkey_registration(t, related)
    PROVE  OthersKept
  <1> DEFINE c == ledger[t]
             made == create_registration_with_credential_id(Request(c, t, related), t)
             pk == made.passkey
             rb == RollbackState(live, t, c.id.rp, c.id.user)
             registers == /\ live # Locked /\ made # Refused
                          /\ live' = WithRegistration(live, t, pk) /\ Makes(rb.entry, t)
  <1>1. /\ AtWork(t) /\ c # None
        /\ registers \/ live' = live
    BY DEF create_passkey_registration, Unlocked
  <1>2. c \in PasskeyCeremony
    BY <1>1, AtCeremony
  <1>3. t \in Makers /\ ~Spent(t, client, leases, proofs)
    BY <1>1, Names DEF AtWork, Spent
  <1>4. CASE registers
    <2> HIDE DEF pk, c
    <2>1. Passkey(pk, t) /\ pk.rp = c.id.rp /\ pk.user = c.id.user
      BY <1>2, <1>4, CreatedPasskey DEF pk
    <2>2. live # Locked /\ rb = RollbackState(live, t, pk.rp, pk.user) /\ live' = WithRegistration(live, t, pk)
      BY <1>4, <2>1
    <2>3. makers' = MadeBy(makers, rb.entry, t)
      <3> HIDE DEF rb
      <3> QED BY <1>4 DEF Makes, MadeBy
    <2> HIDE DEF rb
    <2> QED BY <1>3, <2>1, <2>2, <2>3, RegistrationKeepsOthers
  <1> QED BY <1>1, <1>4, SameVault

LEMMA PlatformRegisterKeepsOthers ==
    ASSUME IInv, NEW p \in Ops, register_platform_passkey_for_operation(p)
    PROVE  OthersKept
  <1> DEFINE made == create_platform_registration_with_credential_id(PlatformRequest(p), p)
             pk == made.passkey
             rb == RollbackState(live, p, Rp, User)
             registers == made # Refused /\ live' = WithRegistration(live, p, pk) /\ Makes(rb.entry, p)
  <1>1. /\ leases[p] # None /\ live # Locked /\ ~leases[p].consumed
        /\ registers \/ live' = live
    BY DEF register_platform_passkey_for_operation, MayConsume, Unlocked
  <1>2. p \in Makers /\ ~Spent(p, client, leases, proofs)
    BY <1>1, Names DEF Spent
  <1>3. CASE registers
    <2> HIDE DEF pk
    <2>1. Passkey(pk, p) /\ pk.rp = Rp /\ pk.user = User
      BY <1>3, PlatformPasskey DEF pk
    <2>2. rb = RollbackState(live, p, pk.rp, pk.user) /\ live' = WithRegistration(live, p, pk)
      BY <1>3, <2>1
    <2>3. makers' = MadeBy(makers, rb.entry, p)
      <3> HIDE DEF rb
      <3> QED BY <1>3 DEF Makes, MadeBy
    <2> HIDE DEF rb
    <2> QED BY <1>1, <1>2, <2>1, <2>2, <2>3, RegistrationKeepsOthers
  <1> QED BY <1>1, <1>3, SameVault

LEMMA AbortKeepsOthers ==
    ASSUME IInv, NEW t \in Tokens, NEW next \in ClosePhases, NEW fails \in BOOLEAN, Abort(t, next, fails)
    PROVE  OthersKept
  <1> DEFINE s == abort_passkey_registration(Store, t, next, fails).st
  <1>1. ledger[t] # None /\ live' = s.live
    BY DEF Abort, Becomes
  <1>2. LiveSound(Store, {}) /\ Typed /\ Sole(makers) /\ Store.ledger[t] # None /\ next \in Closed /\ Store.live = live
    BY <1>1, NowStore, OfStore, PasskeyBounds DEF Closed
  <1>3. Store.live # Locked => s.live # Locked /\ SiteKept(Store.live, s.live)
    <2> HIDE DEF s
    <2> QED BY <1>2, AbortEffects DEF s
  <1> HIDE DEF s
  <1> QED BY <1>1, <1>2, <1>3, SiteStays

LEMMA ReconcileKeepsOthers ==
    ASSUME IInv, NEW fails \in SUBSET Tokens, reconcile_passkey_ceremony_ledger(fails)
    PROVE  OthersKept
  <1>0. PICK T, L, st : Reconciles(T, L, st)
    BY ReconcileIs
  <1>1. /\ T \in SUBSET Tokens /\ Marks(L) /\ Midway(st, T, L, live) /\ \A t \in T : L[t].phase \notin Closed
        /\ Becomes([st EXCEPT !.fate.discarded = @ \cup {t \in T : Overtaken(t) /\ st.ledger[t].phase = "failed"}])
        /\ UNCHANGED <<gen, leases, now, conn, client, site, makers, proofs>>
    BY <1>0 DEF Reconciles
  <1>2. StoreTyped(st) /\ (live # Locked => SiteKept(live, st.live))
    BY <1>1 DEF Midway, StoreSound, LiveSound
  <1>3. live' = st.live
    <2> DEFINE D == {t \in T : Overtaken(t) /\ st.ledger[t].phase = "failed"}
               s == [st EXCEPT !.fate.discarded = @ \cup D]
    <2>1. D \in SUBSET Held
      BY <1>1, Names DEF Held
    <2>2. live' = s.live
      BY <1>1 DEF Becomes
    <2> HIDE DEF D
    <2>3. s.live = st.live
      BY <1>2, <2>1, LateStoreIs
    <2> QED BY <2>2, <2>3
  <1> QED BY <1>2, <1>3, SiteStays

\* The rollback of a platform operation, or none.
LEMMA OperationKeepsOthers ==
    ASSUME IInv, NEW p \in Ops, leases[p] # None, live # Locked,
           live' = live \/ (leases[p].rollback # None /\ live' = Restored(live, leases[p].rollback))
    PROVE  OthersKept
  <1>1. p \in Makers /\ UndoIn(Store)[p] = leases[p].rollback /\ LiveSound(Store, {}) /\ Store.live = live
    BY AtOperation
  <1>2. CASE leases[p].rollback # None /\ live' = Restored(live, leases[p].rollback)
    <2>1. SiteKept(live, Restored(live, leases[p].rollback))
      BY <1>1, <1>2, NowStore, RestoreKeepsSite
    <2> QED BY <1>2, <2>1, SiteStays
  <1> QED BY <1>2, SameVault

LEMMA PlatformCommitKeepsOthers ==
    ASSUME IInv, NEW p \in Ops, NEW fails \in BOOLEAN, commit_platform_passkey_registration_operation(p, fails)
    PROVE  OthersKept
  <1> DEFINE rb == leases[p].rollback
             z == commit_platform_passkey_registration(p, rb, fails)
             settled == CASE z.ok -> [z.st EXCEPT !.fate.committed = @ \cup {p}]
                          [] ~z.ok /\ fails -> z.st
                          [] OTHER -> [z.st EXCEPT !.fate.published = @ \cup {p}]
             w == restore_passkey_registration_rollback(live, rb)
             st == IF fails THEN Store ELSE Saved(Store, p)
  <1>1. leases[p] # None /\ live # Locked /\ rb # None /\ live' = settled.live
    BY DEF commit_platform_passkey_registration_operation, Unlocked, Becomes
  <1>2. StoreTyped(Store) /\ Store.live = live
    BY NowStore, OfStore
  <1>3. st.live = live /\ "live" \in DOMAIN st
    <2>1. CASE fails
      BY <1>2, <2>1 DEF Store
    <2>2. CASE ~fails
      <3>1. st = SavedStore(Store, p)
        BY <1>2, <2>2, SavedStoreIs
      <3> HIDE DEF st
      <3>2. "live" \in DOMAIN st
        BY <3>1 DEF SavedStore, StoreOf
      <3>3. st.live = live
        BY <1>2, <3>1, StoreOfParts DEF SavedStore
      <3> QED BY <3>2, <3>3
    <2> QED BY <2>1, <2>2
  <1>4. "live" \in DOMAIN z.st /\ (z.st.live = live \/ (w # None /\ z.st.live = w))
    <2> DEFINE ok == ~fails /\ entry_has_passkey_credential(st.live, rb.entry, rb.cred)
               v == restore_passkey_registration_rollback(st.live, rb)
    <2>1. z = [ok |-> ok, st |-> IF ok \/ v = None THEN st ELSE [st EXCEPT !.live = v]]
      BY DEF commit_platform_passkey_registration
    <2>2. v = w
      BY <1>3
    <2> HIDE DEF ok, v, st, z, w
    <2> QED BY <1>3, <2>1, <2>2
  <1>5. settled.live = z.st.live
    <2> HIDE DEF z
    <2> QED BY <1>4
  <1>6. live' = live \/ live' = Restored(live, rb)
    <2> HIDE DEF settled, z, w
    <2> QED BY <1>1, <1>4, <1>5 DEF Restored, w
  <1> HIDE DEF settled, z, w
  <1> QED BY <1>1, <1>6, OperationKeepsOthers

LEMMA EndKeepsOthers ==
    ASSUME IInv, NEW p \in Ops, end_platform_passkey_operation(p)
    PROVE  OthersKept
  <1> DEFINE rb == leases[p].rollback
             v == IF rb = None \/ live = Locked THEN live ELSE restore_passkey_registration_rollback(live, rb)
  <1>1. leases[p] # None /\ (live' = Locked \/ live' = IF v = None THEN live ELSE v)
    BY DEF end_platform_passkey_operation, Unlocked
  <1>2. CASE live' = Locked \/ live = Locked
    BY <1>2 DEF OthersKept, Unlocked
  <1>3. CASE live # Locked /\ live' # Locked
    <2>1. live' = live \/ (rb # None /\ live' = Restored(live, rb))
      BY <1>1, <1>3 DEF Restored
    <2> QED BY <1>1, <1>3, <2>1, OperationKeepsOthers
  <1> QED BY <1>2, <1>3

LEMMA EditKeepsOthers ==
    ASSUME IInv, live # Locked, NEW e \in DOMAIN live, EditEntry(e)
    PROVE  OthersKept
  <1> DEFINE h == enforce_history_limits(Append(live[e].hist, Snapshot(live[e])))
  <1>1. IsVault(live)
    BY NowLive
  <1>2. PICK E \in SUBSET Entries : live \in [E -> Entry]
    BY <1>1 DEF IsVault
  <1>3. live' = [live EXCEPT ![e].edit = @ + 1, ![e].hist = enforce_history_limits(Append(@, Snapshot(live[e])))]
    BY DEF EditEntry
  <1>4. DOMAIN live' = DOMAIN live /\ \A x \in DOMAIN live : x # e => live'[x] = live[x]
    BY <1>2, <1>3
  <1>5. live'[e] = [live[e] EXCEPT !.edit = @ + 1, !.hist = h]
    BY <1>2, <1>3
  <1>6. live'[e].cred = live[e].cred
    <2>1. live[e] \in Entry
      BY <1>2
    <2> HIDE DEF h
    <2> QED BY <1>5, <2>1 DEF Entry
  <1>7. SiteKept(live, live')
    BY <1>4, <1>6 DEF SiteKept
  <1> QED BY <1>7, SiteStays

LEMMA RemoveKeepsOthers ==
    ASSUME IInv, live # Locked, NEW e \in DOMAIN live, NEW forGood \in BOOLEAN, RemoveEntry(e, forGood)
    PROVE  OthersKept
  <1>1. IsVault(live) /\ fate \in Fates
    BY NowLive
  <1>2. /\ live' = IF forGood THEN Without(live, e) ELSE [live EXCEPT ![e].recycled = TRUE]
        /\ fate' = [fate EXCEPT !.deleted = @ \cup {live[e].cred} \cup {h.cred : h \in Range(live[e].hist)}]
    BY DEF RemoveEntry
  <1>3. live[e].cred \in fate'.deleted
    BY <1>1, <1>2 DEF Fates
  <1>4. \A x \in DOMAIN live : x # e => x \in DOMAIN live' /\ live'[x] = live[x]
    <2>1. CASE forGood
      BY <1>1, <1>2, <2>1, WithoutTyped
    <2>2. CASE ~forGood
      BY <1>2, <2>2
    <2> QED BY <2>1, <2>2
  <1> QED BY <1>3, <1>4 DEF OthersKept

LEMMA SaveKeepsOthers ==
    ASSUME IInv
    PROVE  /\ SaveVault => OthersKept
           /\ \A t \in Tokens, fails \in BOOLEAN : save_passkey_registration(t, fails) => OthersKept
  <1>1. StoreTyped(Store) /\ Store.live = live
    BY NowStore, OfStore
  <1>2. ASSUME NEW by PROVE Saved(Store, by).live = live /\ "live" \in DOMAIN Saved(Store, by)
    <2> DEFINE s == Saved(Store, by)
    <2>1. s = SavedStore(Store, by)
      BY <1>1, SavedStoreIs
    <2> HIDE DEF s
    <2>2. "live" \in DOMAIN s
      BY <2>1 DEF SavedStore, StoreOf
    <2>3. s.live = live
      BY <1>1, <2>1, StoreOfParts DEF SavedStore
    <2> QED BY <2>2, <2>3 DEF s
  <1>3. ASSUME SaveVault PROVE OthersKept
    BY <1>2, <1>3, SameVault DEF SaveVault, Becomes
  <1>4. ASSUME NEW t \in Tokens, NEW fails \in BOOLEAN, save_passkey_registration(t, fails) PROVE OthersKept
    <2> DEFINE s == Saved(Store, t)
               o == [s EXCEPT !.ledger[t].durable = "saved"]
    <2>1. live' = o.live \/ live' = Store.live
      BY <1>4 DEF save_passkey_registration, Becomes
    <2>2. o.live = live
      <3>1. s.live = live /\ "live" \in DOMAIN s
        BY <1>2
      <3> HIDE DEF s
      <3> QED BY <3>1
    <2> QED BY <1>1, <2>1, <2>2, SameVault
  <1> QED BY <1>3, <1>4

LEMMA NextKeepsOthers ==
    ASSUME IInv, [Next]_vars
    PROVE  [OthersKept]_vars
  <1>1. ASSUME NEW t \in Tokens, Ceremony(t) PROVE OthersKept
    <2>1. CASE live' = live
      BY <2>1, SameVault
    <2>2. CASE \E related \in BOOLEAN : create_passkey_registration(t, related)
      BY <2>2, CreateKeepsOthers
    <2>3. CASE \E fails \in BOOLEAN : save_passkey_registration(t, fails)
      BY <2>3, SaveKeepsOthers
    <2>4. CASE \E next \in ClosePhases, fails \in BOOLEAN : Abort(t, next, fails)
      BY <2>4, AbortKeepsOthers
    <2>5. CASE \E id \in Identities : register_passkey_ceremony(t, id)
      BY <2>1, <2>5 DEF register_passkey_ceremony
    <2>6. CASE \E next \in Active, related \in BOOLEAN : advance_passkey_ceremony_phase(t, next, related)
      BY <2>1, <2>6 DEF advance_passkey_ceremony_phase
    <2>7. CASE \E next \in ClosePhases : CloseEarly(t, next)
      BY <2>1, <2>7 DEF CloseEarly
    <2>8. CASE verify_passkey_user(t) \/ ResolveCredentials(t)
      BY <2>1, <2>8 DEF verify_passkey_user, ResolveCredentials
    <2>9. CASE \E present, related \in BOOLEAN : create_passkey_assertion(t, present, related)
      BY <2>1, <2>9 DEF create_passkey_assertion
    <2>10. CASE commit_passkey_registration(t) \/ Complete(t)
      BY <2>1, <2>10 DEF commit_passkey_registration, Complete
    <2>11. CASE Confirm(t) \/ CloseWithoutRollback(t)
      BY <2>1, <2>11 DEF Confirm, CloseWithoutRollback
    <2> QED BY <1>1, <2>2, <2>3, <2>4, <2>5, <2>6, <2>7, <2>8, <2>9, <2>10, <2>11 DEF Ceremony
  <1>2. ASSUME NEW p \in Ops, Platform(p) PROVE OthersKept
    <2>1. CASE prepare_platform_passkey_operation(p)
      BY <2>1, SameVault DEF prepare_platform_passkey_operation, Unlocked
    <2>2. CASE register_platform_passkey_for_operation(p)
      BY <2>2, PlatformRegisterKeepsOthers
    <2>3. CASE create_platform_passkey_assertion_for_operation(p)
      BY <2>3, SameVault DEF create_platform_passkey_assertion_for_operation
    <2>4. CASE \E fails \in BOOLEAN : commit_platform_passkey_registration_operation(p, fails)
      BY <2>4, PlatformCommitKeepsOthers
    <2>5. CASE end_platform_passkey_operation(p)
      BY <2>5, EndKeepsOthers
    <2> QED BY <1>2, <2>1, <2>2, <2>3, <2>4, <2>5 DEF Platform
  <1>3. CASE \E fails \in SUBSET Tokens : reconcile_passkey_ceremony_ledger(fails)
    BY <1>3, ReconcileKeepsOthers
  <1>4. CASE Unlocked /\ \E e \in DOMAIN live : EditEntry(e) \/ \E forGood \in BOOLEAN : RemoveEntry(e, forGood)
    BY <1>4, EditKeepsOthers, RemoveKeepsOthers DEF Unlocked
  <1>5. CASE Lock
    BY <1>5 DEF Lock, OthersKept
  <1>6. CASE Unlock
    BY <1>6 DEF Unlock, OthersKept
  <1>7. CASE Tick \/ Restart
    BY <1>7, SameVault DEF Tick, Restart
  <1>8. CASE SaveVault
    BY <1>8, SaveKeepsOthers
  <1> QED BY <1>1, <1>2, <1>3, <1>4, <1>5, <1>6, <1>7, <1>8 DEF Next

\* No abort, reconciliation or end of an operation takes from the unlocked
\* vault a credential that a page or the platform was given; the user does,
\* and a registration that replaces it.
THEOREM OthersStay == Spec => RollbackKeepsOthers
  <1>1. IInv /\ [Next]_vars => [OthersKept]_vars
    BY NextKeepsOthers
  <1> QED BY <1>1, Invariant, PTL DEF Spec, RollbackKeepsOthers, OthersKept

=============================================================================
