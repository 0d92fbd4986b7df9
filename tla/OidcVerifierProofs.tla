------------------------- MODULE OidcVerifierProofs -------------------------
(***************************************************************************)
(* Theorems about OidcVerifier for every value of its constants.           *)
(***************************************************************************)
EXTENDS OidcVerifier, TLAPS

\* A document parses to a key ring of its own keys.
LEMMA ParsedKeys ==
    ASSUME NEW d, NEW f \in Parsed(d)
    PROVE  /\ f \in [Kids -> Keys]
           /\ \A k \in Kids : f[k] # None => f[k] \in KeysUnder(d, k)
           /\ \A k \in Kids : KeysUnder(d, k) # {} => f[k] \in KeysUnder(d, k)
           /\ \A k \in Kids : KeysUnder(d, k) = {} => f[k] = None
  BY DEF Parsed

LEMMA Blank ==
    /\ NoKeys \in [Kids -> Keys]
    /\ Fetching \in Refreshers /\ Fetching.pc = "fetch"
    /\ Fetching.todo = {} /\ Fetching.fresh = NoKeys
    /\ Sleeping \in Refreshers /\ Sleeping.pc = "sleep"
    /\ Sleeping.todo = {} /\ Sleeping.fresh = NoKeys
<1>1. NoKeys \in [Kids -> Keys]
  BY DEF NoKeys, Keys
<1>2. Fetching \in Refreshers
  BY <1>1 DEF Fetching, Refreshers
<1>3. Sleeping = [pc |-> "sleep", fresh |-> NoKeys, todo |-> {}, kid |-> None]
  BY DEF Fetching, Sleeping
<1>4. Sleeping \in Refreshers
  BY <1>1, <1>3 DEF Refreshers
<1> QED  BY <1>1, <1>2, <1>3, <1>4 DEF Fetching

\* A start, of the program or after a crash.
LEMMA StartTyped ==
    ASSUME TypeOK, Start, disturbances' \in Nat, UNCHANGED <<published, trust>>
    PROVE  TypeOK'
<1>1. keys' \in [Kids -> Keys]
  BY ParsedKeys DEF Start
<1>2. rf' = Fetching /\ locked' \in BOOLEAN /\ serving' \in BOOLEAN
  BY DEF Start
<1>3. handlers' \in [Handlers -> Asked \cup {Idle}]
  BY DEF Start
<1> QED  BY <1>1, <1>2, <1>3, Blank DEF TypeOK

LEMMA KeyOfKidTyped ==
    ASSUME NEW r \in [Kids -> Keys], NEW t
    PROVE  KeyOfKid(r, t) \in SUBSET Keys
  BY DEF KeyOfKid

LEMMA RingTyped ==
    ASSUME TypeOK
    PROVE  /\ Merged \in [Kids -> Keys]
           /\ Ring \in [Kids -> Keys]
<1>1. rf.fresh \in [Kids -> Keys] /\ keys \in [Kids -> Keys]
  BY DEF TypeOK, Refreshers
<1>2. Merged \in [Kids -> Keys]
  BY <1>1 DEF Merged
<1> QED  BY <1>1, <1>2 DEF Ring

\* Each step keeps the types.
LEMMA TypeStep ==
    ASSUME TypeOK, [Next]_vars
    PROVE  TypeOK'
<1> USE DEF TypeOK
<1>1. CASE FetchFailed
  BY <1>1, Blank DEF FetchFailed, RefreshFailed, Disturb
<1>2. CASE Fetch
  <2>1. PICK f \in Parsed(published) : rf' = [rf EXCEPT !.pc = "lock", !.fresh = f]
    BY <1>2 DEF Fetch
  <2>2. f \in [Kids -> Keys]
    BY ParsedKeys
  <2>3. rf.pc = "fetch" /\ rf \in Refreshers /\ rf.todo = {}
    BY <1>2 DEF Fetch
  <2>4. rf' \in Refreshers /\ rf'.pc = "lock" /\ rf'.todo = rf.todo
    BY <2>1, <2>2, <2>3 DEF Refreshers
  <2> QED  BY <1>2, <2>4 DEF Fetch
<1>3. CASE Lock
  <2>1. rf' \in Refreshers /\ rf'.pc = "merge" /\ rf'.todo = ToMerge
        /\ rf'.fresh = rf.fresh
    BY <1>3 DEF Lock, Refreshers, ToMerge
  <2>2. ASSUME NEW h \in Handlers
        PROVE  handlers'[h] \in Asked \cup {Idle}
    <3>1. CASE handlers[h].pc \in {"copy", "lookup"}
      <4>1. handlers[h] \in Asked
        BY <3>1 DEF Idle
      <4>2. KeyOfKid(Merged, handlers[h].token) \in SUBSET Keys
        BY RingTyped, KeyOfKidTyped
      <4>3. handlers'[h] = [handlers[h] EXCEPT
                              !.since = @ \cup KeyOfKid(Merged, handlers[h].token)]
        BY <1>3, <3>1 DEF Lock
      <4> QED  BY <4>1, <4>2, <4>3 DEF Asked
    <3>2. CASE ~(handlers[h].pc \in {"copy", "lookup"})
      <4>1. handlers'[h] = handlers[h]
        BY <1>3, <3>2 DEF Lock
      <4> QED  BY <4>1
    <3> QED  BY <3>1, <3>2
  <2>3. handlers' \in [Handlers -> Asked \cup {Idle}]
    BY <1>3, <2>2 DEF Lock
  <2>4. ToMerge = {k \in Kids : rf.fresh[k] # None}
    BY DEF ToMerge
  <2> QED  BY <1>3, <2>1, <2>3, <2>4 DEF Lock
<1>4. CASE EndAssign
  <2>1. rf \in Refreshers /\ rf.kid \in Kids /\ rf.fresh \in [Kids -> Keys]
    BY <1>4 DEF EndAssign, Refreshers
  <2>2. rf' \in Refreshers /\ rf'.pc = "merge" /\ rf'.todo \subseteq rf.todo
        /\ rf'.fresh = rf.fresh
    BY <1>4, <2>1 DEF EndAssign, Refreshers
  <2>3. keys' \in [Kids -> Keys]
    BY <1>4, <2>1 DEF EndAssign
  <2> QED  BY <1>4, <2>2, <2>3 DEF EndAssign
<1>5. CASE Unlock
  BY <1>5, Blank DEF Unlock
<1>6. CASE Wake
  BY <1>6, Blank DEF Wake
<1>7. ASSUME NEW k \in Kids, BeginAssign(k) PROVE TypeOK'
  <2>1. rf' \in Refreshers /\ rf'.pc = "assign" /\ rf'.todo = rf.todo
        /\ rf'.fresh = rf.fresh /\ rf'.kid = k /\ k \in rf.todo
    BY <1>7 DEF BeginAssign, Refreshers
  <2> QED  BY <1>7, <2>1 DEF BeginAssign
<1>8. ASSUME NEW h \in Handlers, NEW t \in Tokens, Arrive(h, t) PROVE TypeOK'
  <2> DEFINE new == [pc |-> "copy", token |-> t, since |-> KeyOfKid(Ring, t)]
  <2>1. new \in Asked
    BY RingTyped, KeyOfKidTyped DEF Asked
  <2>2. handlers' = [handlers EXCEPT ![h] = new]
    BY <1>8 DEF Arrive
  <2>3. handlers' \in [Handlers -> Asked \cup {Idle}]
    BY <2>1, <2>2
  <2> QED  BY <1>8, <2>3 DEF Arrive
<1>9. ASSUME NEW h \in Handlers, Copy(h) PROVE TypeOK'
  <2>1. handlers[h] \in Asked
    BY <1>9 DEF Copy, Idle
  <2>2. [handlers[h] EXCEPT !.pc = "lookup"] \in Asked
    BY <2>1 DEF Asked
  <2>3. handlers' \in [Handlers -> Asked \cup {Idle}]
    BY <1>9, <2>2 DEF Copy
  <2> QED  BY <1>9, <2>3 DEF Copy
<1>10. ASSUME NEW h \in Handlers, Lookup(h) PROVE TypeOK'
  <2>1. handlers[h] \in Asked
    BY <1>10 DEF Lookup, Idle
  <2>2. [handlers[h] EXCEPT !.pc = "verified", !.since = {}] \in Asked
    BY <2>1 DEF Asked
  <2>3. handlers' \in [Handlers -> Asked \cup {Idle}]
    BY <1>10, <2>2 DEF Lookup
  <2> QED  BY <1>10, <2>3 DEF Lookup
<1>11. ASSUME NEW h \in Handlers, ConcurrentMapRead(h) PROVE TypeOK'
  BY <1>11, StartTyped DEF ConcurrentMapRead, Disturb
<1>12. ASSUME NEW d \in Documents, Rotate(d) PROVE TypeOK'
  BY <1>12 DEF Rotate, Disturb, process
<1>13. CASE Crash
  BY <1>13, StartTyped DEF Crash, Disturb
<1>14. CASE ProbeRestart
  BY <1>14, StartTyped DEF ProbeRestart
<1>15. CASE UNCHANGED vars
  BY <1>15 DEF vars, process
<1> QED
  BY <1>1, <1>2, <1>3, <1>4, <1>5, <1>6, <1>7, <1>8, <1>9, <1>10, <1>11,
     <1>12, <1>13, <1>14, <1>15 DEF Next, RefreshStep

LEMMA InitTyped == Init => TypeOK
<1> SUFFICES ASSUME Init PROVE TypeOK
  OBVIOUS
<1>1. keys \in [Kids -> Keys]
  BY ParsedKeys DEF Init
<1> QED  BY <1>1, Blank, OidcVerifierAssumption DEF Init, TypeOK

(***************************************************************************)
(* The key set, the lock, the refresh and the requests stay well-typed; a  *)
(* merge has a key for every kid it still has to do (refreshJWKS).         *)
(***************************************************************************)
THEOREM TypeCorrect == Spec => []TypeOK
  BY InitTyped, TypeStep, PTL DEF Spec
-----------------------------------------------------------------------------
\* The inductive invariant behind the other theorems.
RingInv ==
    /\ TypeOK /\ LockHeld /\ FromDocument /\ MergedSoFar /\ SinceArrival
    /\ TrustKept

LEMMA StartKeepsTrust ==
    ASSUME Start, UNCHANGED trust
    PROVE  LockHeld' /\ FromDocument' /\ MergedSoFar' /\ SinceArrival' /\ TrustKept'
<1>1. rf'.pc = "fetch" /\ locked' = FALSE
  BY Blank DEF Start
<1>2. \A h \in Handlers : handlers'[h].pc = "idle"
  BY DEF Start, Idle
<1>3. \A k \in Kids : KeysUnder(trust, k) # {} => keys'[k] \in KeysUnder(trust, k)
  BY ParsedKeys DEF Start
<1>4. TrustKept'
  BY <1>3 DEF TrustKept
<1> QED
  BY <1>1, <1>2, <1>4 DEF LockHeld, FromDocument, MergedSoFar, SinceArrival

\* Steps of the refresh, and faults, that touch neither keys nor requests.
LEMMA RefreshInv ==
    ASSUME RingInv, RefreshStep
    PROVE  LockHeld' /\ FromDocument' /\ MergedSoFar' /\ SinceArrival' /\ TrustKept'
<1> USE DEF RingInv
<1>0. rf \in Refreshers /\ keys \in [Kids -> Keys] /\ rf.fresh \in [Kids -> Keys]
  BY DEF TypeOK, Refreshers
<1>1. ASSUME UNCHANGED <<keys, locked, handlers, trust>>, ~locked, ~locked',
             rf'.pc \notin {"merge", "assign"}, FromDocument'
      PROVE  LockHeld' /\ FromDocument' /\ MergedSoFar' /\ SinceArrival' /\ TrustKept'
  BY <1>1 DEF LockHeld, MergedSoFar, SinceArrival, TrustKept, Ring
<1>2. CASE FetchFailed
  BY <1>1, <1>2, Blank DEF FetchFailed, RefreshFailed, LockHeld, FromDocument
<1>3. CASE Fetch
  <2>1. PICK f \in Parsed(published) : rf' = [rf EXCEPT !.pc = "lock", !.fresh = f]
    BY <1>3 DEF Fetch
  <2>2. rf'.pc = "lock" /\ rf'.fresh = f
    BY <1>0, <2>1 DEF Refreshers
  <2>3. FromDocument'
    BY <1>3, <2>2 DEF Fetch, FromDocument, TypeOK
  <2> QED  BY <1>1, <1>3, <2>2, <2>3 DEF Fetch, LockHeld
<1>4. CASE Wake
  BY <1>1, <1>4, Blank DEF Wake, LockHeld, FromDocument
<1>5. CASE Lock
  <2>1. /\ rf'.pc = "merge" /\ rf'.todo = ToMerge /\ rf'.fresh = rf.fresh
        /\ rf.pc = "lock" /\ ~locked /\ locked' /\ UNCHANGED <<keys, trust>>
    BY <1>0, <1>5 DEF Lock, Refreshers
  <2>2. Merged' = Merged /\ Ring' = Merged /\ Ring = keys
    BY <2>1 DEF Merged, Ring
  <2>3. MergedSoFar'
    BY <2>1, <2>2 DEF MergedSoFar, ToMerge, Merged
  <2>4. ASSUME NEW h \in Handlers, handlers'[h].pc \in {"copy", "lookup"}
        PROVE  /\ KeyOfKid(Merged, handlers'[h].token) \subseteq handlers'[h].since
               /\ handlers'[h].pc = "lookup" =>
                     KeyOfKid(keys, handlers'[h].token) \subseteq handlers'[h].since
    <3>1. handlers[h].pc \in {"copy", "lookup"}
      BY <1>5, <2>4 DEF Lock
    <3>2. handlers[h] \in Asked
      BY <3>1 DEF TypeOK, Idle
    <3>3. handlers'[h] = [handlers[h] EXCEPT
                            !.since = @ \cup KeyOfKid(Merged, handlers[h].token)]
      BY <1>5, <3>1 DEF Lock
    <3>4. /\ handlers'[h].pc = handlers[h].pc /\ handlers'[h].token = handlers[h].token
          /\ handlers'[h].since =
                handlers[h].since \cup KeyOfKid(Merged, handlers[h].token)
      BY <3>2, <3>3 DEF Asked
    <3> QED  BY <3>4 DEF SinceArrival
  <2>5. SinceArrival'
    BY <2>1, <2>2, <2>4 DEF SinceArrival
  <2> QED  BY <2>1, <2>3, <2>5 DEF LockHeld, FromDocument, TrustKept
<1>6. CASE EndAssign
  <2>1. /\ rf'.pc = "merge" /\ rf'.todo = rf.todo \ {rf.kid} /\ rf'.fresh = rf.fresh
        /\ rf.pc = "assign" /\ UNCHANGED <<locked, handlers, trust>>
        /\ rf.kid \in Kids /\ rf.fresh[rf.kid] # None /\ locked
        /\ keys' = [keys EXCEPT ![rf.kid] = rf.fresh[rf.kid]]
    BY <1>0, <1>6 DEF EndAssign, Refreshers, TypeOK, LockHeld
  <2>2. Merged' = Merged /\ Ring' = Merged /\ Ring = Merged
    BY <1>0, <2>1 DEF Merged, Ring
  <2>3. MergedSoFar'
    BY <1>0, <2>1, <2>2 DEF MergedSoFar, Merged
  <2>4. \A k \in Kids : keys'[k] = keys[k] \/ keys'[k] = Merged[k]
    BY <1>0, <2>1 DEF Merged
  <2>5. SinceArrival'
    BY <2>1, <2>2, <2>4 DEF SinceArrival, KeyOfKid
  <2>6. TrustKept'
    <3>1. PICK d \in Documents : ~ParseFails(d) /\ rf.fresh \in Parsed(d)
      BY <2>1 DEF FromDocument
    <3>2. keys'[rf.kid] \in KeysUnder(d, rf.kid)
      BY <1>0, <2>1, <3>1, ParsedKeys
    <3> QED  BY <1>0, <2>1, <3>1, <3>2 DEF TrustKept
  <2> QED  BY <2>1, <2>3, <2>5, <2>6 DEF LockHeld, FromDocument
<1>7. CASE Unlock
  <2>1. /\ rf' = Sleeping /\ ~locked' /\ UNCHANGED <<keys, handlers, trust>>
        /\ rf.todo = {} /\ locked
    BY <1>7 DEF Unlock, LockHeld
  <2>2. \A k \in Kids : keys[k] = Merged[k]
    BY <2>1 DEF MergedSoFar
  <2>3. Ring' = keys /\ Ring = Merged
    BY <2>1 DEF Ring
  <2>4. SinceArrival'
    BY <2>1, <2>2, <2>3 DEF SinceArrival, KeyOfKid
  <2> QED
    BY <2>1, <2>4, Blank DEF LockHeld, FromDocument, MergedSoFar, TrustKept
<1>8. ASSUME NEW k \in Kids, BeginAssign(k)
      PROVE  LockHeld' /\ FromDocument' /\ MergedSoFar' /\ SinceArrival' /\ TrustKept'
  <2>1. /\ rf'.pc = "assign" /\ rf'.todo = rf.todo /\ rf'.fresh = rf.fresh
        /\ rf.pc = "merge" /\ UNCHANGED <<keys, locked, handlers, trust>>
    BY <1>0, <1>8 DEF BeginAssign, Refreshers
  <2>2. Merged' = Merged /\ Ring' = Ring
    BY <2>1 DEF Merged, Ring
  <2> QED
    BY <2>1, <2>2 DEF LockHeld, FromDocument, MergedSoFar, SinceArrival, TrustKept
<1> QED
  BY <1>2, <1>3, <1>4, <1>5, <1>6, <1>7, <1>8 DEF RefreshStep

\* Steps of a request.
LEMMA RequestInv ==
    ASSUME RingInv, NEW h \in Handlers,
           Copy(h) \/ Lookup(h) \/ \E t \in Tokens : Arrive(h, t)
    PROVE  LockHeld' /\ FromDocument' /\ MergedSoFar' /\ SinceArrival' /\ TrustKept'
<1> USE DEF RingInv
<1>1. UNCHANGED <<keys, locked, rf, trust>>
  BY DEF Copy, Lookup, Arrive
<1>2. Merged' = Merged /\ Ring' = Ring
  BY <1>1 DEF Merged, Ring
<1>3. ASSUME NEW g \in Handlers, g # h
      PROVE  handlers'[g] = handlers[g]
  BY <1>3 DEF Copy, Lookup, Arrive, TypeOK
<1>4. /\ handlers'[h].pc \in {"copy", "lookup"} =>
            KeyOfKid(Ring, handlers'[h].token) \subseteq handlers'[h].since
      /\ handlers'[h].pc = "lookup" =>
            KeyOfKid(keys, handlers'[h].token) \subseteq handlers'[h].since
  <2>1. CASE Copy(h)
    <3>1. handlers[h] \in Asked /\ handlers[h].pc = "copy" /\ ~locked
      BY <2>1 DEF Copy, TypeOK, Idle
    <3>2. handlers'[h] = [handlers[h] EXCEPT !.pc = "lookup"]
      BY <2>1 DEF Copy, TypeOK
    <3>3. /\ handlers'[h].token = handlers[h].token
          /\ handlers'[h].since = handlers[h].since
      BY <3>1, <3>2 DEF Asked
    <3> QED  BY <3>1, <3>3 DEF SinceArrival, Ring
  <2>2. CASE Lookup(h)
    <3>1. handlers[h] \in Asked
      BY <2>2 DEF Lookup, TypeOK, Idle
    <3>2. \/ handlers'[h] = [handlers[h] EXCEPT !.pc = "verified", !.since = {}]
          \/ handlers'[h] = Idle
      BY <2>2 DEF Lookup, TypeOK
    <3>3. [handlers[h] EXCEPT !.pc = "verified", !.since = {}].pc = "verified"
      BY <3>1 DEF Asked
    <3>4. Idle.pc = "idle"
      BY DEF Idle
    <3> QED  BY <3>2, <3>3, <3>4
  <2>3. ASSUME NEW t \in Tokens, Arrive(h, t)
        PROVE  /\ handlers'[h].pc = "copy"
               /\ KeyOfKid(Ring, handlers'[h].token) \subseteq handlers'[h].since
    BY <2>3 DEF Arrive, TypeOK
  <2> QED  BY <2>1, <2>2, <2>3
<1>5. SinceArrival'
  BY <1>1, <1>2, <1>3, <1>4 DEF SinceArrival
<1> QED
  BY <1>1, <1>2, <1>5 DEF LockHeld, FromDocument, MergedSoFar, TrustKept

LEMMA RingInvStep ==
    ASSUME RingInv, [Next]_vars
    PROVE  RingInv'
<1>1. TypeOK'
  BY TypeStep DEF RingInv
<1>2. CASE RefreshStep
  BY <1>1, <1>2, RefreshInv DEF RingInv
<1>3. ASSUME NEW h \in Handlers,
             Copy(h) \/ Lookup(h) \/ \E t \in Tokens : Arrive(h, t)
      PROVE  RingInv'
  BY <1>1, <1>3, RequestInv DEF RingInv
<1>4. ASSUME Start, UNCHANGED trust
      PROVE  RingInv'
  BY <1>1, <1>4, StartKeepsTrust DEF RingInv
<1>5. ASSUME UNCHANGED <<trust, process>>
      PROVE  RingInv'
  BY <1>1, <1>5 DEF RingInv, process, LockHeld, FromDocument, MergedSoFar,
     SinceArrival, TrustKept, Merged, Ring
<1> QED
  BY <1>2, <1>3, <1>4, <1>5
     DEF Next, ConcurrentMapRead, Crash, ProbeRestart, Rotate, vars

LEMMA RingInvInit == Init => RingInv
<1> SUFFICES ASSUME Init PROVE RingInv
  OBVIOUS
<1>1. TypeOK
  BY InitTyped
<1>2. \A k \in Kids : KeysUnder(trust, k) # {} => keys[k] \in KeysUnder(trust, k)
  BY ParsedKeys DEF Init
<1>3. TrustKept
  BY <1>2 DEF TrustKept
<1>4. rf.pc = "fetch" /\ ~locked /\ \A h \in Handlers : handlers[h].pc = "idle"
  BY Blank DEF Init, Idle
<1> QED
  BY <1>1, <1>3, <1>4 DEF RingInv, LockHeld, FromDocument, MergedSoFar, SinceArrival

(***************************************************************************)
(* A kid of the trust file has, at any moment, a key from the file or from *)
(* a document that parses as a whole (main, refreshJWKS).                  *)
(***************************************************************************)
THEOREM TrustIsKept == Spec => []TrustKept
<1>1. RingInv => TrustKept
  BY DEF RingInv
<1> QED  BY <1>1, RingInvInit, RingInvStep, PTL DEF Spec
-----------------------------------------------------------------------------
\* The abstract requests.
Requests == [h \in Handlers |-> Request(h)]



\* What a parsed document gives is what the abstract verifier loads from it.
LEMMA ParsedSupplies ==
    ASSUME NEW d \in SUBSET Entries, NEW f \in Parsed(d), NEW old, NEW new,
           \A k \in Kids : new[k] = IF f[k] = None THEN old[k] ELSE f[k]
    PROVE  KR!Supplies(d, old, new)
<1> SUFFICES ASSUME NEW k \in Kids
             PROVE  IF \E e \in d : e.kid = k
                    THEN \E e \in d : e.kid = k /\ e.key = new[k]
                    ELSE new[k] = old[k]
  BY DEF KR!Supplies
<1>1. CASE \E e \in d : e.kid = k
  <2>1. KeysUnder(d, k) # {}
    BY <1>1 DEF KeysUnder
  <2>2. f[k] \in KeysUnder(d, k)
    BY <2>1, ParsedKeys
  <2>3. PICK e \in d : e.kid = k /\ e.key = f[k]
    BY <2>2 DEF KeysUnder
  <2>4. f[k] # None
    BY <2>3, OidcVerifierAssumption DEF Entries
  <2> QED  BY <1>1, <2>3, <2>4
<1>2. CASE ~\E e \in d : e.kid = k
  <2>1. KeysUnder(d, k) = {}
    BY <1>2 DEF KeysUnder
  <2>2. f[k] = None
    BY <2>1, ParsedKeys
  <2> QED  BY <1>2, <2>2
<1> QED  BY <1>1, <1>2

LEMMA TrustSupplies ==
    ASSUME trust \in TrustFiles, NEW f \in Parsed(trust)
    PROVE  KR!Supplies(trust, [k \in Kids |-> None], f)
<1>1. trust \in SUBSET Entries
  BY OidcVerifierAssumption
<1>2. \A k \in Kids : f[k] = IF f[k] = None THEN [j \in Kids |-> None][k] ELSE f[k]
  OBVIOUS
<1> QED  BY <1>1, <1>2, ParsedSupplies

LEMMA StartResets ==
    ASSUME TypeOK, Start, UNCHANGED trust
    PROVE  KR!Reset
<1>1. Ring' = keys'
  BY DEF Start, Ring
<1>2. keys' \in [Kids -> Keys]
  BY ParsedKeys DEF Start
<1>3. KR!Supplies(trust, [k \in Kids |-> None], keys')
  BY TrustSupplies DEF Start, TypeOK
<1>4. \A h \in Handlers : Request(h)' = [state |-> "none"]
  BY DEF Start, Request, Idle
<1> QED  BY <1>1, <1>2, <1>3, <1>4 DEF KR!Reset, KR!Unasked

LEMMA InitRefines ==
    ASSUME Init
    PROVE  KR!RingInit
<1>1. Ring = keys /\ keys \in [Kids -> Keys]
  BY ParsedKeys DEF Init, Ring
<1>2. KR!Whole(trust)
  BY OidcVerifierAssumption DEF Init, KR!Whole, KR!Named, ParseFails
<1>3. KR!Supplies(trust, [k \in Kids |-> None], keys)
  BY TrustSupplies DEF Init
<1>4. \A h \in Handlers : Request(h) = [state |-> "none"]
  BY DEF Init, Request, Idle
<1> QED  BY <1>1, <1>2, <1>3, <1>4 DEF KR!RingInit, KR!Unasked

\* Taking the lock is where a document becomes visible.
LEMMA LockLoads ==
    ASSUME RingInv, Lock
    PROVE  \E d \in Documents : KR!Load(d)
<1> USE DEF RingInv
<1>1. PICK d \in Documents : ~ParseFails(d) /\ rf.fresh \in Parsed(d)
  BY DEF FromDocument, Lock
<1>2. rf \in Refreshers /\ ~locked /\ locked' /\ UNCHANGED <<keys, trust>>
  BY DEF Lock, TypeOK
<1>3. rf'.fresh = rf.fresh
  BY <1>2 DEF Lock, Refreshers
<1>4. Ring = keys /\ Ring' = Merged /\ Merged \in [Kids -> Keys]
  BY <1>2, <1>3, RingTyped DEF Ring, Merged
<1>5. KR!Whole(d)
  BY <1>1 DEF KR!Whole, KR!Named, ParseFails
<1>6. KR!Supplies(d, keys, Merged)
  <2>1. d \in SUBSET Entries
    BY OidcVerifierAssumption
  <2>2. \A k \in Kids : Merged[k] = IF rf.fresh[k] = None THEN keys[k] ELSE rf.fresh[k]
    BY DEF Merged
  <2> QED  BY <1>1, <2>1, <2>2, ParsedSupplies
<1>7. ASSUME NEW h \in Handlers
      PROVE  Request(h)' = IF Request(h).state = "asked"
                           THEN [Request(h) EXCEPT
                                   !.since = @ \cup KR!InRing(Merged, Request(h).token)]
                           ELSE Request(h)
  <2>1. CASE handlers[h].pc \in {"copy", "lookup"}
    <3>1. handlers[h] \in Asked
      BY <2>1 DEF TypeOK, Idle
    <3>2. handlers'[h] = [handlers[h] EXCEPT
                            !.since = @ \cup KeyOfKid(Merged, handlers[h].token)]
      BY <2>1 DEF Lock
    <3>3. /\ handlers'[h].pc = handlers[h].pc /\ handlers'[h].token = handlers[h].token
          /\ handlers'[h].since =
                handlers[h].since \cup KeyOfKid(Merged, handlers[h].token)
      BY <3>1, <3>2 DEF Asked
    <3>4. Request(h) = [state |-> "asked", token |-> handlers[h].token,
                        since |-> handlers[h].since]
      BY <2>1 DEF Request
    <3>5. Request(h)' = [state |-> "asked", token |-> handlers[h].token,
                         since |-> handlers[h].since
                                     \cup KeyOfKid(Merged, handlers[h].token)]
      BY <2>1, <3>3 DEF Request
    <3>6. KR!InRing(Merged, handlers[h].token) = KeyOfKid(Merged, handlers[h].token)
      BY DEF KR!InRing, KeyOfKid
    <3> QED  BY <3>4, <3>5, <3>6
  <2>2. CASE ~(handlers[h].pc \in {"copy", "lookup"})
    <3>1. handlers'[h] = handlers[h]
      BY <2>2 DEF Lock
    <3>2. handlers[h].pc \in {"idle", "verified"}
      BY <2>2 DEF TypeOK, Asked, Idle
    <3> QED  BY <3>1, <3>2 DEF Request
  <2> QED  BY <2>1, <2>2
<1>8. Requests' = [h \in Handlers |->
                     IF Requests[h].state = "asked"
                     THEN [Requests[h] EXCEPT
                             !.since = @ \cup KR!InRing(Ring', Requests[h].token)]
                     ELSE Requests[h]]
  BY <1>4, <1>7 DEF Requests
<1>9. KR!Load(d)
  BY <1>2, <1>4, <1>5, <1>6, <1>8 DEF KR!Load, Requests
<1> QED  BY <1>9

\* The other steps of a refresh do not show.
LEMMA RefreshHidden ==
    ASSUME RingInv, RefreshStep, ~Lock
    PROVE  UNCHANGED <<trust, Ring, Requests>>
<1> USE DEF RingInv
<1>0. rf \in Refreshers /\ keys \in [Kids -> Keys] /\ rf.fresh \in [Kids -> Keys]
  BY DEF TypeOK, Refreshers
<1>1. UNCHANGED <<trust, handlers>>
  BY DEF RefreshStep, FetchFailed, Fetch, EndAssign, Unlock, Wake, BeginAssign
<1>2. Requests' = Requests
  BY <1>1 DEF Requests, Request
<1>3. CASE FetchFailed \/ Fetch \/ Wake
  <2>1. rf.pc \in {"fetch", "sleep"} /\ UNCHANGED <<keys, locked>>
    BY <1>3 DEF FetchFailed, Fetch, Wake
  <2>2. ~locked
    BY <2>1 DEF LockHeld
  <2> QED  BY <1>1, <1>2, <2>1, <2>2 DEF Ring
<1>4. CASE EndAssign
  <2>1. /\ rf'.fresh = rf.fresh /\ UNCHANGED locked
        /\ rf.kid \in Kids /\ rf.fresh[rf.kid] # None /\ locked
        /\ keys' = [keys EXCEPT ![rf.kid] = rf.fresh[rf.kid]]
    BY <1>0, <1>4 DEF EndAssign, Refreshers, TypeOK, LockHeld
  <2>2. Merged' = Merged /\ Ring' = Merged' /\ Ring = Merged
    BY <1>0, <2>1 DEF Merged, Ring
  <2> QED  BY <1>1, <1>2, <2>2
<1>5. CASE Unlock
  <2>1. ~locked' /\ UNCHANGED keys /\ rf.todo = {} /\ locked
    BY <1>5 DEF Unlock, LockHeld
  <2>2. \A k \in Kids : keys[k] = Merged[k]
    BY <2>1 DEF MergedSoFar
  <2>3. keys = Merged
    BY <1>0, <2>2, RingTyped
  <2> QED  BY <1>1, <1>2, <2>1, <2>3 DEF Ring
<1>6. ASSUME NEW k \in Kids, BeginAssign(k)
      PROVE  UNCHANGED <<trust, Ring, Requests>>
  <2>1. rf'.fresh = rf.fresh /\ UNCHANGED <<keys, locked>>
    BY <1>0, <1>6 DEF BeginAssign, Refreshers
  <2> QED  BY <1>1, <1>2, <2>1 DEF Ring, Merged
<1> QED  BY <1>3, <1>4, <1>5, <1>6 DEF RefreshStep

\* What a read of the map finds for a token has been in the ring since the
\* request arrived.
LEMMA FoundSince ==
    ASSUME RingInv, NEW h \in Handlers, handlers[h].pc = "lookup",
           NEW key \in Found(handlers[h].token), key # None
    PROVE  key \in handlers[h].since
<1> DEFINE t == handlers[h].token
<1>1. /\ KeyOfKid(Ring, t) \subseteq handlers[h].since
      /\ KeyOfKid(keys, t) \subseteq handlers[h].since
  BY DEF RingInv, SinceArrival
<1>2. t.kid \in Kids
  <2>1. handlers[h] \in Asked
    BY DEF RingInv, TypeOK, Idle
  <2>2. t.kid \in Kids \cup {None}
    BY <2>1, OidcVerifierAssumption DEF Asked, AllTokens
  <2>3. t.kid # None
    BY DEF Found
  <2> QED  BY <2>2, <2>3
<1>3. keys[t.kid] \in KeyOfKid(keys, t)
  BY <1>2 DEF KeyOfKid
<1>4. CASE key = keys[t.kid]
  BY <1>1, <1>3, <1>4
<1>5. CASE key # keys[t.kid]
  <2>1. rf.pc = "assign" /\ rf.kid = t.kid /\ key = rf.fresh[t.kid]
    BY <1>2, <1>5, OidcVerifierAssumption DEF Found
  <2>2. locked
    BY <2>1 DEF RingInv, LockHeld
  <2>3. Ring[t.kid] = key
    BY <1>2, <2>1, <2>2 DEF Ring, Merged
  <2>4. key \in KeyOfKid(Ring, t)
    BY <1>2, <2>3 DEF KeyOfKid
  <2> QED  BY <1>1, <2>4
<1> QED  BY <1>4, <1>5

LEMMA RequestRefines ==
    ASSUME RingInv, NEW h \in Handlers,
           Copy(h) \/ Lookup(h) \/ \E t \in Tokens : Arrive(h, t)
    PROVE  \/ \E t \in Tokens : KR!Ask(h, t)
           \/ KR!Verify(h) \/ KR!Refuse(h)
           \/ UNCHANGED KR!rvars
<1> USE DEF RingInv
<1>1. UNCHANGED <<keys, locked, rf, trust>>
  BY DEF Copy, Lookup, Arrive
<1>2. Ring' = Ring /\ UNCHANGED trust
  BY <1>1 DEF Merged, Ring
<1>3. ASSUME NEW g \in Handlers, g # h
      PROVE  Request(g)' = Request(g)
  <2>1. handlers'[g] = handlers[g]
    BY <1>3 DEF Copy, Lookup, Arrive, TypeOK
  <2> QED  BY <2>1 DEF Request
<1>4. ASSUME NEW t \in Tokens, Arrive(h, t)
      PROVE  KR!Ask(h, t)
  <2>1. Request(h).state # "asked"
    BY <1>4 DEF Arrive, Request
  <2>2. handlers'[h] = [pc |-> "copy", token |-> t, since |-> KeyOfKid(Ring, t)]
    BY <1>4 DEF Arrive, TypeOK
  <2>3. Request(h)' = [state |-> "asked", token |-> t, since |-> KR!InRing(Ring, t)]
    BY <2>2 DEF Request, KeyOfKid, KR!InRing
  <2>4. Requests' = [Requests EXCEPT ![h] = Request(h)']
    BY <1>3 DEF Requests
  <2> QED  BY <1>2, <2>1, <2>3, <2>4 DEF KR!Ask, Requests
<1>5. CASE Copy(h)
  <2>1. handlers[h] \in Asked /\ handlers[h].pc = "copy"
    BY <1>5 DEF Copy, TypeOK, Idle
  <2>2. handlers'[h] = [handlers[h] EXCEPT !.pc = "lookup"]
    BY <1>5 DEF Copy, TypeOK
  <2>3. /\ handlers'[h].token = handlers[h].token
        /\ handlers'[h].since = handlers[h].since /\ handlers'[h].pc = "lookup"
    BY <2>1, <2>2 DEF Asked
  <2>4. Request(h)' = Request(h)
    BY <2>1, <2>3 DEF Request
  <2>5. Requests' = Requests
    BY <1>3, <2>4 DEF Requests
  <2> QED  BY <1>2, <2>5 DEF KR!rvars, Requests
<1>6. CASE Lookup(h)
  <2>1. handlers[h] \in Asked /\ handlers[h].pc = "lookup"
    BY <1>6 DEF Lookup, TypeOK, Idle
  <2>2. Request(h) = [state |-> "asked", token |-> handlers[h].token,
                      since |-> handlers[h].since]
    BY <2>1 DEF Request
  <2>3. Requests' = [Requests EXCEPT ![h] = Request(h)']
    BY <1>3 DEF Requests
  <2>4. PICK key \in Found(handlers[h].token) :
           handlers'[h] = IF key = handlers[h].token.key /\ handlers[h].token.valid
                          THEN [handlers[h] EXCEPT !.pc = "verified", !.since = {}]
                          ELSE Idle
    BY <1>6 DEF Lookup, TypeOK
  <2>5. CASE key = handlers[h].token.key /\ handlers[h].token.valid
    <3>1. key # None
      <4>1. handlers[h].token \in AllTokens
        BY <2>1, OidcVerifierAssumption DEF Asked
      <4>2. handlers[h].token.key \in Materials
        BY <4>1 DEF AllTokens
      <4> QED  BY <2>5, <4>2, OidcVerifierAssumption
    <3>2. key \in handlers[h].since
      BY <2>1, <3>1, FoundSince
    <3>3. handlers'[h] = [handlers[h] EXCEPT !.pc = "verified", !.since = {}]
      BY <2>4, <2>5
    <3>4. handlers'[h].pc = "verified" /\ handlers'[h].token = handlers[h].token
      BY <2>1, <3>3 DEF Asked
    <3>5. Request(h)' = [state |-> "verified", token |-> handlers[h].token]
      BY <3>4 DEF Request
    <3>6. /\ Requests[h].state = "asked" /\ Requests[h].since = handlers[h].since
          /\ Requests[h].token = handlers[h].token
      BY <2>2 DEF Requests
    <3>7. Requests[h].token.valid
      BY <2>5, <3>6, Zenon
    <3>8. Requests[h].token.key \in Requests[h].since
      BY <2>5, <3>2, <3>6
    <3>9. Requests' = [Requests EXCEPT ![h] =
                         [state |-> "verified", token |-> Requests[h].token]]
      BY <2>3, <3>5, <3>6
    <3> QED
      BY <1>2, <3>6, <3>7, <3>8, <3>9, Zenon DEF KR!Verify, Requests
  <2>6. CASE ~(key = handlers[h].token.key /\ handlers[h].token.valid)
    <3>1. Request(h)' = [state |-> "none"]
      BY <2>4, <2>6 DEF Request, Idle
    <3> QED  BY <1>2, <2>2, <2>3, <3>1 DEF KR!Refuse, KR!Unasked, Requests
  <2> QED  BY <2>5, <2>6
<1> QED  BY <1>4, <1>5, <1>6

LEMMA StepRefines ==
    ASSUME RingInv, [Next]_vars
    PROVE  [KR!RingNext]_(KR!rvars)
<1>1. CASE Lock
  BY <1>1, LockLoads DEF KR!RingNext
<1>2. ASSUME UNCHANGED <<trust, Ring, Requests>>
      PROVE  [KR!RingNext]_(KR!rvars)
  BY <1>2 DEF KR!rvars, Requests
<1>3. CASE RefreshStep /\ ~Lock
  BY <1>2, <1>3, RefreshHidden
<1>4. ASSUME NEW h \in Handlers,
             Copy(h) \/ Lookup(h) \/ \E t \in Tokens : Arrive(h, t)
      PROVE  [KR!RingNext]_(KR!rvars)
  BY <1>4, RequestRefines DEF KR!RingNext
<1>5. ASSUME Start, UNCHANGED trust
      PROVE  [KR!RingNext]_(KR!rvars)
  BY <1>5, StartResets DEF RingInv, KR!RingNext
<1>6. ASSUME UNCHANGED <<trust, process>>
      PROVE  UNCHANGED <<trust, Ring, Requests>>
  BY <1>6 DEF process, Merged, Ring, Requests, Request
<1> QED
  BY <1>1, <1>2, <1>3, <1>4, <1>5, <1>6
     DEF Next, ConcurrentMapRead, Crash, ProbeRestart, Rotate, vars

(***************************************************************************)
(* Every step of the verifier is a step of KeyRing or a stutter: its ring  *)
(* changes by whole documents, and tokens are verified by keys it had      *)
(* since the request arrived (handleVerify, refreshJWKS).                  *)
(***************************************************************************)
THEOREM ImplementsKeyRing == Spec => KeepsKeyRing
<1>1. Init => RingInv /\ KR!RingInit
  BY RingInvInit, InitRefines
<1>2. RingInv /\ [Next]_vars => RingInv'
  BY RingInvStep
<1>3. RingInv /\ [Next]_vars => [KR!RingNext]_(KR!rvars)
  BY StepRefines
<1> QED
  BY <1>1, <1>2, <1>3, PTL DEF Spec, KeepsKeyRing, KR!RingSpec
=============================================================================
