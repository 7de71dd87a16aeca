------------------------- MODULE CacheManagerProofs -------------------------
(***************************************************************************)
(* Theorems about CacheManager, for every set of clients, keys and values, *)
(* and every pair of lifetimes with EntryTTL <= IndexTTL, with and without *)
(* faults.                                                                 *)
(*                                                                         *)
(* A command that gets lost puts the keys it was about under suspicion, so *)
(* that nothing is claimed of them; the others keep what is claimed.       *)
(***************************************************************************)
EXTENDS CacheManager, TLAPS

-----------------------------------------------------------------------------
(* Types.                                                                  *)

\* What a call in progress holds is told by where it is.
LEMMA CallShape ==
    ASSUME TypeOK, NEW c \in Clients
    PROVE  /\ Setting(c) => call[c] \in SetCall /\ call[c].key \in Keys /\ ~Clearing(c)
           /\ Clearing(c) => call[c] \in ClearCall /\ call[c].keys \subseteq Keys
           /\ At(c, "factory") => call[c] \in FactoryCall /\ call[c].key \in Keys
  BY DEF TypeOK, Setting, Clearing, At, Free, Call, SetCall, ClearCall, FactoryCall

\* The records the actions put into `call` are calls, not NoCall.
LEMMA NewCalls ==
    ASSUME NEW S \in SUBSET Keys
    PROVE  /\ [pc |-> "clear", keys |-> S] \in Call
           /\ \A k \in Keys :
                /\ [pc |-> "register_read", key |-> k, keys |-> S] \in Call
                /\ [pc |-> "register_write", key |-> k, keys |-> S] \in Call
                /\ [pc |-> "factory", key |-> k] \in Call
  BY DEF Call, SetCall, ClearCall, FactoryCall

\* A registration that has read the index keeps its key.
LEMMA ReadCall ==
    ASSUME NEW r \in SetCall, NEW seen \in SUBSET Keys
    PROVE  [r EXCEPT !.pc = "register_write", !.keys = seen]
             = [pc |-> "register_write", key |-> r.key, keys |-> seen]
<1> DEFINE moved == [r EXCEPT !.pc = "register_write"]
<1>1. moved = [pc |-> "register_write", key |-> r.key, keys |-> r.keys]
  BY DEF SetCall
<1> HIDE DEF moved
<1>2. [moved EXCEPT !.keys = seen] = [pc |-> "register_write", key |-> r.key, keys |-> seen]
  BY <1>1
<1>3. QED BY <1>2 DEF moved

\* An entry ages towards its end and comes back from nowhere.
LEMMA AgedType ==
    ASSUME TypeOK, NEW k \in Keys
    PROVE  /\ Aged(k) \in Entry \cup {Absent}
           /\ Aged(k) # Absent => /\ Cached(k) /\ entries[k] \in Entry
                                  /\ Aged(k).ttl = entries[k].ttl - 1
                                  /\ Aged(k).ttl \in 1..EntryTTL
<1>1. CASE Cached(k) /\ entries[k].ttl > 1
  <2>1. entries[k] \in Entry /\ entries[k].ttl \in 1..EntryTTL /\ entries[k].value \in Content
    BY <1>1 DEF TypeOK, Cached, Entry
  <2>2. [entries[k] EXCEPT !.ttl = @ - 1]
          = [value |-> entries[k].value, ttl |-> entries[k].ttl - 1]
    BY <2>1 DEF Entry
  <2>3. entries[k].ttl - 1 \in 1..EntryTTL
    BY <1>1, <2>1, CacheAssumption
  <2>4. QED BY <1>1, <2>1, <2>2, <2>3 DEF Aged, Entry
<1>2. CASE ~(Cached(k) /\ entries[k].ttl > 1)
  BY <1>2 DEF Aged
<1>3. QED BY <1>1, <1>2

\* Every action keeps the types.
LEMMA TypeStep == TypeOK /\ [Next]_vars => TypeOK'
<1> SUFFICES ASSUME TypeOK, [Next]_vars PROVE TypeOK'
  OBVIOUS
<1>1. ASSUME NEW c \in Clients, NEW k \in Keys, NEW v \in Content, Store(c, k, v)
      PROVE  TypeOK'
  <2>1. [value |-> v, ttl |-> EntryTTL] \in Entry
    BY CacheAssumption DEF Entry
  <2>2. entries' \in [Keys -> Entry \cup {Absent}]
    BY <1>1, <2>1 DEF Store, TypeOK, Lifetime
  <2>3. suspect' \subseteq Keys
    BY <1>1 DEF Store, TypeOK, SuspectOnSet, Raced, Met
  <2>4. call' \in [Clients -> Call \cup {NoCall}]
    BY <1>1, NewCalls DEF Store, TypeOK
  <2>5. QED BY <1>1, <2>2, <2>3, <2>4 DEF Store, TypeOK
<1>2. ASSUME NEW c \in Clients, NEW k \in Keys, GetOrSet(c, k) \/ Delete(c, k)
      PROVE  TypeOK'
  <2>1. call' \in [Clients -> Call \cup {NoCall}]
    BY <1>2, NewCalls DEF GetOrSet, Delete, TypeOK
  <2>2. QED BY <1>2, <2>1 DEF GetOrSet, Delete, TypeOK
<1>3. ASSUME NEW c \in Clients, RegisterRead(c)
      PROVE  TypeOK'
  <2>1. PICK seen \in SUBSET Keys :
          /\ call' = [call EXCEPT ![c].pc = "register_write", ![c].keys = seen]
          /\ suspect' = suspect \cup (index \ seen)
    BY <1>3 DEF RegisterRead, IndexReads, TypeOK
  <2>2. call[c] \in SetCall
    BY <1>3, CallShape DEF RegisterRead, Setting
  <2>3. /\ [call[c] EXCEPT !.pc = "register_write", !.keys = seen]
             = [pc |-> "register_write", key |-> call[c].key, keys |-> seen]
        /\ call[c].key \in Keys
    BY <2>2, ReadCall DEF SetCall
  <2>4. call' = [call EXCEPT ![c] = [pc |-> "register_write", key |-> call[c].key, keys |-> seen]]
    BY <2>1, <2>3
  <2>5. call' \in [Clients -> Call \cup {NoCall}]
    BY <2>3, <2>4, NewCalls DEF TypeOK
  <2>6. QED BY <1>3, <2>1, <2>5 DEF RegisterRead, TypeOK
<1>4. ASSUME NEW c \in Clients, RegisterWrite(c)
      PROVE  TypeOK'
  <2>1. Registered(c) \subseteq Keys /\ call[c].key \in Keys
    BY <1>4, CallShape DEF RegisterWrite, Registered, Setting, SetCall
  <2>2. QED BY <1>4, <2>1, CacheAssumption DEF RegisterWrite, TypeOK
<1>5. ASSUME NEW c \in Clients, ClearRead(c)
      PROVE  TypeOK'
  <2>1. PICK seen \in SUBSET Keys :
          /\ call' = [call EXCEPT ![c] = [pc |-> "clear", keys |-> seen]]
          /\ suspect' = SuspectOnClear(c) \cup (index \ seen)
    BY <1>5 DEF ClearRead, IndexReads, TypeOK
  <2>2. call' \in [Clients -> Call \cup {NoCall}]
    BY <2>1, NewCalls DEF TypeOK
  <2>3. QED BY <1>5, <2>1, <2>2 DEF ClearRead, TypeOK, SuspectOnClear, Met
<1>6. ASSUME NEW c \in Clients, ClearDelete(c)
      PROVE  TypeOK'
  <2>1. PICK k \in call[c].keys :
          /\ call' = [call EXCEPT ![c].keys = @ \ {k}]
          /\ suspect' \subseteq suspect \cup {k}
          /\ entries' = entries \/ entries' = [entries EXCEPT ![k] = Absent]
    BY <1>6 DEF ClearDelete
  <2>2. call[c] \in ClearCall
    BY <1>6, CallShape DEF ClearDelete
  <2>3. /\ [call[c] EXCEPT !.keys = @ \ {k}] = [pc |-> "clear", keys |-> call[c].keys \ {k}]
        /\ call[c].keys \subseteq Keys
    BY <2>2 DEF ClearCall
  <2>4. call' = [call EXCEPT ![c] = [pc |-> "clear", keys |-> call[c].keys \ {k}]]
    BY <2>1, <2>3
  <2>5. call' \in [Clients -> Call \cup {NoCall}]
    BY <2>3, <2>4, NewCalls DEF TypeOK
  <2>6. QED BY <1>6, <2>1, <2>3, <2>5 DEF ClearDelete, TypeOK
<1>7. ASSUME NEW c \in Clients, ClearIndex(c) \/ Crash(c)
      PROVE  TypeOK'
  BY <1>7, CallShape, CacheAssumption DEF ClearIndex, Crash, TypeOK
<1>8. CASE Tick
  <2>1. entries' \in [Keys -> Entry \cup {Absent}]
    BY <1>8, AgedType DEF Tick
  <2>2. indexTTL' \in 0..IndexTTL
    BY <1>8, CacheAssumption DEF Tick, TypeOK
  <2>3. QED BY <1>8, <2>1, <2>2 DEF Tick, TypeOK
<1>9. CASE UNCHANGED vars
  BY <1>9 DEF vars, TypeOK
<1>10. ASSUME NEW c \in Clients, NEW v \in Content, Produced(c, v)
       PROVE  TypeOK'
  BY <1>1, <1>10, CallShape DEF Produced
<1>11. QED BY <1>1, <1>2, <1>3, <1>4, <1>5, <1>6, <1>7, <1>8, <1>9, <1>10
           DEF Next, Continue, Set

-----------------------------------------------------------------------------
(* What calls in progress know.                                            *)

Claims ==
    /\ KeysSetAloneAreIndexed /\ SettersAreAlone
    /\ RegistrationsKeepListings /\ ClearsReachListings

\* What a step of client c leaves of the calls of the others.
Aside(c) ==
    \A d \in Clients \ {c} :
        /\ call'[d] = call[d]
        /\ Setting(d)' <=> Setting(d)
        /\ Clearing(d)' <=> Clearing(d)
        /\ At(d, "register_write")' <=> At(d, "register_write")
        /\ Registered(d)' = Registered(d)

\* A command of one client leaves the calls of the others alone.
LEMMA OthersUntouched ==
    ASSUME TypeOK, NEW c \in Clients, NEW new, call' = [call EXCEPT ![c] = new]
    PROVE  Aside(c) /\ call'[c] = new
  BY DEF TypeOK, Aside, Setting, Clearing, At, Free, Registered

\* A set() that begins alone clears its key of suspicion and lists nothing yet;
\* one that meets other calls makes their keys and its own suspect.
LEMMA StoreStep ==
    ASSUME IInv, TypeOK', NEW c \in Clients, NEW k \in Keys, NEW v \in Content,
           ~Setting(c), ~Clearing(c), Store(c, k, v)
    PROVE  Claims'
<1>0. TypeOK /\ Claims
  BY DEF IInv, Claims
<1>1. /\ \A j \in Keys \ {k} : entries'[j] = entries[j] /\ (j \notin suspect' => j \notin suspect)
      /\ ~Alone(c) => k \in suspect' /\ Met(c) \subseteq suspect'
  BY <1>0 DEF Store, SuspectOnSet, Raced, TypeOK
<1>2. Claims'
  <2> DEFINE new == [pc |-> "register_read", key |-> k, keys |-> {}]
  <2>1. Aside(c) /\ call'[c] = new
    BY <1>0, OthersUntouched DEF Store
  <2>2. Setting(c)' /\ ~Clearing(c)' /\ ~At(c, "register_write")' /\ call'[c].key = k
    <3>1. new \in Call
      BY NewCalls
    <3>2. QED BY <2>1, <3>1, CacheAssumption DEF Setting, Clearing, At, Free
  <2>3. \A d \in Clients : Setting(d) \/ Clearing(d) => d # c
    OBVIOUS
  <2>4. KeysSetAloneAreIndexed'
    <3> SUFFICES ASSUME NEW j \in Keys, Cached(j)', j \notin suspect', ~BeingSet(j)'
                 PROVE  j \in index' /\ indexTTL' >= entries'[j].ttl
      BY DEF KeysSetAloneAreIndexed
    <3>1. j # k
      BY <2>2 DEF BeingSet
    <3>2. ~BeingSet(j)
      BY <2>1, <2>3 DEF BeingSet, Aside
    <3>3. Cached(j) /\ j \notin suspect
      BY <1>1, <3>1 DEF Cached
    <3>4. QED BY <1>0, <1>1, <3>1, <3>2, <3>3
              DEF Claims, KeysSetAloneAreIndexed, Store
  <2>5. SettersAreAlone'
    <3> SUFFICES ASSUME NEW d \in Clients, Setting(d)', call'[d].key \notin suspect'
                 PROVE  Alone(d)'
      BY DEF SettersAreAlone
    <3>1. CASE d = c
      BY <1>1, <2>1, <2>2, <3>1 DEF Alone, Aside
    <3>2. CASE d # c
      <4>1. Setting(d) /\ call'[d] = call[d] /\ call[d].key \in Keys
        BY <1>0, <2>1, <3>2, CallShape DEF Aside
      <4>2. ~Alone(c) /\ call[d].key \in Met(c)
        BY <3>2, <4>1 DEF Alone, Met
      <4>3. QED BY <1>1, <4>1, <4>2
    <3>3. QED BY <3>1, <3>2
  <2>6. RegistrationsKeepListings' /\ ClearsReachListings'
    <3>1. ASSUME NEW d \in Clients, At(d, "register_write")' \/ Clearing(d)',
                 NEW j \in Keys, Cached(j)', j \notin suspect'
          PROVE  d # c /\ Cached(j) /\ j \notin suspect
      <4>1. d # c
        BY <2>2, <3>1
      <4>2. ~Alone(c)
        BY <2>1, <3>1, <4>1 DEF Alone, Aside, Setting
      <4>3. j # k
        BY <1>1, <3>1, <4>2
      <4>4. QED BY <1>1, <3>1, <4>1, <4>3 DEF Cached
    <3>2. QED BY <1>0, <2>1, <3>1
              DEF Claims, RegistrationsKeepListings, ClearsReachListings, Aside
  <2>7. QED BY <2>4, <2>5, <2>6 DEF Claims
<1>3. QED BY <1>2

\* The index that a registration has read lists every key no race has touched.
LEMMA RegisterReadStep ==
    ASSUME IInv, TypeOK', NEW c \in Clients, RegisterRead(c)
    PROVE  Claims'
<1>0. TypeOK /\ Claims /\ call[c] \in SetCall /\ Setting(c)
  BY CallShape DEF IInv, Claims, RegisterRead, Setting
<1>1. PICK seen \in SUBSET Keys :
        /\ call' = [call EXCEPT ![c].pc = "register_write", ![c].keys = seen]
        /\ suspect' = suspect \cup (index \ seen)
  BY <1>0 DEF RegisterRead, IndexReads, TypeOK
<1>2. Claims'
  <2> DEFINE new == [pc |-> "register_write", key |-> call[c].key, keys |-> seen]
  <2>1. Aside(c) /\ call'[c] = new
    <3>1. call' = [call EXCEPT ![c] = new]
      <4>1. [call[c] EXCEPT !.pc = "register_write", !.keys = seen] = new
        BY <1>0, ReadCall
      <4>2. QED BY <1>1, <4>1
    <3>2. QED BY <1>0, <3>1, OthersUntouched
  <2>2. Setting(c)' /\ ~Clearing(c)' /\ Registered(c)' = seen \cup {call[c].key}
    <3>1. call'[c] \in Call
      BY <1>0, <2>1, NewCalls DEF SetCall
    <3>2. QED BY <2>1, <3>1, CacheAssumption DEF Setting, Clearing, At, Free, Registered
  <2>3. suspect \subseteq suspect' /\ entries' = entries /\ index' = index /\ indexTTL' = indexTTL
    BY <1>1 DEF RegisterRead
  <2>4. \A d \in Clients : (Setting(d)' <=> Setting(d)) /\ (Clearing(d)' <=> Clearing(d))
                            /\ (Setting(d) => call'[d].key = call[d].key)
    BY <1>0, <2>1, <2>2, CallShape DEF Aside
  <2>5. KeysSetAloneAreIndexed'
    BY <1>0, <2>3, <2>4 DEF Claims, KeysSetAloneAreIndexed, BeingSet, Cached
  <2>6. SettersAreAlone'
    BY <1>0, <2>3, <2>4 DEF Claims, SettersAreAlone, Alone
  <2>7. RegistrationsKeepListings'
    <3> SUFFICES ASSUME NEW d \in Clients, NEW j \in Keys,
                        At(d, "register_write")', Cached(j), j \notin suspect'
                 PROVE  j \in Registered(d)'
      BY <2>3 DEF RegistrationsKeepListings, Cached
    <3>1. CASE d # c
      BY <1>0, <2>1, <2>3, <3>1 DEF Claims, RegistrationsKeepListings, Aside
    <3>2. CASE d = c /\ j # call[c].key
      <4>1. ~BeingSet(j)
        <5>1. SUFFICES ASSUME NEW e \in Clients, Setting(e), call[e].key = j
                       PROVE  FALSE
          BY DEF BeingSet
        <5>2. Alone(e) /\ e # c
          BY <1>0, <2>3, <3>2, <5>1 DEF Claims, SettersAreAlone
        <5>3. QED BY <1>0, <5>2 DEF Alone
      <4>2. QED BY <1>0, <1>1, <2>2, <3>2, <4>1 DEF Claims, KeysSetAloneAreIndexed
    <3>3. CASE d = c /\ j = call[c].key
      BY <2>2, <3>3
    <3>4. QED BY <3>1, <3>2, <3>3
  <2>8. ClearsReachListings'
    BY <1>0, <2>1, <2>2, <2>3 DEF Claims, ClearsReachListings, Aside, Cached
  <2>9. QED BY <2>5, <2>6, <2>7, <2>8 DEF Claims
<1>3. QED BY <1>2

\* Writing the index back ends the set(): its key is listed, and so is every
\* other that no race has touched, all for another full lifetime.
LEMMA RegisterWriteStep ==
    ASSUME IInv, TypeOK', NEW c \in Clients, RegisterWrite(c)
    PROVE  Claims'
<1>0. TypeOK /\ Claims /\ Setting(c) /\ At(c, "register_write")
  BY DEF IInv, Claims, RegisterWrite, Setting
<1>1. Aside(c) /\ call'[c] = NoCall
  BY <1>0, OthersUntouched DEF RegisterWrite
<1>2. ~Setting(c)' /\ ~Clearing(c)'
  BY <1>1 DEF Setting, Clearing, At, Free
<1>3. CASE suspect' = suspect \cup {call[c].key} /\ UNCHANGED <<index, indexTTL>>
  <2>1. entries' = entries
    BY DEF RegisterWrite
  <2>2. KeysSetAloneAreIndexed'
    <3> SUFFICES ASSUME NEW j \in Keys, Cached(j), j \notin suspect, j # call[c].key, ~BeingSet(j)'
                 PROVE  j \in index /\ indexTTL >= entries[j].ttl
      BY <1>3, <2>1 DEF KeysSetAloneAreIndexed, Cached
    <3>1. ~BeingSet(j)
      BY <1>1 DEF BeingSet, Aside
    <3>2. QED BY <1>0, <3>1 DEF Claims, KeysSetAloneAreIndexed
  <2>3. SettersAreAlone' /\ RegistrationsKeepListings' /\ ClearsReachListings'
    BY <1>0, <1>1, <1>2, <1>3, <2>1
       DEF Claims, SettersAreAlone, RegistrationsKeepListings, ClearsReachListings,
           Aside, Alone, Cached, Setting
  <2>4. QED BY <2>2, <2>3 DEF Claims
<1>4. CASE index' = Registered(c) /\ indexTTL' = IndexTTL /\ suspect' = suspect
  <2>1. entries' = entries
    BY DEF RegisterWrite
  <2>2. KeysSetAloneAreIndexed'
    <3> SUFFICES ASSUME NEW j \in Keys, Cached(j), j \notin suspect
                 PROVE  j \in index' /\ indexTTL' >= entries[j].ttl
      BY <1>4, <2>1 DEF KeysSetAloneAreIndexed, Cached
    <3>1. j \in Registered(c)
      BY <1>0 DEF Claims, RegistrationsKeepListings
    <3>2. entries[j].ttl \in 1..EntryTTL
      BY <1>0 DEF TypeOK, Cached, Entry
    <3>3. QED BY <1>4, <3>1, <3>2, CacheAssumption
  <2>3. SettersAreAlone' /\ RegistrationsKeepListings' /\ ClearsReachListings'
    BY <1>0, <1>1, <1>2, <1>4, <2>1
       DEF Claims, SettersAreAlone, RegistrationsKeepListings, ClearsReachListings,
           Aside, Alone, Cached, Setting
  <2>4. QED BY <2>2, <2>3 DEF Claims
<1>5. QED BY <1>3, <1>4 DEF RegisterWrite

\* A clear that begins knows every key no race has touched; it makes suspect
\* those that are being set.
LEMMA ClearReadStep ==
    ASSUME IInv, TypeOK', NEW c \in Clients, ClearRead(c)
    PROVE  Claims'
<1>0. TypeOK /\ Claims /\ ~Setting(c) /\ ~Clearing(c)
  BY DEF IInv, Claims, ClearRead, Free, Setting, Clearing, At
<1>1. PICK seen \in SUBSET Keys :
        /\ call' = [call EXCEPT ![c] = [pc |-> "clear", keys |-> seen]]
        /\ suspect' = SuspectOnClear(c) \cup (index \ seen)
  BY <1>0 DEF ClearRead, IndexReads, TypeOK
<1>2. Claims'
  <2> DEFINE new == [pc |-> "clear", keys |-> seen]
  <2>1. Aside(c) /\ call'[c] = new
    BY <1>0, <1>1, OthersUntouched
  <2>2. ~Setting(c)' /\ Clearing(c)' /\ ~At(c, "register_write")' /\ call'[c].keys = seen
    <3>1. new \in Call
      BY NewCalls
    <3>2. QED BY <2>1, <3>1, CacheAssumption DEF Setting, Clearing, At, Free
  <2>3. /\ suspect' = suspect \cup Met(c) \cup (index \ seen)
        /\ UNCHANGED <<entries, index, indexTTL>>
    BY <1>1 DEF ClearRead, SuspectOnClear
  <2>4. \A j \in Keys : BeingSet(j) => j \in Met(c)
    BY <1>0 DEF BeingSet, Met
  <2>5. \A j \in Keys : BeingSet(j) => BeingSet(j)'
    BY <1>0, <2>1 DEF BeingSet, Aside
  <2>6. KeysSetAloneAreIndexed'
    BY <1>0, <2>3, <2>5 DEF Claims, KeysSetAloneAreIndexed, Cached
  <2>7. SettersAreAlone'
    <3> SUFFICES ASSUME NEW d \in Clients, Setting(d)', call'[d].key \notin suspect'
                 PROVE  FALSE
      BY DEF SettersAreAlone
    <3>1. d # c /\ Setting(d) /\ call'[d] = call[d] /\ call[d].key \in Keys
      BY <1>0, <2>1, <2>2, CallShape DEF Aside
    <3>2. QED BY <2>3, <3>1 DEF Met
  <2>8. RegistrationsKeepListings'
    BY <1>0, <2>1, <2>2, <2>3 DEF Claims, RegistrationsKeepListings, Aside, Cached
  <2>9. ClearsReachListings'
    <3> SUFFICES ASSUME NEW d \in Clients, NEW j \in Keys,
                        Clearing(d)', Cached(j), j \notin suspect, j \notin Met(c),
                        j \notin index \ seen
                 PROVE  j \in call'[d].keys
      BY <2>3 DEF ClearsReachListings, Cached
    <3>1. CASE d = c
      BY <1>0, <2>2, <2>4, <3>1 DEF Claims, KeysSetAloneAreIndexed
    <3>2. CASE d # c
      BY <1>0, <2>1, <3>2 DEF Claims, ClearsReachListings, Aside
    <3>3. QED BY <3>1, <3>2
  <2>10. QED BY <2>6, <2>7, <2>8, <2>9 DEF Claims
<1>3. QED BY <1>2

\* A clear forgets a key when the entry is gone.
LEMMA ClearDeleteStep ==
    ASSUME IInv, TypeOK', NEW c \in Clients, ClearDelete(c)
    PROVE  Claims'
<1>0. TypeOK /\ Claims /\ Clearing(c) /\ call[c] \in ClearCall
  BY CallShape DEF IInv, Claims, ClearDelete
<1>1. PICK k \in call[c].keys :
        /\ call' = [call EXCEPT ![c].keys = @ \ {k}]
        /\ \/ entries' = [entries EXCEPT ![k] = Absent] /\ UNCHANGED suspect
           \/ UNCHANGED entries /\ suspect' = suspect \cup {k}
  BY DEF ClearDelete
<1>2. /\ suspect \subseteq suspect'
      /\ \A j \in Keys : Cached(j)' /\ j \notin suspect' =>
            j # k /\ Cached(j) /\ entries'[j] = entries[j]
  BY <1>0, <1>1 DEF TypeOK, Cached
<1>3. Claims'
  <2> DEFINE new == [pc |-> "clear", keys |-> call[c].keys \ {k}]
  <2>1. Aside(c) /\ call'[c] = new /\ call[c].keys \subseteq Keys
    <3>1. [call[c] EXCEPT !.keys = @ \ {k}] = new /\ call[c].keys \subseteq Keys
      BY <1>0 DEF ClearCall
    <3>2. call' = [call EXCEPT ![c] = new]
      BY <1>1, <3>1
    <3>3. QED BY <1>0, <3>1, <3>2, OthersUntouched
  <2>2. ~Setting(c) /\ ~Setting(c)' /\ ~At(c, "register_write")'
    <3>1. ~Setting(c)
      BY <1>0, CallShape
    <3>2. QED BY <2>1, <3>1 DEF Setting, At
  <2>3. UNCHANGED <<index, indexTTL>>
    BY DEF ClearDelete
  <2>4. KeysSetAloneAreIndexed'
    <3>1. \A j \in Keys : BeingSet(j) => BeingSet(j)'
      BY <2>1, <2>2 DEF BeingSet, Aside
    <3>2. QED BY <1>0, <1>2, <2>3, <3>1 DEF Claims, KeysSetAloneAreIndexed
  <2>5. SettersAreAlone'
    <3>1. \A d \in Clients : Setting(d)' => d # c /\ Setting(d) /\ call'[d] = call[d]
      BY <2>1, <2>2 DEF Aside
    <3>2. QED BY <1>0, <1>2, <2>1, <3>1 DEF Claims, SettersAreAlone, Alone, Aside
  <2>6. RegistrationsKeepListings'
    BY <1>0, <1>2, <2>1, <2>2 DEF Claims, RegistrationsKeepListings, Aside
  <2>7. ClearsReachListings'
    <3> SUFFICES ASSUME NEW d \in Clients, NEW j \in Keys,
                        Clearing(d)', Cached(j), j # k, j \notin suspect
                 PROVE  j \in call'[d].keys
      BY <1>2 DEF ClearsReachListings
    <3>1. CASE d = c
      BY <1>0, <2>1, <3>1 DEF Claims, ClearsReachListings
    <3>2. CASE d # c
      BY <1>0, <2>1, <3>2 DEF Claims, ClearsReachListings, Aside
    <3>3. QED BY <3>1, <3>2
  <2>8. QED BY <2>4, <2>5, <2>6, <2>7 DEF Claims
<1>4. QED BY <1>3

\* What a clear knows when it comes to the index.
LEMMA NothingLeftToClear ==
    ASSUME IInv, NEW c \in Clients, ClearIndex(c), NEW k \in Keys, Cached(k)
    PROVE  k \in suspect
  BY DEF IInv, ClearsReachListings, ClearIndex

\* A clear ends, and the index with it: nothing is left that it lists, but for
\* keys under suspicion.
LEMMA ClearIndexStep ==
    ASSUME IInv, TypeOK', NEW c \in Clients, ClearIndex(c)
    PROVE  Claims'
<1>0. TypeOK /\ Claims /\ ~Setting(c)
  BY CallShape DEF IInv, Claims, ClearIndex
<1>1. Aside(c) /\ call'[c] = NoCall
  BY <1>0, OthersUntouched DEF ClearIndex
<1>2. ~Setting(c)' /\ ~Clearing(c)'
  BY <1>1 DEF Setting, Clearing, At, Free
<1>3. UNCHANGED <<entries, suspect>>
  BY DEF ClearIndex
<1>4. \A k \in Keys : Cached(k)' => k \in suspect'
  BY <1>3, NothingLeftToClear DEF Cached
<1>5. SettersAreAlone'
  BY <1>0, <1>1, <1>2, <1>3 DEF Claims, SettersAreAlone, Aside, Alone
<1>6. QED BY <1>4, <1>5 DEF Claims, KeysSetAloneAreIndexed, RegistrationsKeepListings,
                            ClearsReachListings

\* The client dies: a key it was setting may be cached and not listed.
LEMMA CrashStep ==
    ASSUME IInv, TypeOK', NEW c \in Clients, Crash(c)
    PROVE  Claims'
<1>0. TypeOK /\ Claims
  BY DEF IInv, Claims
<1>1. Aside(c) /\ call'[c] = NoCall
  BY <1>0, OthersUntouched DEF Crash
<1>2. ~Setting(c)' /\ ~Clearing(c)' /\ ~At(c, "register_write")'
  BY <1>1 DEF Setting, Clearing, At, Free
<1>3. /\ UNCHANGED <<entries, index, indexTTL>> /\ suspect \subseteq suspect'
      /\ Setting(c) => call[c].key \in suspect'
  BY DEF Crash
<1>4. KeysSetAloneAreIndexed'
  <2> SUFFICES ASSUME NEW j \in Keys, Cached(j), j \notin suspect', ~BeingSet(j)'
               PROVE  j \in index /\ indexTTL >= entries[j].ttl
    BY <1>3 DEF KeysSetAloneAreIndexed, Cached
  <2>1. ~BeingSet(j)
    BY <1>1, <1>3 DEF BeingSet, Aside
  <2>2. QED BY <1>0, <1>3, <2>1 DEF Claims, KeysSetAloneAreIndexed
<1>5. SettersAreAlone'
  BY <1>0, <1>1, <1>2, <1>3 DEF Claims, SettersAreAlone, Aside, Alone
<1>6. RegistrationsKeepListings' /\ ClearsReachListings'
  BY <1>0, <1>1, <1>2, <1>3
     DEF Claims, RegistrationsKeepListings, ClearsReachListings, Aside, Cached
<1>7. QED BY <1>4, <1>5, <1>6 DEF Claims

\* A miss runs the factory before it sets anything; a deleted entry needs no
\* listing.
LEMMA MissOrDeleteStep ==
    ASSUME IInv, TypeOK', NEW c \in Clients, NEW k \in Keys, GetOrSet(c, k) \/ Delete(c, k)
    PROVE  Claims'
<1>0. TypeOK /\ Claims /\ ~Setting(c) /\ ~Clearing(c)
  BY DEF IInv, Claims, GetOrSet, Delete, Free, Setting, Clearing, At
<1>1. UNCHANGED <<index, indexTTL, suspect>>
  BY DEF GetOrSet, Delete
<1>2. \A j \in Keys : Cached(j)' => Cached(j) /\ entries'[j] = entries[j]
  BY <1>0 DEF GetOrSet, Delete, TypeOK, Cached
<1>3. Aside(c) /\ ~Setting(c)' /\ ~Clearing(c)' /\ ~At(c, "register_write")'
  <2>1. CASE GetOrSet(c, k)
    <3>1. Aside(c) /\ call'[c] = [pc |-> "factory", key |-> k]
      BY <1>0, <2>1, OthersUntouched DEF GetOrSet
    <3>2. QED BY <3>1 DEF Setting, Clearing, At
  <2>2. CASE Delete(c, k)
    BY <1>0, <2>2 DEF Delete, Aside, Setting, Clearing, At, Free, Registered
  <2>3. QED BY <2>1, <2>2
<1>4. KeysSetAloneAreIndexed'
  <2>1. \A j \in Keys : BeingSet(j) => BeingSet(j)'
    BY <1>0, <1>3 DEF BeingSet, Aside
  <2>2. QED BY <1>0, <1>1, <1>2, <2>1 DEF Claims, KeysSetAloneAreIndexed
<1>5. SettersAreAlone'
  BY <1>0, <1>1, <1>3 DEF Claims, SettersAreAlone, Aside, Alone
<1>6. RegistrationsKeepListings' /\ ClearsReachListings'
  BY <1>0, <1>1, <1>2, <1>3
     DEF Claims, RegistrationsKeepListings, ClearsReachListings, Aside
<1>7. QED BY <1>4, <1>5, <1>6 DEF Claims

\* The index does not expire before the entries it lists.
LEMMA TickStep ==
    ASSUME IInv, TypeOK', Tick
    PROVE  Claims'
<1>0. TypeOK /\ Claims
  BY DEF IInv, Claims
<1>1. UNCHANGED <<call, suspect>>
  BY DEF Tick
<1>2. \A j \in Keys : Cached(j)' => /\ Cached(j)
                                    /\ entries'[j].ttl = entries[j].ttl - 1
                                    /\ entries[j].ttl \in Nat /\ entries'[j].ttl > 0
  <2> SUFFICES ASSUME NEW j \in Keys, Cached(j)'
               PROVE  /\ Cached(j)
                      /\ entries'[j].ttl = entries[j].ttl - 1
                      /\ entries[j].ttl \in Nat /\ entries'[j].ttl > 0
    OBVIOUS
  <2>1. entries'[j] = Aged(j) /\ Aged(j) # Absent
    BY DEF Tick, Cached
  <2>2. QED BY <1>0, <2>1, AgedType, CacheAssumption DEF Entry
<1>3. KeysSetAloneAreIndexed'
  <2> SUFFICES ASSUME NEW j \in Keys, Cached(j)', j \notin suspect, ~BeingSet(j)
               PROVE  j \in index' /\ indexTTL' >= entries'[j].ttl
    BY <1>1 DEF KeysSetAloneAreIndexed, BeingSet, Setting, At, Free
  <2>1. j \in index /\ indexTTL >= entries[j].ttl
    BY <1>0, <1>2 DEF Claims, KeysSetAloneAreIndexed
  <2>2. indexTTL \in Nat
    BY <1>0, CacheAssumption DEF TypeOK
  <2>3. indexTTL' = indexTTL - 1 /\ indexTTL' >= entries'[j].ttl /\ indexTTL' # 0
    BY <1>2, <2>1, <2>2 DEF Tick
  <2>4. QED BY <2>1, <2>3 DEF Tick
<1>4. SettersAreAlone'
  BY <1>0, <1>1 DEF Claims, SettersAreAlone, Setting, Clearing, Alone, At, Free
<1>5. RegistrationsKeepListings' /\ ClearsReachListings'
  BY <1>0, <1>1, <1>2 DEF Claims, RegistrationsKeepListings, ClearsReachListings,
                          Clearing, At, Free, Registered
<1>6. QED BY <1>3, <1>4, <1>5 DEF Claims

-----------------------------------------------------------------------------
(* The theorems.                                                           *)

\* An empty cache with no call in progress.
LEMMA InitIInv == Init => IInv
  BY CacheAssumption
     DEF Init, IInv, TypeOK, KeysSetAloneAreIndexed, SettersAreAlone, RegistrationsKeepListings,
         ClearsReachListings, Setting, Clearing, Cached, At, Free

\* Every step keeps what the calls know.
LEMMA StepIInv == IInv /\ [Next]_vars => IInv'
<1> SUFFICES ASSUME IInv, [Next]_vars PROVE IInv'
  OBVIOUS
<1>1. TypeOK'
  BY TypeStep DEF IInv
<1>2. CASE Tick
  BY <1>1, <1>2, TickStep DEF IInv, Claims
<1>3. ASSUME NEW c \in Clients, NEW k \in Keys, NEW v \in Content, Set(c, k, v)
      PROVE  IInv'
  BY <1>1, <1>3, StoreStep DEF IInv, Claims, Set, Free, Setting, Clearing, At
<1>4. ASSUME NEW c \in Clients, NEW v \in Content, Produced(c, v)
      PROVE  IInv'
  <2>1. call[c].key \in Keys
    BY <1>4, CallShape DEF IInv, Produced
  <2>2. ~Setting(c) /\ ~Clearing(c)
    BY <1>4 DEF Produced, Setting, Clearing, At
  <2>3. QED BY <1>1, <1>4, <2>1, <2>2, StoreStep DEF IInv, Claims, Produced
<1>5. ASSUME NEW c \in Clients, NEW k \in Keys, GetOrSet(c, k) \/ Delete(c, k)
      PROVE  IInv'
  BY <1>1, <1>5, MissOrDeleteStep DEF IInv, Claims
<1>6. ASSUME NEW c \in Clients, RegisterRead(c) \/ RegisterWrite(c)
      PROVE  IInv'
  BY <1>1, <1>6, RegisterReadStep, RegisterWriteStep DEF IInv, Claims
<1>7. ASSUME NEW c \in Clients, ClearRead(c) \/ ClearDelete(c) \/ ClearIndex(c)
      PROVE  IInv'
  BY <1>1, <1>7, ClearReadStep, ClearDeleteStep, ClearIndexStep DEF IInv, Claims
<1>8. ASSUME NEW c \in Clients, Crash(c)
      PROVE  IInv'
  BY <1>1, <1>8, CrashStep DEF IInv, Claims
<1>9. CASE UNCHANGED vars
  BY <1>1, <1>9 DEF vars, IInv, KeysSetAloneAreIndexed, SettersAreAlone,
                    RegistrationsKeepListings, ClearsReachListings, BeingSet, Alone,
                    Registered, Setting, Clearing, Cached, At, Free
<1>10. QED BY <1>2, <1>3, <1>4, <1>5, <1>6, <1>7, <1>8, <1>9 DEF Next, Continue

\* The invariant holds in every behaviour of the cache: sets, misses and clears
\* of any number of clients, lost commands, crashes and expiry.
THEOREM Invariance == Spec => []IInv
  BY InitIInv, StepIInv, PTL DEF Spec

\* Every variable keeps its type; in particular no lifetime runs below zero.
THEOREM TypeCorrectness == Spec => []TypeOK
<1>1. IInv => TypeOK
  BY DEF IInv
<1>2. QED BY <1>1, Invariance, PTL

\* Registration is reliable when calls do not overlap, and EntryTTL <= IndexTTL
\* is all it needs of the two lifetimes (_register_key).
THEOREM KeysSetAloneAreIndexedAlways == Spec => []KeysSetAloneAreIndexed
<1>1. IInv => KeysSetAloneAreIndexed
  BY DEF IInv
<1>2. QED BY <1>1, Invariance, PTL

\* A clear that returns has left only entries whose set() met another call, a
\* lost command or a crash (clear_namespace).
THEOREM ClearIsCompleteEver == Spec => ClearIsComplete
<1>1. IInv /\ [Next]_vars =>
        [\A c \in Clients : ClearIndex(c) =>
            \A k \in Keys : entries'[k] # Absent => k \in suspect']_vars
  <2> SUFFICES ASSUME IInv, NEW c \in Clients, ClearIndex(c),
                      NEW k \in Keys, entries'[k] # Absent
               PROVE  k \in suspect'
    OBVIOUS
  <2>1. k \in suspect
    BY NothingLeftToClear DEF ClearIndex, Cached
  <2>2. QED BY <2>1 DEF ClearIndex
<1>2. QED BY <1>1, Invariance, PTL DEF Spec, ClearIsComplete

-----------------------------------------------------------------------------
(* Calls that take turns.                                                  *)

CallsInTurn == \A c, d \in Clients : ~Free(c) /\ ~Free(d) => c = d

\* A call that begins in its turn makes no key suspect, nor does its end.
LEMMA NobodySuspect ==
    ASSUME TypeOK, CallsInTurn, CallsInTurn', suspect = {}, ~Faulty, [Next]_vars
    PROVE  suspect' = {}
<1>1. ASSUME NEW c \in Clients, NEW new \in Call, call' = [call EXCEPT ![c] = new]
      PROVE  Alone(c) /\ Met(c) = {}
  <2>1. ASSUME NEW d \in Clients \ {c} PROVE Free(d)
    BY <1>1, CacheAssumption DEF TypeOK, CallsInTurn, Free
  <2>2. QED BY <2>1 DEF Alone, Met, Setting, Clearing, At
<1>2. ASSUME NEW c \in Clients, NEW k \in Keys, NEW v \in Content, Store(c, k, v)
      PROVE  suspect' = {}
  <2>1. [pc |-> "register_read", key |-> k, keys |-> {}] \in Call
    BY NewCalls
  <2>2. Alone(c)
    BY <1>1, <1>2, <2>1 DEF Store
  <2>3. QED BY <1>2, <2>2 DEF Store, SuspectOnSet
<1>3. ASSUME NEW c \in Clients, ClearRead(c)
      PROVE  suspect' = {}
  <2>1. call' = [call EXCEPT ![c] = [pc |-> "clear", keys |-> index]]
    BY <1>3 DEF ClearRead, IndexReads
  <2>2. [pc |-> "clear", keys |-> index] \in Call
    BY NewCalls DEF TypeOK
  <2>3. Met(c) = {}
    BY <1>1, <2>1, <2>2
  <2>4. QED BY <1>3, <2>3 DEF ClearRead, IndexReads, SuspectOnClear
<1>4. ASSUME NEW c \in Clients, NEW v \in Content, Produced(c, v)
      PROVE  suspect' = {}
  BY <1>2, <1>4, CallShape DEF Produced
<1>5. ASSUME NEW c \in Clients,
             \/ RegisterRead(c) \/ RegisterWrite(c) \/ ClearDelete(c) \/ ClearIndex(c) \/ Crash(c)
             \/ \E k \in Keys : GetOrSet(c, k) \/ Delete(c, k)
      PROVE  suspect' = {}
  BY <1>5 DEF RegisterRead, IndexReads, RegisterWrite, ClearDelete, ClearIndex, Crash, GetOrSet, Delete
<1>6. QED BY <1>2, <1>3, <1>4, <1>5 DEF Next, Continue, Set, Tick, vars

\* The docstring of clear_namespace is right of calls that take turns and whose
\* commands arrive: at rest, every entry is listed.
THEOREM EntriesAreRegisteredInTurns ==
    ~Faulty => (Spec /\ []CallsInTurn => []EntriesAreRegistered)
<1> SUFFICES ASSUME ~Faulty PROVE Spec /\ []CallsInTurn => []EntriesAreRegistered
  OBVIOUS
<1>1. Init => suspect = {}
  BY DEF Init
<1>2. IInv /\ CallsInTurn /\ CallsInTurn' /\ suspect = {} /\ [Next]_vars => (suspect = {})'
  BY NobodySuspect DEF IInv
<1>3. IInv /\ suspect = {} => EntriesAreRegistered
  BY DEF IInv, KeysSetAloneAreIndexed, EntriesAreRegistered, BeingSet, Setting, At
<1>4. QED BY <1>1, <1>2, <1>3, Invariance, PTL DEF Spec
=============================================================================
