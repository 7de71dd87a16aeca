---------------------------- MODULE CacheManager ----------------------------
(***************************************************************************)
(* CacheManager: the entries of one namespace, the index key that lists    *)
(* them, and the calls that clients make.  A call is a sequence of cache   *)
(* commands; each command is atomic at the Redis server, the sequence is   *)
(* not.  The client swallows every Redis error (IGNORE_EXCEPTIONS), so a   *)
(* command may also get lost: a read finds nothing, a write does nothing.  *)
(*                                                                         *)
(* Time to live is counted in ticks.  The key of an entry stands for the   *)
(* string make_key builds.                                                 *)
(***************************************************************************)
EXTENDS Naturals

CONSTANTS
    Clients,    \* threads that use the cache
    Keys,       \* keys of the namespace
    Content,    \* values that can be cached
    EntryTTL,   \* time to live of an entry
    IndexTTL,   \* time to live of the index, renewed by every registration
    Faulty,     \* can cache commands get lost, and clients die?
    Absent, NoCall

VARIABLES
    entries,    \* Keys -> Entry or Absent
    index,      \* the keys listed under the index key, {} if there is none
    indexTTL,   \* what is left of the index, 0 if there is none
    call,       \* the call each client has in progress
    suspect     \* history: keys whose last set() met another call, a lost
                \* command or a crash, or whose listing or deletion got lost
                \* since

vars == <<entries, index, indexTTL, call, suspect>>

-----------------------------------------------------------------------------
Entry == [value : Content, ttl : 1..EntryTTL]

\* `keys` is the index as the call read it; a clear removes from it the keys
\* it has deleted.
SetCall == [pc : {"register_read", "register_write"}, key : Keys, keys : SUBSET Keys]
ClearCall == [pc : {"clear"}, keys : SUBSET Keys]
FactoryCall == [pc : {"factory"}, key : Keys]
Call == SetCall \cup ClearCall \cup FactoryCall

ASSUME CacheAssumption ==
    /\ EntryTTL \in Nat \ {0} /\ IndexTTL \in Nat
    /\ EntryTTL <= IndexTTL
    /\ Faulty \in BOOLEAN
    /\ Absent \notin Entry /\ NoCall \notin Call

TypeOK ==
    /\ entries \in [Keys -> Entry \cup {Absent}]
    /\ index \in SUBSET Keys
    /\ indexTTL \in 0..IndexTTL
    /\ call \in [Clients -> Call \cup {NoCall}]
    /\ suspect \in SUBSET Keys

Init ==
    /\ entries = [k \in Keys |-> Absent]
    /\ index = {} /\ indexTTL = 0
    /\ call = [c \in Clients |-> NoCall]
    /\ suspect = {}

-----------------------------------------------------------------------------
Cached(k) == entries[k] # Absent
Free(c) == call[c] = NoCall
At(c, pc) == ~Free(c) /\ call[c].pc = pc
Setting(c) == At(c, "register_read") \/ At(c, "register_write")
Clearing(c) == At(c, "clear")

\* get(): one read.  None stands for Absent.
Get(k) == IF Cached(k) THEN entries[k].value ELSE Absent

\* History: what a set of key k, or a clear, that starts now does to `suspect`.
Alone(c) == \A d \in Clients \ {c} : ~Setting(d) /\ ~Clearing(d)
Met(c) == {k \in Keys : \E d \in Clients \ {c} : Setting(d) /\ call[d].key = k}
Raced(c, k) == suspect \cup Met(c) \cup {k}
SuspectOnSet(c, k) == IF Alone(c) THEN suspect \ {k} ELSE Raced(c, k)
SuspectOnClear(c) == suspect \cup Met(c)

\* Mutant of Lifetime: entries are cached for as long as the index.
LifetimeOfIndex == IndexTTL
Lifetime == EntryTTL

\* set(), first command: the value, with its time to live.
Store(c, k, v) ==
    /\ call' = [call EXCEPT ![c] = [pc |-> "register_read", key |-> k, keys |-> {}]]
    /\ \/ /\ entries' = [entries EXCEPT ![k] = [value |-> v, ttl |-> Lifetime]]
          /\ suspect' = SuspectOnSet(c, k)
       \/ Faulty /\ suspect' = Raced(c, k) /\ UNCHANGED entries
    /\ UNCHANGED <<index, indexTTL>>

Set(c, k, v) == Free(c) /\ Store(c, k, v)

\* get_or_set(): a miss runs the factory, and stores what it returns.
GetOrSet(c, k) ==
    /\ Free(c)
    /\ ~Cached(k) \/ Faulty
    /\ call' = [call EXCEPT ![c] = [pc |-> "factory", key |-> k]]
    /\ UNCHANGED <<entries, index, indexTTL, suspect>>

Produced(c, v) == At(c, "factory") /\ Store(c, call[c].key, v)

\* A read of the index; one that gets lost finds it empty.
IndexReads == {index} \cup (IF Faulty THEN {{}} ELSE {})

\* _register_key(): read the index, ...
RegisterRead(c) ==
    /\ At(c, "register_read")
    /\ \E seen \in IndexReads :
          /\ call' = [call EXCEPT ![c].pc = "register_write", ![c].keys = seen]
          /\ suspect' = suspect \cup (index \ seen)
    /\ UNCHANGED <<entries, index, indexTTL>>

\* Mutant of Registered: the index is written anew.
RegisteredAlone(c) == {call[c].key}
Registered(c) == call[c].keys \cup {call[c].key}

\* ... and write it back with the key appended, for another full lifetime.
RegisterWrite(c) ==
    /\ At(c, "register_write")
    /\ call' = [call EXCEPT ![c] = NoCall]
    /\ \/ index' = Registered(c) /\ indexTTL' = IndexTTL /\ UNCHANGED suspect
       \/ /\ Faulty /\ suspect' = suspect \cup {call[c].key}
          /\ UNCHANGED <<index, indexTTL>>
    /\ UNCHANGED entries

Delete(c, k) ==
    /\ Free(c)
    /\ entries' = [entries EXCEPT ![k] = Absent]
    /\ UNCHANGED <<index, indexTTL, call, suspect>>

\* clear_namespace(): read the index, delete what it lists, delete the index.
ClearRead(c) ==
    /\ Free(c)
    /\ \E seen \in IndexReads :
          /\ call' = [call EXCEPT ![c] = [pc |-> "clear", keys |-> seen]]
          /\ suspect' = SuspectOnClear(c) \cup (index \ seen)
    /\ UNCHANGED <<entries, index, indexTTL>>

ClearDelete(c) ==
    /\ Clearing(c)
    /\ \E k \in call[c].keys :
          /\ call' = [call EXCEPT ![c].keys = @ \ {k}]
          /\ \/ entries' = [entries EXCEPT ![k] = Absent] /\ UNCHANGED suspect
             \/ Faulty /\ suspect' = suspect \cup {k} /\ UNCHANGED entries
    /\ UNCHANGED <<index, indexTTL>>

\* Mutant of ClearIndex: the index goes before the entries it lists.
ClearIndexEarly(c) ==
    /\ Clearing(c)
    /\ index' = {} /\ indexTTL' = 0
    /\ call' = [call EXCEPT ![c] = NoCall]
    /\ UNCHANGED <<entries, suspect>>

ClearIndex(c) ==
    /\ Clearing(c) /\ call[c].keys = {}
    /\ call' = [call EXCEPT ![c] = NoCall]
    /\ \/ index' = {} /\ indexTTL' = 0
       \/ Faulty /\ UNCHANGED <<index, indexTTL>>
    /\ UNCHANGED <<entries, suspect>>

\* The client's process dies in the middle of a call.
Crash(c) ==
    /\ Faulty /\ ~Free(c)
    /\ suspect' = suspect \cup IF Setting(c) THEN {call[c].key} ELSE {}
    /\ call' = [call EXCEPT ![c] = NoCall]
    /\ UNCHANGED <<entries, index, indexTTL>>

\* Mutant of Aged: an entry lives for ever.
AgedNever(k) == IF Cached(k) THEN entries[k] ELSE Absent

Aged(k) ==
    IF Cached(k) /\ entries[k].ttl > 1 THEN [entries[k] EXCEPT !.ttl = @ - 1] ELSE Absent

\* Time passes at the server.
Tick ==
    /\ entries' = [k \in Keys |-> Aged(k)]
    /\ indexTTL' = IF indexTTL = 0 THEN 0 ELSE indexTTL - 1
    /\ index' = IF indexTTL' = 0 THEN {} ELSE index
    /\ UNCHANGED <<call, suspect>>

-----------------------------------------------------------------------------
Continue(c) ==
    \/ \E v \in Content : Produced(c, v)
    \/ RegisterRead(c) \/ RegisterWrite(c)
    \/ ClearDelete(c) \/ ClearIndex(c)

Next ==
    \/ \E c \in Clients :
          \/ \E k \in Keys, v \in Content : Set(c, k, v)
          \/ \E k \in Keys : GetOrSet(c, k) \/ Delete(c, k)
          \/ ClearRead(c) \/ Continue(c) \/ Crash(c)
    \/ Tick

Spec == Init /\ [][Next]_vars

\* Time passes.  Nothing makes a client go on with a call.
FairSpec == Spec /\ WF_vars(Tick)

-----------------------------------------------------------------------------
\* Every entry whose set() met no other call, no lost command and no crash, and
\* whose listing no lost read of the index has dropped since, is listed in the
\* index, and the index lasts at least as long as the entry: registration is
\* reliable when calls do not overlap, whichever clients make them, a lost
\* command harms no keys but those it was about, and the two lifetimes never let
\* an entry outlive its listing (_register_key; EntryTTL <= IndexTTL).
BeingSet(k) == \E c \in Clients : Setting(c) /\ call[c].key = k

KeysSetAloneAreIndexed ==
    \A k \in Keys : Cached(k) /\ k \notin suspect /\ ~BeingSet(k) =>
        k \in index /\ indexTTL >= entries[k].ttl

\* When clear_namespace returns, the only entries left are those whose set()
\* overlapped this clear, or overlapped or failed before it, and those whose
\* listing or deletion got lost: a clear is never misled by what other calls,
\* or lost commands about other keys, did to the entries that were set alone.
ClearIsComplete ==
    [][\A c \in Clients : ClearIndex(c) =>
         \A k \in Keys : entries'[k] # Absent => k \in suspect']_vars

-----------------------------------------------------------------------------
(* Why the two hold: what a call in progress knows of the keys that no race *)
(* has touched.                                                            *)

\* The key a call sets is suspect as soon as any other call runs beside it.
SettersAreAlone == \A c \in Clients : Setting(c) /\ call[c].key \notin suspect => Alone(c)

\* The index that a registration writes back still lists every such entry,
\* although it was read a step earlier.
RegistrationsKeepListings ==
    \A c \in Clients, k \in Keys :
        At(c, "register_write") /\ Cached(k) /\ k \notin suspect => k \in Registered(c)

\* A clear has still to delete every such entry that is left.
ClearsReachListings ==
    \A c \in Clients, k \in Keys :
        Clearing(c) /\ Cached(k) /\ k \notin suspect => k \in call[c].keys

IInv ==
    /\ TypeOK /\ KeysSetAloneAreIndexed
    /\ SettersAreAlone /\ RegistrationsKeepListings /\ ClearsReachListings

-----------------------------------------------------------------------------
\* An entry nobody sets again disappears, whatever became of its listing: lost
\* registrations, lost deletions and crashes cost one lifetime at most.
OrphansExpire ==
    \A k \in Keys :
        []<>~Cached(k) \/ []<><<\E c \in Clients : Setting(c)' /\ ~Setting(c) /\ call'[c].key = k>>_vars

\* "Each write registers its key under an index key, so clearing works on any
\* cache backend" (core/cache.py, clear_namespace): with no call in progress,
\* every entry is listed.
EntriesAreRegistered ==
    (\A c \in Clients : Free(c)) => \A k \in Keys : Cached(k) => k \in index
=============================================================================
