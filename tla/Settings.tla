------------------------------ MODULE Settings ------------------------------
(***************************************************************************)
(* One setting resolved through its scopes (configuration/resolver.py):    *)
(* rows of SettingValue, the cache of overrides in front of them, requests *)
(* that read and requests that write.                                      *)
(*                                                                         *)
(* set_value and reset drop the cached overrides inside their transaction, *)
(* before it commits.  A reader misses the cache, queries, and stores what *)
(* it found, in three steps that hold no lock.                             *)
(***************************************************************************)
EXTENDS Naturals, Sequences

CONSTANTS
    Contexts,   \* the ScopeContexts in use: the scopes each one names
    Values,     \* what the setting may be stored as
    Invalid,    \* stored values the definition no longer accepts
    Inherited,  \* no override
    Default,    \* of the registry
    Readers, Admins,
    NoOverrides,    \* a cache miss, and a reader without a query
    NoChange,
    MaxWrites       \* bound: transactions that write

SCOPE_PRECEDENCE == <<"DEVICE", "ROLE", "BRANCH", "ORGANIZATION">>
Scopes == UNION Contexts

ASSUME SettingsAssumption ==
    /\ \A c \in Contexts : c # {} /\ c \subseteq {SCOPE_PRECEDENCE[i] : i \in 1 .. 4}
    /\ Invalid \subseteq Values
    /\ Inherited \notin Values
    /\ MaxWrites \in Nat

VARIABLES
    stored,     \* the committed override of each scope, or Inherited
    pk,         \* how often the row of each scope was inserted
    cached,     \* the overrides under the key of each context
    query,      \* what each reader found and has not stored yet
    writing,    \* the open transaction of each writer
    past,       \* history: what the table said, one entry per commit
    writes

settingsVars == <<stored, pk, cached, query, writing, past, writes>>

Overrides == [Scopes -> Values \cup {Inherited}]
Found(c)  == [c -> Values \cup {Inherited}]
Changes   == [kind : {"set", "reset"}, scope : Scopes, value : Values \cup {Inherited},
              pk : Nat, step : {"read", "written", "invalidated"}]
NoQuery   == [context |-> {}, found |-> NoOverrides]

SettingsTypeOK ==
    /\ stored \in Overrides
    /\ pk \in [Scopes -> Nat] /\ writes \in Nat
    /\ \A c \in Contexts : cached[c] = NoOverrides \/ cached[c] \in Found(c)
    /\ \A r \in Readers : \/ query[r] = NoQuery
                          \/ query[r].found \in Found(query[r].context)
    /\ \A w \in Admins : writing[w] = NoChange \/ writing[w] \in Changes
    /\ past \subseteq Overrides

SettingsInit ==
    /\ stored  = [s \in Scopes |-> Inherited]
    /\ pk      = [s \in Scopes |-> 0]
    /\ cached  = [c \in Contexts |-> NoOverrides]
    /\ query   = [r \in Readers |-> NoQuery]
    /\ writing = [w \in Admins |-> NoChange]
    /\ past    = {stored}
    /\ writes  = 0

-----------------------------------------------------------------------------
(* Reading.                                                                *)

\* The scopes of a context that have an override, and the most specific one.
HasOverride(c, overrides) ==
    {i \in 1 .. Len(SCOPE_PRECEDENCE) :
        /\ SCOPE_PRECEDENCE[i] \in c
        /\ overrides[SCOPE_PRECEDENCE[i]] # Inherited}
MostSpecific(is) == CHOOSE i \in is : \A j \in is : i =< j

\* An override that no longer validates yields the default, not the next scope.
resolve(c, overrides) ==
    LET is == HasOverride(c, overrides) IN
      IF is = {} THEN Default
      ELSE LET value == overrides[SCOPE_PRECEDENCE[MostSpecific(is)]] IN
             IF value \in Invalid THEN Default ELSE value

\* A miss: one query for the overrides of every scope of the context.
Query(r) ==
    /\ query[r] = NoQuery
    /\ \E c \in Contexts :
         /\ cached[c] = NoOverrides
         /\ query' = [query EXCEPT ![r] = [context |-> c, found |-> [s \in c |-> stored[s]]]]
    /\ UNCHANGED <<stored, pk, cached, writing, past, writes>>

Fill(r) ==
    /\ query[r] # NoQuery
    /\ cached' = [cached EXCEPT ![query[r].context] = query[r].found]
    /\ query'  = [query EXCEPT ![r] = NoQuery]
    /\ UNCHANGED <<stored, pk, writing, past, writes>>

\* CACHE_TTL.
Expire(c) ==
    /\ cached[c] # NoOverrides
    /\ cached' = [cached EXCEPT ![c] = NoOverrides]
    /\ UNCHANGED <<stored, pk, query, writing, past, writes>>

-----------------------------------------------------------------------------
(* Writing.                                                                *)

Step(w, step) == writing[w] # NoChange /\ writing[w].step = step
Write(w, change) == writing' = [writing EXCEPT ![w] = change]

\* A reset whose row was deleted, and perhaps inserted again, deletes nothing.
Missed(change) == /\ change.kind = "reset"
                  /\ stored[change.scope] = Inherited \/ pk[change.scope] # change.pk

\* A row that is written, or a unique index entry, until its transaction ends.
RowLocked(s) ==
    \E w \in Admins : \E step \in {"written", "invalidated"} :
        Step(w, step) /\ writing[w].scope = s /\ ~Missed(writing[w])

\* update_or_create and the change log.
SetValue(w) ==
    /\ writing[w] = NoChange /\ writes < MaxWrites
    /\ \E s \in Scopes, v \in Values :
         /\ ~RowLocked(s)
         /\ Write(w, [kind |-> "set", scope |-> s, value |-> v, pk |-> pk[s], step |-> "written"])
    /\ writes' = writes + 1
    /\ UNCHANGED <<stored, pk, cached, query, past>>

\* reset returns where it finds no row, and names the row it found.
FindRow(w) ==
    /\ writing[w] = NoChange /\ writes < MaxWrites
    /\ \E s \in Scopes :
         /\ stored[s] # Inherited
         /\ Write(w, [kind |-> "reset", scope |-> s, value |-> Inherited,
                      pk |-> pk[s], step |-> "read"])
    /\ writes' = writes + 1
    /\ UNCHANGED <<stored, pk, cached, query, past>>

DeleteRow(w) ==
    /\ Step(w, "read") /\ ~RowLocked(writing[w].scope)
    /\ Write(w, [writing[w] EXCEPT !.step = "written"])
    /\ UNCHANGED <<stored, pk, cached, query, past, writes>>

\* Fault of _invalidate: the new value is put in the cache, not only dropped.
WrittenThrough(w) ==
    [c \in Contexts |->
        [s \in c |-> IF s = writing[w].scope THEN writing[w].value ELSE stored[s]]]

\* _invalidate drops the overrides of every context.
Invalidated(w) == [c \in Contexts |-> NoOverrides]

Invalidate(w) ==
    /\ Step(w, "written")
    /\ cached' = Invalidated(w)
    /\ Write(w, [writing[w] EXCEPT !.step = "invalidated"])
    /\ UNCHANGED <<stored, pk, query, past, writes>>

CommitChange(w) ==
    /\ Step(w, "invalidated")
    /\ LET change == writing[w]
           s      == change.scope IN
         /\ stored' = IF Missed(change) THEN stored ELSE [stored EXCEPT ![s] = change.value]
         /\ pk' = IF change.kind = "set" /\ stored[s] = Inherited
                    THEN [pk EXCEPT ![s] = @ + 1] ELSE pk
    /\ past' = past \cup {stored'}
    /\ Write(w, NoChange)
    /\ UNCHANGED <<cached, query, writes>>

\* The transaction fails, or its worker dies.
RollBackChange(w) ==
    /\ writing[w] # NoChange
    /\ Write(w, NoChange)
    /\ UNCHANGED <<stored, pk, cached, query, past, writes>>

SettingsNext ==
    \/ \E r \in Readers : Query(r) \/ Fill(r)
    \/ \E c \in Contexts : Expire(c)
    \/ \E w \in Admins :
          \/ SetValue(w) \/ FindRow(w) \/ DeleteRow(w)
          \/ Invalidate(w) \/ CommitChange(w) \/ RollBackChange(w)

SettingsSpec == SettingsInit /\ [][SettingsNext]_settingsVars

-----------------------------------------------------------------------------
(* Properties.                                                             *)

\* The cache holds no rate that nobody decided: the overrides of a context are
\* those of one committed state of the table, whatever was rolled back after the
\* cache was touched.
ServedWasCommitted ==
    \A c \in Contexts : cached[c] # NoOverrides =>
        \E table \in past : \A s \in c : cached[c][s] = table[s]

\* When nobody reads or writes any more, a cached answer is the answer:
\* "correctness after a change matters far more than avoiding a few cache
\* misses", says _invalidate, or "a terminal keeps charging the old VAT rate".
Quiet == /\ \A r \in Readers : query[r] = NoQuery
         /\ \A w \in Admins : writing[w] = NoChange

QuietCacheIsCurrent ==
    Quiet => \A c \in Contexts :
       cached[c] # NoOverrides => resolve(c, cached[c]) = resolve(c, stored)
=============================================================================
