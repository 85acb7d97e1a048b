-------------------------- MODULE AuditTrailProofs --------------------------
(***************************************************************************)
(* The database is set up before it is used, and reading the log page by   *)
(* page misses nothing, for any number of clients, events and limits.      *)
(***************************************************************************)
EXTENDS AuditTrail, TLAPS, FiniteSetTheorems

-----------------------------------------------------------------------------
\* How far the script has come is what is there: a client in the middle of it has run the
\* statements before its place, and a version that is recorded stands for all of them.
Ran(c) ==
  /\ At(c, "script") => \A n \in 1 .. opening[c].next - 1 : Script[n] \in schema
  /\ At(c, "open") => Objects \subseteq schema

Database ==
  /\ DatabaseTypes
  /\ versions # {} => Objects \subseteq schema
  /\ \A c \in Clients : Ran(c)

LEMMA ScriptShape == Len(Script) = 7 /\ DOMAIN Script = 1 .. 7
  BY DEF Script

LEMMA ReachesKeeps ==
  ASSUME Database, NEW c \in Clients,
         NEW step \in {"closed", "create", "read", "script", "open"},
         NEW next \in 1 .. Len(Script) + 1,
         Reaches(c, step, next),
         schema \subseteq schema', schema' \subseteq Objects \cup {"schema_migrations"},
         versions' \subseteq {SCHEMA_VERSION}, versions' # {} => Objects \subseteq schema',
         step = "script" => \A n \in 1 .. next - 1 : Script[n] \in schema',
         step = "open" => Objects \subseteq schema'
  PROVE  Database'
<1> DEFINE new == [step |-> step, next |-> next]
<1>1. opening \in [Clients -> Opening] /\ new \in Opening
  BY DEF Database, DatabaseTypes, Opening
<1>2. opening' = [opening EXCEPT ![c] = new]
  BY DEF Reaches
<1>3. opening' \in [Clients -> Opening] /\ opening'[c] = new
      /\ \A d \in Clients \ {c} : opening'[d] = opening[d]
  <2> HIDE DEF new
  <2> QED
    BY <1>1, <1>2
<1>4. DatabaseTypes'
  BY <1>3 DEF Database, DatabaseTypes, Objects
<1>5. ASSUME NEW d \in Clients PROVE Ran(d)'
  <2>1. CASE d = c
    BY <1>3, <2>1 DEF Ran, At, Objects
  <2>2. CASE d # c
    BY <1>3, <2>2 DEF Database, Ran, At, Objects
  <2> QED
    BY <2>1, <2>2
<1>6. (versions # {} => Objects \subseteq schema)'
  BY DEF Objects
<1> QED
  BY <1>4, <1>5, <1>6 DEF Database

\* A request that comes to its end, or fails, leaves what is there.
LEMMA ClosesKeeps ==
  ASSUME Database, NEW c \in Clients, Closes(c), schema' = schema, versions' = versions
  PROVE  Database'
<1>1. Reaches(c, "closed", 1) /\ 1 \in 1 .. Len(Script) + 1
  BY ScriptShape DEF Closes, Closed, Reaches
<1>2. /\ schema' \subseteq Objects \cup {"schema_migrations"}
      /\ versions' \subseteq {SCHEMA_VERSION}
      /\ versions' # {} => Objects \subseteq schema'
  BY DEF Database, DatabaseTypes
<1> QED
  BY <1>1, <1>2, ReachesKeeps

LEMMA OpenKeeps == ASSUME Database, NEW c \in Clients, Open(c) PROVE Database'
<1>1. Reaches(c, "create", 1) /\ 1 \in 1 .. Len(Script) + 1
  BY ScriptShape DEF Open
<1>2. /\ schema \subseteq schema' /\ schema' \subseteq Objects \cup {"schema_migrations"}
      /\ versions' \subseteq {SCHEMA_VERSION}
      /\ versions' # {} => Objects \subseteq schema'
  BY DEF Open, Database, DatabaseTypes
<1> QED
  BY <1>1, <1>2, ReachesKeeps

LEMMA CreateVersionsKeeps ==
  ASSUME Database, NEW c \in Clients, CreateVersions(c) PROVE Database'
<1>1. Reaches(c, "read", 1) /\ 1 \in 1 .. Len(Script) + 1
  BY ScriptShape DEF CreateVersions
<1>2. /\ schema \subseteq schema' /\ schema' \subseteq Objects \cup {"schema_migrations"}
      /\ versions' \subseteq {SCHEMA_VERSION}
      /\ versions' # {} => Objects \subseteq schema'
  BY DEF CreateVersions, Database, DatabaseTypes
<1> QED
  BY <1>1, <1>2, ReachesKeeps

LEMMA ReadVersionKeeps ==
  ASSUME Database, NEW c \in Clients, ReadVersion(c) PROVE Database'
<1>1. /\ schema \subseteq schema' /\ schema' \subseteq Objects \cup {"schema_migrations"}
      /\ versions' \subseteq {SCHEMA_VERSION}
      /\ versions' # {} => Objects \subseteq schema'
  BY DEF ReadVersion, Database, DatabaseTypes
<1>2. 1 \in 1 .. Len(Script) + 1 /\ \A n \in 1 .. 1 - 1 : Script[n] \in schema'
  BY ScriptShape
<1>3. CASE versions = {}
  <2>1. Reaches(c, "script", 1)
    BY <1>3 DEF ReadVersion
  <2> QED
    BY <1>1, <1>2, <2>1, ReachesKeeps
<1>4. CASE versions # {}
  <2>1. Reaches(c, "open", 1) /\ versions' = versions
    BY <1>4 DEF ReadVersion
  <2>2. Objects \subseteq schema'
    BY <1>1, <1>4, <2>1
  <2> QED
    BY <1>1, <1>2, <2>1, <2>2, ReachesKeeps
<1> QED
  BY <1>3, <1>4

LEMMA RunStatementKeeps ==
  ASSUME Database, NEW c \in Clients, RunStatement(c) PROVE Database'
<1> DEFINE n == opening[c].next
<1>1. n \in 1 .. 7 /\ At(c, "script")
  <2>1. n \in 1 .. 8 /\ n <= 7
    BY ScriptShape DEF RunStatement, Database, DatabaseTypes, Opening
  <2> QED
    BY <2>1 DEF RunStatement
<1>2. Script[n] \in Objects
  BY <1>1, ScriptShape DEF Objects
<1>3. schema' = schema \cup {Script[n]} /\ versions' = versions /\ Reaches(c, "script", n + 1)
  BY DEF RunStatement
<1>4. /\ schema \subseteq schema' /\ schema' \subseteq Objects \cup {"schema_migrations"}
      /\ versions' \subseteq {SCHEMA_VERSION}
      /\ versions' # {} => Objects \subseteq schema'
  BY <1>2, <1>3 DEF Database, DatabaseTypes
<1>5. \A k \in 1 .. (n + 1) - 1 : Script[k] \in schema'
  <2> SUFFICES ASSUME NEW k \in 1 .. (n + 1) - 1 PROVE Script[k] \in schema'
    OBVIOUS
  <2>1. k \in 1 .. n - 1 \/ k = n
    BY <1>1
  <2>2. \A m \in 1 .. n - 1 : Script[m] \in schema
    BY <1>1 DEF Database, Ran
  <2> QED
    BY <1>3, <2>1, <2>2
<1>6. n + 1 \in 1 .. Len(Script) + 1
  BY <1>1, ScriptShape
<1> HIDE DEF n
<1> QED
  BY <1>3, <1>4, <1>5, <1>6, ReachesKeeps

LEMMA RecordVersionKeeps ==
  ASSUME Database, NEW c \in Clients, RecordVersion(c) PROVE Database'
<1>1. Objects \subseteq schema
  <2>1. opening[c].next \in 1 .. 8 /\ opening[c].next > 7 /\ At(c, "script")
    BY ScriptShape DEF RecordVersion, Database, DatabaseTypes, Opening
  <2>2. \A n \in 1 .. opening[c].next - 1 : Script[n] \in schema
    BY <2>1 DEF Database, Ran
  <2>3. \A n \in 1 .. 7 : Script[n] \in schema
    BY <2>1, <2>2
  <2> QED
    BY <2>3, ScriptShape DEF Objects
<1>2. schema' = schema /\ versions' = versions \cup {SCHEMA_VERSION}
  BY DEF RecordVersion
<1>3. /\ schema' \subseteq Objects \cup {"schema_migrations"} /\ versions' \subseteq {SCHEMA_VERSION}
  BY <1>2 DEF Database, DatabaseTypes
<1>4. CASE SCHEMA_VERSION \in versions
  <2>1. Closes(c) /\ versions' = versions
    BY <1>2, <1>4 DEF RecordVersion
  <2> QED
    BY <1>2, <2>1, ClosesKeeps
<1>5. CASE SCHEMA_VERSION \notin versions
  <2>1. Reaches(c, "open", 1) /\ 1 \in 1 .. Len(Script) + 1
    BY <1>5, ScriptShape DEF RecordVersion
  <2> QED
    BY <1>1, <1>2, <1>3, <2>1, ReachesKeeps
<1> QED
  BY <1>4, <1>5

LEMMA InitialisesKeeps ==
  ASSUME Database, NEW c \in Clients, Initialises(c) PROVE Database'
<1>1. CASE Locked(c)
  BY <1>1, ClosesKeeps DEF Locked
<1> QED
  BY <1>1, CreateVersionsKeeps, ReadVersionKeeps, RunStatementKeeps, RecordVersionKeeps
     DEF Initialises

LEMMA CrashKeepsDatabase == ASSUME Database, Crash PROVE Database'
<1>1. Closed \in Opening /\ Closed.step = "closed"
  BY ScriptShape DEF Closed, Opening
<1>2. opening' = [c \in Clients |-> Closed] /\ schema' = schema /\ versions' = versions
  BY DEF Crash
<1>3. opening' \in [Clients -> Opening] /\ \A c \in Clients : opening'[c].step = "closed"
  BY <1>1, <1>2
<1>4. DatabaseTypes'
  BY <1>2, <1>3 DEF Database, DatabaseTypes, Objects
<1>5. \A c \in Clients : Ran(c)'
  BY <1>3 DEF Ran, At
<1>6. (versions # {} => Objects \subseteq schema)'
  BY <1>2 DEF Database, Objects
<1> QED
  BY <1>4, <1>5, <1>6 DEF Database

LEMMA DatabaseUntouched == Database /\ UNCHANGED databaseVars => Database'
  BY DEF databaseVars, Database, DatabaseTypes, Ran, At, Objects

LEMMA DatabaseInitially == AuditInit => Database
<1> SUFFICES ASSUME AuditInit PROVE Database
  OBVIOUS
<1>1. Closed \in Opening /\ Closed.step = "closed"
  BY ScriptShape DEF Closed, Opening
<1>2. opening \in [Clients -> Opening] /\ \A c \in Clients : opening[c].step = "closed"
  BY <1>1 DEF AuditInit, DatabaseInit
<1>3. DatabaseTypes /\ (versions # {} => Objects \subseteq schema)
  BY <1>2 DEF AuditInit, DatabaseInit, DatabaseTypes
<1>4. \A c \in Clients : Ran(c)
  BY <1>2 DEF Ran, At
<1> QED
  BY <1>3, <1>4 DEF Database

LEMMA DatabaseKept == Database /\ [AuditNext]_auditVars => Database'
<1> SUFFICES ASSUME Database, [AuditNext]_auditVars PROVE Database'
  OBVIOUS
<1>1. CASE UNCHANGED auditVars
  BY <1>1, DatabaseUntouched DEF auditVars
<1>2. CASE Crash
  BY <1>2, CrashKeepsDatabase
<1>3. ASSUME NEW c \in Clients, NEW id \in EventIds, NEW time \in Instants, NEW matches \in BOOLEAN,
             Create(c, id, time, matches)
      PROVE  Database'
  BY <1>3, OpenKeeps DEF Create
<1>4. ASSUME NEW c \in Clients, NEW ascending \in BOOLEAN, NEW limit \in Limits,
             Look(c, ascending, limit)
      PROVE  Database'
  BY <1>4, OpenKeeps DEF Look
<1>5. ASSUME NEW c \in Clients, Continue(c) PROVE Database'
  BY <1>5, OpenKeeps DEF Continue
<1>6. ASSUME NEW c \in Clients, Leave(c) PROVE Database'
  BY <1>6, DatabaseUntouched DEF Leave
<1>7. ASSUME NEW c \in Clients, Insert(c) \/ Page(c) PROVE Database'
  BY <1>7, ClosesKeeps DEF Insert, Page
<1>8. ASSUME NEW c \in Clients, Initialises(c) PROVE Database'
  BY <1>8, InitialisesKeeps
<1> QED
  BY <1>1, <1>2, <1>3, <1>4, <1>5, <1>6, <1>7, <1>8 DEF AuditNext

\* A repository is used only after everything its queries name has been created, for any number of
\* processes that initialise side by side, fail and crash.
THEOREM SchemaComesFirst == AuditSpec => []SchemaBeforeUse
<1>1. Database => SchemaBeforeUse
  BY DEF Database, Ran, SchemaBeforeUse
<1> QED
  BY DatabaseInitially, DatabaseKept, <1>1, PTL DEF AuditSpec

-----------------------------------------------------------------------------
\* The order of the log.  Events that have different ids are ordered strictly.
Distinct(events) == \A d, e \in events : d.id = e.id => d = e

LEMMA OrderIsStrict ==
  ASSUME NEW ascending \in BOOLEAN, NEW d \in Event, NEW e \in Event, d.id = e.id => d = e
  PROVE  /\ Before(ascending, d, e) => ~Before(ascending, e, d)
         /\ d # e => Before(ascending, d, e) \/ Before(ascending, e, d)
         /\ ~Before(ascending, d, d)
<1>1. d.id \in Nat /\ e.id \in Nat /\ d.time \in Nat /\ e.time \in Nat
  BY AuditAssumption DEF Event
<1> DEFINE de == d.time < e.time \/ (d.time = e.time /\ d.id < e.id)
           ed == e.time < d.time \/ (e.time = d.time /\ e.id < d.id)
<1>2. d # e => (de <=> ~ed)
  BY <1>1
<1>3. Before(ascending, d, e) <=> d # e /\ (de <=> ascending)
  BY DEF Before
<1>4. Before(ascending, e, d) <=> d # e /\ (ed <=> ascending)
  BY DEF Before
<1>5. ~Before(ascending, d, d)
  BY DEF Before
<1> HIDE DEF de, ed
<1> QED
  BY <1>2, <1>3, <1>4, <1>5

LEMMA OrderIsTransitive ==
  ASSUME NEW ascending \in BOOLEAN, NEW d \in Event, NEW e \in Event, NEW f \in Event,
         Distinct({d, e, f}), Before(ascending, d, e), Before(ascending, e, f)
  PROVE  Before(ascending, d, f)
<1>1. /\ d.id \in Nat /\ e.id \in Nat /\ f.id \in Nat
      /\ d.time \in Nat /\ e.time \in Nat /\ f.time \in Nat
  BY AuditAssumption DEF Event
<1> DEFINE de == d.time < e.time \/ (d.time = e.time /\ d.id < e.id)
           ef == e.time < f.time \/ (e.time = f.time /\ e.id < f.id)
           df == d.time < f.time \/ (d.time = f.time /\ d.id < f.id)
<1>2. d.id # e.id /\ e.id # f.id
  BY DEF Before, Distinct
<1>3. (de /\ ef => df) /\ (~de /\ ~ef => ~df)
  BY <1>1, <1>2
<1>4. de /\ ef => d.id # f.id \/ d.time # f.time
  BY <1>1
<1>5. ~de /\ ~ef => d.id # f.id \/ d.time # f.time
  BY <1>1, <1>2
<1>6. (de <=> ascending) /\ (ef <=> ascending)
  BY DEF Before
<1>7. d # f
  <2> HIDE DEF de, ef, df
  <2> QED
    BY <1>4, <1>5, <1>6
<1>8. Before(ascending, d, f) <=> d # f /\ (df <=> ascending)
  BY DEF Before
<1> HIDE DEF de, ef, df
<1> QED
  BY <1>3, <1>6, <1>7, <1>8

\* In an arrangement of events every one of them has its place, and the place says how many come
\* before it.
LEMMA PlacesAreRanks ==
  ASSUME NEW ascending \in BOOLEAN, NEW events \in SUBSET Event, IsFiniteSet(events),
         Distinct(events), NEW s \in Orderings(ascending, events)
  PROVE  /\ Cardinality(events) \in Nat
         /\ s \in Seq(events) /\ Len(s) = Cardinality(events)
         /\ \A e \in events : \E n \in 1 .. Len(s) : s[n] = e
         /\ \A n \in 1 .. Len(s) :
              Cardinality({d \in events : Before(ascending, d, s[n])}) = n - 1
<1> DEFINE size == Cardinality(events)
<1>1. size \in Nat
  BY FS_CardinalityType
<1>2. /\ s \in [1 .. size -> events]
      /\ \A m, n \in 1 .. size : m < n => Before(ascending, s[m], s[n])
  BY DEF Orderings
<1> HIDE DEF size
<1>3. s \in Seq(events) /\ Len(s) = size
  BY <1>1, <1>2
<1>4. \A n \in 1 .. size : s[n] \in events /\ s[n] \in Event
  BY <1>2
<1>5. ASSUME NEW m \in 1 .. size, NEW n \in 1 .. size, s[m] = s[n] PROVE m = n
  <2>1. ~(m < n) /\ ~(n < m)
    BY <1>2, <1>4, <1>5, OrderIsStrict
  <2> QED
    BY <1>1, <2>1
<1>6. s \in Injection(1 .. size, events)
  BY <1>2, <1>5 DEF Injection, IsInjective
<1>7. IsFiniteSet(1 .. size) /\ Cardinality(1 .. size) = size
  <2>1. 1 \in Int /\ size \in Int
    BY <1>1
  <2>2. IsFiniteSet(1 .. size) /\ Cardinality(1 .. size) = IF 1 > size THEN 0 ELSE size - 1 + 1
    BY <2>1, FS_Interval
  <2> QED
    BY <1>1, <2>2
<1>8. s \in Surjection(1 .. size, events)
  BY <1>6, <1>7, FS_Injection DEF size
<1>9. \A e \in events : \E n \in 1 .. size : s[n] = e
  BY <1>8 DEF Surjection
<1>10. ASSUME NEW n \in 1 .. size
       PROVE  Cardinality({d \in events : Before(ascending, d, s[n])}) = n - 1
  <2> DEFINE T == {d \in events : Before(ascending, d, s[n])}
             g == [m \in 1 .. n - 1 |-> s[m]]
  <2>1. n - 1 \in Nat /\ \A m \in 1 .. n - 1 : m \in 1 .. size /\ m < n
    BY <1>1
  <2>2. \A m \in 1 .. n - 1 : s[m] \in T
    BY <1>2, <1>4, <2>1
  <2>3. ASSUME NEW d \in T PROVE \E m \in 1 .. n - 1 : s[m] = d
    <3>1. PICK m \in 1 .. size : s[m] = d
      BY <1>9, <2>3
    <3>2. m # n
      BY <1>4, <2>3, <3>1, OrderIsStrict
    <3>3. ~(n < m)
      <4>1. n < m => Before(ascending, s[n], d)
        BY <1>2, <3>1
      <4>2. d \in events /\ s[n] \in events /\ Before(ascending, d, s[n])
        BY <1>4, <2>3
      <4>3. ~Before(ascending, s[n], d)
        BY <4>2, OrderIsStrict DEF Distinct
      <4> QED
        BY <4>1, <4>3
    <3>4. m \in 1 .. n - 1
      BY <1>1, <3>2, <3>3
    <3> QED
      BY <3>1, <3>4
  <2>4. g \in [1 .. n - 1 -> T]
    BY <2>2
  <2>5. \A a, b \in 1 .. n - 1 : g[a] = g[b] => a = b
    BY <1>5, <2>1
  <2>6. \A d \in T : \E m \in 1 .. n - 1 : g[m] = d
    BY <2>3
  <2>7. g \in Bijection(1 .. n - 1, T)
    <3> HIDE DEF g, T
    <3> QED
      BY <2>4, <2>5, <2>6 DEF Bijection, Injection, IsInjective, Surjection
  <2>8. IsFiniteSet(1 .. n - 1) /\ Cardinality(1 .. n - 1) = n - 1
    <3>1. 1 \in Int /\ n - 1 \in Int
      BY <2>1
    <3>2. IsFiniteSet(1 .. n - 1)
          /\ Cardinality(1 .. n - 1) = IF 1 > n - 1 THEN 0 ELSE (n - 1) - 1 + 1
      BY <3>1, FS_Interval
    <3> QED
      BY <2>1, <3>2
  <2>9. IsFiniteSet(T)
    <3>1. T \in SUBSET events
      OBVIOUS
    <3> HIDE DEF T
    <3> QED
      BY <3>1, FS_Subset
  <2>10. Cardinality(1 .. n - 1) = Cardinality(T)
    <3> HIDE DEF g, T
    <3> QED
      BY <2>4, <2>5, <2>7, <2>8, <2>9, FS_Surjection DEF Bijection
  <2> QED
    BY <2>8, <2>10
<1> QED
  BY <1>1, <1>3, <1>9, <1>10 DEF size

-----------------------------------------------------------------------------
\* How many events come before one; it never becomes less as the log grows.
Rank(ascending, events, e) == Cardinality({d \in Matching(events) : Before(ascending, d, e)})

LEMMA MatchingIsFinite ==
  ASSUME NEW events \in SUBSET Event, IsFiniteSet(events)
  PROVE  /\ Matching(events) \in SUBSET Event
         /\ IsFiniteSet(Matching(events))
         /\ Cardinality(Matching(events)) \in Nat
<1>1. Matching(events) \in SUBSET events
  BY DEF Matching
<1> QED
  BY <1>1, FS_Subset, FS_CardinalityType

LEMMA RanksGrow ==
  ASSUME NEW A \in SUBSET Event, NEW B \in SUBSET Event, A \subseteq B, IsFiniteSet(B),
         NEW ascending, NEW e
  PROVE  /\ Rank(ascending, A, e) \in Nat /\ Rank(ascending, B, e) \in Nat
         /\ Rank(ascending, A, e) <= Rank(ascending, B, e)
         /\ Cardinality(Matching(A)) <= Cardinality(Matching(B))
<1> DEFINE S == {d \in Matching(A) : Before(ascending, d, e)}
           T == {d \in Matching(B) : Before(ascending, d, e)}
<1>1. Matching(A) \in SUBSET Matching(B)
  BY DEF Matching
<1>2. IsFiniteSet(Matching(B))
  BY MatchingIsFinite
<1>3. S \in SUBSET T /\ T \in SUBSET Matching(B)
  BY <1>1
<1>4. IsFiniteSet(T)
  <2> HIDE DEF T
  <2> QED
    BY <1>2, <1>3, FS_Subset
<1>5. IsFiniteSet(S) /\ Cardinality(S) <= Cardinality(T)
  <2> HIDE DEF S, T
  <2> QED
    BY <1>3, <1>4, FS_Subset
<1>6. Cardinality(S) \in Nat /\ Cardinality(T) \in Nat
  <2> HIDE DEF S, T
  <2> QED
    BY <1>4, <1>5, FS_CardinalityType
<1>7. Cardinality(Matching(A)) <= Cardinality(Matching(B))
  BY <1>1, <1>2, FS_Subset
<1> QED
  BY <1>5, <1>6, <1>7 DEF Rank

-----------------------------------------------------------------------------
\* What a client has seen of a log: the n-th event seen had fewer than n before it when the client
\* began and has at least n - 1 before it by now, and whatever was there and has fewer events
\* before it than the offset has been seen.
Sighted(t, events) ==
  /\ t.initial \subseteq events
  /\ \A n \in DOMAIN t.seen :
       /\ t.seen[n] \in Matching(events)
       /\ Rank(t.ascending, t.initial, t.seen[n]) <= n - 1
       /\ n - 1 <= Rank(t.ascending, events, t.seen[n])
  /\ ~t.finished =>
       /\ Len(t.seen) = t.offset
       /\ t.offset <= Cardinality(Matching(events))
       /\ \A e \in Matching(t.initial) : Rank(t.ascending, events, e) < t.offset =>
            \E n \in DOMAIN t.seen : t.seen[n] = e
  /\ t.finished => \A e \in Matching(t.initial) : \E n \in DOMAIN t.seen : t.seen[n] = e

LEMMA SightedAsLogGrows ==
  ASSUME NEW t \in Traversal, NEW A \in SUBSET Event, NEW B \in SUBSET Event, A \subseteq B,
         IsFiniteSet(B), Sighted(t, A)
  PROVE  Sighted(t, B)
<1>1. \A e : /\ Rank(t.ascending, A, e) \in Nat /\ Rank(t.ascending, B, e) \in Nat
             /\ Rank(t.ascending, A, e) <= Rank(t.ascending, B, e)
  BY RanksGrow
<1>2. /\ Cardinality(Matching(A)) \in Nat /\ Cardinality(Matching(B)) \in Nat
      /\ Cardinality(Matching(A)) <= Cardinality(Matching(B))
  <2>1. IsFiniteSet(A)
    BY FS_Subset
  <2> QED
    BY <2>1, MatchingIsFinite, RanksGrow
<1>3. t.offset \in Nat /\ t.seen \in Seq(Event) /\ DOMAIN t.seen \subseteq Nat
  BY DEF Traversal
<1>4. t.initial \subseteq B
  BY DEF Sighted
<1>5. ASSUME NEW n \in DOMAIN t.seen
      PROVE  /\ t.seen[n] \in Matching(B)
             /\ Rank(t.ascending, t.initial, t.seen[n]) <= n - 1
             /\ n - 1 <= Rank(t.ascending, B, t.seen[n])
  <2>1. t.seen[n] \in Matching(B)
    BY DEF Sighted, Matching
  <2>2. n \in Nat /\ n - 1 <= Rank(t.ascending, A, t.seen[n])
    BY <1>3 DEF Sighted
  <2>3. n - 1 <= Rank(t.ascending, B, t.seen[n])
    BY <1>1, <2>2
  <2> QED
    BY <2>1, <2>3 DEF Sighted
<1>6. ASSUME ~t.finished
      PROVE  /\ Len(t.seen) = t.offset
             /\ t.offset <= Cardinality(Matching(B))
             /\ \A e \in Matching(t.initial) : Rank(t.ascending, B, e) < t.offset =>
                  \E n \in DOMAIN t.seen : t.seen[n] = e
  <2>1. Len(t.seen) = t.offset /\ t.offset <= Cardinality(Matching(A))
    BY <1>6 DEF Sighted
  <2>2. t.offset <= Cardinality(Matching(B))
    BY <1>2, <1>3, <2>1
  <2>3. ASSUME NEW e \in Matching(t.initial), Rank(t.ascending, B, e) < t.offset
        PROVE  \E n \in DOMAIN t.seen : t.seen[n] = e
    <3>1. Rank(t.ascending, A, e) < t.offset
      BY <1>1, <1>3, <2>3
    <3> QED
      BY <1>6, <3>1 DEF Sighted
  <2> QED
    BY <2>1, <2>2, <2>3
<1>7. t.finished => \A e \in Matching(t.initial) : \E n \in DOMAIN t.seen : t.seen[n] = e
  BY DEF Sighted
<1> QED
  BY <1>4, <1>5, <1>6, <1>7 DEF Sighted

\* A client that has just begun has seen nothing.
LEMMA SightedAtFirst ==
  ASSUME NEW events \in SUBSET Event, IsFiniteSet(events), NEW t \in Traversal,
         t.initial = events, t.seen = <<>>, t.offset = 0, t.finished = FALSE
  PROVE  Sighted(t, events)
<1>1. DOMAIN t.seen = {} /\ Len(t.seen) = 0
  OBVIOUS
<1>2. Cardinality(Matching(events)) \in Nat
  BY MatchingIsFinite
<1>3. \A e : ~(Rank(t.ascending, events, e) < 0)
  <2>1. \A e : Rank(t.ascending, events, e) \in Nat
    BY RanksGrow
  <2> QED
    BY <2>1
<1> QED
  BY <1>1, <1>2, <1>3 DEF Sighted

\* The elements of a part of a sequence, and of one sequence behind another.
LEMMA PartOf ==
  ASSUME NEW S, NEW s \in Seq(S), NEW a \in Nat, NEW b \in Nat, a <= b, b <= Len(s)
  PROVE  /\ SubSeq(s, a + 1, b) \in Seq(S)
         /\ Len(SubSeq(s, a + 1, b)) = b - a
         /\ \A k \in 1 .. b - a : SubSeq(s, a + 1, b)[k] = s[a + k]
  OBVIOUS

LEMMA Joined ==
  ASSUME NEW S, NEW s \in Seq(S), NEW u \in Seq(S)
  PROVE  /\ s \o u \in Seq(S)
         /\ Len(s \o u) = Len(s) + Len(u)
         /\ \A k \in 1 .. Len(s) : (s \o u)[k] = s[k]
         /\ \A k \in 1 .. Len(u) : (s \o u)[Len(s) + k] = u[k]
  OBVIOUS

LEMMA LimitIsPositive == \A limit \in Limits : limit \in Nat /\ limit > 0
  BY AuditAssumption

\* The next page goes on where the last one ended.
LEMMA SightedNext ==
  ASSUME log \in SUBSET Event, IsFiniteSet(log), Distinct(log),
         NEW t \in Traversal, ~t.finished, Sighted(t, log), NEW page \in PagesOf(t)
  PROVE  LET offset == t.offset + t.limit
             next == [t EXCEPT !.seen = @ \o page, !.offset = offset,
                               !.finished = offset >= Cardinality(Matching(log))]
         IN  next \in Traversal /\ Sighted(next, log)
<1> DEFINE M == Matching(log)
           size == Cardinality(M)
           offset == t.offset + t.limit
           last == IF offset < size THEN offset ELSE size
           finished == offset >= size
           seen == t.seen \o page
           next == [t EXCEPT !.seen = @ \o page, !.offset = offset, !.finished = finished]
<1>1. M \in SUBSET Event /\ IsFiniteSet(M) /\ size \in Nat
  BY MatchingIsFinite
<1>2. Distinct(M)
  BY DEF Distinct, Matching
<1>3. /\ t.ascending \in BOOLEAN /\ t.limit \in Nat /\ t.limit > 0 /\ t.offset \in Nat
      /\ t.seen \in Seq(Event) /\ t.initial \in SUBSET Event
  <2>1. t.limit \in Limits
    BY DEF Traversal
  <2>2. t.limit \in Nat /\ t.limit > 0
    BY <2>1, LimitIsPositive, Zenon
  <2>3. t.ascending \in BOOLEAN /\ t.offset \in Nat /\ t.seen \in Seq(Event)
    BY DEF Traversal
  <2>4. t.initial \in SUBSET Event
    BY DEF Traversal
  <2> QED
    BY <2>2, <2>3, <2>4
<1>4. Len(t.seen) = t.offset /\ t.offset <= size
  BY DEF Sighted
<1>5. PICK s \in Orderings(t.ascending, M) : page = Slice(t, s)
  BY DEF PagesOf
<1>6. /\ s \in Seq(M) /\ Len(s) = size
      /\ \A e \in M : \E n \in 1 .. size : s[n] = e
      /\ \A n \in 1 .. size : Cardinality({d \in M : Before(t.ascending, d, s[n])}) = n - 1
  <2> HIDE DEF M
  <2> QED
    BY <1>1, <1>2, <1>3, <1>5, PlacesAreRanks DEF size
<1>7. \A n \in 1 .. size : s[n] \in M /\ Rank(t.ascending, log, s[n]) = n - 1
  <2>1. \A n \in 1 .. size : s[n] \in M
    <3> HIDE DEF M, size
    <3> QED
      BY <1>6
  <2> QED
    BY <1>6, <2>1 DEF Rank
<1>8. page = SubSeq(s, t.offset + 1, last)
  BY <1>5, <1>6 DEF Slice
<1>9. offset \in Nat /\ last \in Nat /\ t.offset <= last /\ last <= size /\ last <= offset
  <2> HIDE DEF M, size
  <2> QED
    BY <1>1, <1>3, <1>4
<1>10. /\ page \in Seq(M) /\ Len(page) = last - t.offset
       /\ \A k \in 1 .. last - t.offset : page[k] = s[t.offset + k]
  <2> HIDE DEF M, size, last, offset
  <2>1. last <= Len(s) /\ last \in Nat /\ t.offset \in Nat /\ t.offset <= last /\ s \in Seq(M)
    BY <1>3, <1>6, <1>9
  <2>2. /\ SubSeq(s, t.offset + 1, last) \in Seq(M)
        /\ Len(SubSeq(s, t.offset + 1, last)) = last - t.offset
        /\ \A k \in 1 .. last - t.offset : SubSeq(s, t.offset + 1, last)[k] = s[t.offset + k]
    BY <2>1, PartOf, Zenon
  <2> QED
    BY <1>8, <2>2, Zenon
<1>11. page \in Seq(Event)
  <2> HIDE DEF M, last
  <2> QED
    BY <1>1, <1>10
<1>12. /\ seen \in Seq(Event) /\ Len(seen) = last /\ DOMAIN seen = 1 .. last
       /\ \A n \in 1 .. t.offset : seen[n] = t.seen[n]
       /\ \A n \in t.offset + 1 .. last : seen[n] = s[n]
  <2> HIDE DEF M, size, last, offset
  <2>1. /\ seen \in Seq(Event) /\ Len(seen) = t.offset + (last - t.offset)
        /\ \A k \in 1 .. t.offset : seen[k] = t.seen[k]
        /\ \A k \in 1 .. last - t.offset : seen[t.offset + k] = page[k]
    <3> DEFINE v == t.seen
    <3>1. /\ seen \in Seq(Event)
          /\ Len(seen) = Len(v) + Len(page)
          /\ \A k \in 1 .. Len(v) : seen[k] = v[k]
          /\ \A k \in 1 .. Len(page) : seen[Len(v) + k] = page[k]
      <4>1. v \in Seq(Event) /\ page \in Seq(Event) /\ seen = v \o page
        BY <1>3, <1>11
      <4> HIDE DEF v, seen
      <4> QED
        BY <4>1, Joined
    <3> HIDE DEF seen
    <3>2. Len(t.seen) = t.offset /\ Len(page) = last - t.offset
      BY <1>4, <1>10
    <3>3. Len(seen) = t.offset + (last - t.offset)
      BY <3>1, <3>2
    <3>4. \A k \in 1 .. t.offset : seen[k] = t.seen[k]
      BY <3>1, <3>2
    <3>5. \A k \in 1 .. last - t.offset : seen[t.offset + k] = page[k]
      BY <3>1, <3>2
    <3> QED
      BY <3>1, <3>3, <3>4, <3>5
  <2>2. Len(seen) = last
    BY <1>3, <1>9, <2>1
  <2> HIDE DEF seen
  <2>4. ASSUME NEW n \in t.offset + 1 .. last PROVE seen[n] = s[n]
    <3>1. n - t.offset \in 1 .. last - t.offset /\ t.offset + (n - t.offset) = n
      BY <1>3, <1>9
    <3>2. seen[n] = page[n - t.offset]
      BY <2>1, <3>1
    <3> QED
      BY <1>10, <3>1, <3>2
  <2>5. DOMAIN seen = 1 .. last
    BY <2>1, <2>2
  <2> QED
    BY <2>1, <2>2, <2>4, <2>5
<1>13. finished \in BOOLEAN
  OBVIOUS
<1>14. /\ next \in Traversal
       /\ next.seen = seen /\ next.offset = offset /\ next.finished = finished
       /\ next.ascending = t.ascending /\ next.initial = t.initial
  <2>1. seen \in Seq(Event) /\ offset \in Nat
    BY <1>9, <1>12
  <2> HIDE DEF seen, offset, finished
  <2>2. next = [t EXCEPT !.seen = seen, !.offset = offset, !.finished = finished]
    BY DEF seen
  <2> HIDE DEF next
  <2> QED
    BY <1>13, <2>1, <2>2 DEF Traversal
<1>15. t.initial \subseteq log
  BY DEF Sighted
<1>16. \A e : /\ Rank(t.ascending, t.initial, e) \in Nat /\ Rank(t.ascending, log, e) \in Nat
              /\ Rank(t.ascending, t.initial, e) <= Rank(t.ascending, log, e)
  BY <1>3, <1>15, RanksGrow
<1>17. DOMAIN t.seen = 1 .. t.offset
  BY <1>3, <1>4
<1>18. ASSUME NEW n \in 1 .. last
       PROVE  /\ seen[n] \in M
              /\ Rank(t.ascending, t.initial, seen[n]) <= n - 1
              /\ n - 1 <= Rank(t.ascending, log, seen[n])
  <2>1. CASE n \in 1 .. t.offset
    BY <1>12, <1>17, <2>1 DEF Sighted
  <2>2. CASE n \in t.offset + 1 .. last
    <3>1. seen[n] = s[n] /\ n \in 1 .. size
      <4> HIDE DEF seen, M, size, last
      <4>1. seen[n] = s[n]
        BY <1>12, <2>2
      <4>2. n \in 1 .. size
        BY <1>1, <1>3, <1>9, <2>2
      <4> QED
        BY <4>1, <4>2
    <3>2. seen[n] \in M /\ Rank(t.ascending, log, seen[n]) = n - 1
      <4> HIDE DEF seen, M, size, last
      <4> QED
        BY <1>7, <3>1
    <3>3. Rank(t.ascending, t.initial, seen[n]) <= n - 1 /\ n - 1 <= Rank(t.ascending, log, seen[n])
      <4> HIDE DEF seen, M, size, last
      <4> QED
        BY <1>16, <3>2
    <3> QED
      BY <3>2, <3>3
  <2>3. n \in 1 .. t.offset \/ n \in t.offset + 1 .. last
    <3> HIDE DEF last
    <3> QED
      BY <1>3, <1>9
  <2> QED
    BY <2>1, <2>2, <2>3
<1>19. ASSUME NEW e \in Matching(t.initial)
       PROVE  /\ Rank(t.ascending, log, e) < size
              /\ Rank(t.ascending, log, e) < offset => \E n \in 1 .. last : seen[n] = e
  <2>1. e \in M
    BY <1>15 DEF Matching
  <2> HIDE DEF M
  <2>2. PICK n \in 1 .. size : s[n] = e
    BY <1>6, <2>1
  <2> HIDE DEF size
  <2>3. Rank(t.ascending, log, e) = n - 1 /\ n \in Nat /\ n <= size /\ n > 0
    BY <1>1, <1>7, <2>2
  <2>4. Rank(t.ascending, log, e) < size
    BY <1>1, <2>3
  <2>5. ASSUME Rank(t.ascending, log, e) < offset PROVE \E k \in 1 .. last : seen[k] = e
    <3>1. CASE n <= t.offset
      <4>1. Rank(t.ascending, log, e) < t.offset
        BY <1>3, <2>3, <3>1
      <4>2. PICK k \in DOMAIN t.seen : t.seen[k] = e
        BY <4>1 DEF Sighted
      <4>3. k \in 1 .. t.offset /\ k \in 1 .. last
        <5> HIDE DEF last
        <5> QED
          BY <1>3, <1>9, <1>17, <4>2
      <4>4. seen[k] = e
        <5> HIDE DEF seen, last
        <5> QED
          BY <1>12, <4>2, <4>3
      <4> QED
        BY <4>3, <4>4
    <3>2. CASE ~(n <= t.offset)
      <4>1. n <= offset
        <5> HIDE DEF offset
        <5> QED
          BY <1>9, <2>3, <2>5
      <4>2. n <= last
        BY <1>1, <1>9, <2>3, <4>1
      <4>3. n \in t.offset + 1 .. last /\ n \in 1 .. last
        <5> HIDE DEF last, offset
        <5> QED
          BY <1>3, <1>9, <2>3, <3>2, <4>2
      <4>4. seen[n] = e
        <5> HIDE DEF last, seen
        <5> QED
          BY <1>12, <2>2, <4>3
      <4> QED
        BY <4>3, <4>4
    <3> QED
      BY <3>1, <3>2
  <2> QED
    BY <2>4, <2>5
<1>20. ~finished => Len(seen) = offset /\ offset <= size
  <2>1. ~finished => last = offset /\ offset <= size
    <3> HIDE DEF M, size
    <3> QED
      BY <1>1, <1>3
  <2> HIDE DEF seen, last, offset, finished, size
  <2> QED
    BY <1>12, <2>1
<1>21. finished => \A e \in Matching(t.initial) : \E n \in DOMAIN seen : seen[n] = e
  <2> SUFFICES ASSUME finished, NEW e \in Matching(t.initial)
               PROVE  \E n \in 1 .. last : seen[n] = e
    BY <1>12
  <2>1. Rank(t.ascending, log, e) < offset
    <3>1. Rank(t.ascending, log, e) < size /\ Rank(t.ascending, log, e) \in Nat
      BY <1>16, <1>19
    <3> HIDE DEF M, size
    <3> QED
      BY <1>1, <1>3, <3>1
  <2> QED
    BY <1>19, <2>1
<1>22. Sighted(next, log)
  <2> HIDE DEF seen, offset, finished, next, last
  <2>1. \A n \in DOMAIN next.seen :
          /\ next.seen[n] \in Matching(log)
          /\ Rank(next.ascending, next.initial, next.seen[n]) <= n - 1
          /\ n - 1 <= Rank(next.ascending, log, next.seen[n])
    BY <1>12, <1>14, <1>18
  <2>2. ~next.finished =>
          /\ Len(next.seen) = next.offset
          /\ next.offset <= Cardinality(Matching(log))
          /\ \A e \in Matching(next.initial) : Rank(next.ascending, log, e) < next.offset =>
               \E n \in DOMAIN next.seen : next.seen[n] = e
    BY <1>12, <1>14, <1>19, <1>20
  <2>3. next.finished =>
          \A e \in Matching(next.initial) : \E n \in DOMAIN next.seen : next.seen[n] = e
    BY <1>14, <1>21
  <2> QED
    BY <1>14, <1>15, <2>1, <2>2, <2>3 DEF Sighted
<1> QED
  BY <1>14, <1>22

-----------------------------------------------------------------------------
\* What holds of the log and of those who use it.
Unique ==
  /\ Distinct(log)
  /\ \A c \in Clients : Recording(c) => \A e \in log : e.id # calls[c].id
  /\ \A c, d \in Clients : c # d /\ Recording(c) /\ Recording(d) => calls[c].id # calls[d].id

Trail ==
  /\ log \in SUBSET Event /\ IsFiniteSet(log)
  /\ calls \in [Clients -> Event \cup Traversal \cup {NoCall}]
  /\ Unique
  /\ \A c \in Clients : Reading(c) => Sighted(calls[c], log)

LEMMA Kinds ==
  /\ \A x \in Event : "seen" \notin DOMAIN x
  /\ \A x \in Traversal : "id" \notin DOMAIN x
  BY DEF Event, Traversal

LEMMA KindOfCall ==
  ASSUME Trail, NEW c \in Clients
  PROVE  /\ Recording(c) => calls[c] \in Event
         /\ Reading(c) => calls[c] \in Traversal
<1>1. calls[c] \in Event \cup Traversal \cup {NoCall}
  BY DEF Trail
<1> QED
  BY <1>1, Kinds DEF Recording, Reading

LEMMA TrailInitially == AuditInit => Trail
<1> SUFFICES ASSUME AuditInit PROVE Trail
  OBVIOUS
<1>1. log = {} /\ \A c \in Clients : calls[c] = NoCall
  BY DEF AuditInit
<1>2. calls \in [Clients -> Event \cup Traversal \cup {NoCall}]
  BY DEF AuditInit
<1>3. IsFiniteSet(log)
  BY <1>1, FS_EmptySet
<1>4. Unique
  BY <1>1 DEF Unique, Distinct, Recording
<1> QED
  BY <1>1, <1>2, <1>3, <1>4 DEF Trail, Reading

LEMMA WantsKeeps ==
  ASSUME Trail, NEW c \in Clients, NEW call \in Event \cup Traversal \cup {NoCall},
         Wants(c, call), log' = log,
         call # NoCall /\ "id" \in DOMAIN call =>
           /\ \A e \in log : e.id # call.id
           /\ \A d \in Clients \ {c} : Recording(d) => calls[d].id # call.id,
         call # NoCall /\ "seen" \in DOMAIN call => Sighted(call, log)
  PROVE  Trail'
<1>1. /\ calls' \in [Clients -> Event \cup Traversal \cup {NoCall}]
      /\ calls'[c] = call
      /\ \A d \in Clients \ {c} : calls'[d] = calls[d]
  <2>1. calls \in [Clients -> Event \cup Traversal \cup {NoCall}]
    BY DEF Trail
  <2>2. calls' = [calls EXCEPT ![c] = call]
    BY DEF Wants
  <2> QED
    BY <2>1, <2>2
<1>2. log' \in SUBSET Event /\ IsFiniteSet(log')
  BY DEF Trail
<1>3. Unique'
  <2>1. Distinct(log)'
    BY DEF Trail, Unique, Distinct
  <2>2. ASSUME NEW d \in Clients, Recording(d)' PROVE \A e \in log' : e.id # calls'[d].id
    <3>1. CASE d = c
      BY <1>1, <2>2, <3>1 DEF Recording
    <3>2. CASE d # c
      BY <1>1, <2>2, <3>2 DEF Recording, Trail, Unique
    <3> QED
      BY <3>1, <3>2
  <2>3. ASSUME NEW d \in Clients, NEW o \in Clients, d # o, Recording(d)', Recording(o)'
        PROVE  calls'[d].id # calls'[o].id
    <3>1. CASE d = c
      BY <1>1, <2>3, <3>1 DEF Recording
    <3>2. CASE o = c
      BY <1>1, <2>3, <3>2 DEF Recording
    <3>3. CASE d # c /\ o # c
      BY <1>1, <2>3, <3>3 DEF Recording, Trail, Unique
    <3> QED
      BY <3>1, <3>2, <3>3
  <2> QED
    BY <2>1, <2>2, <2>3 DEF Unique
<1>4. ASSUME NEW d \in Clients, Reading(d)' PROVE Sighted(calls'[d], log)
  <2>1. CASE d = c
    BY <1>1, <1>4, <2>1 DEF Reading
  <2>2. CASE d # c
    BY <1>1, <1>4, <2>2 DEF Reading, Trail
  <2> QED
    BY <2>1, <2>2
<1>5. (\A d \in Clients : Reading(d) => Sighted(calls[d], log))'
  <2> SUFFICES ASSUME NEW d \in Clients, Reading(d)' PROVE Sighted(calls[d], log)'
    OBVIOUS
  <2>1. Sighted(calls'[d], log')
    BY <1>1, <1>4
  <2> QED
    BY ONLY <2>1 DEF Sighted
<1> QED
  BY <1>1, <1>2, <1>3, <1>5 DEF Trail

LEMMA CreateKeeps ==
  ASSUME Trail, NEW c \in Clients, NEW id \in EventIds, NEW time \in Instants,
         NEW matches \in BOOLEAN, Create(c, id, time, matches)
  PROVE  Trail'
<1> DEFINE call == [id |-> id, time |-> time, matches |-> matches]
<1>1. call \in Event /\ call.id = id /\ "seen" \notin DOMAIN call
  BY DEF Event
<1>2. Wants(c, call) /\ log' = log
  BY DEF Create
<1>3. \A e \in log : e.id # id
  BY DEF Create
<1>4. \A d \in Clients \ {c} : Recording(d) => calls[d].id # id
  BY DEF Create
<1> HIDE DEF call
<1> QED
  BY <1>1, <1>2, <1>3, <1>4, WantsKeeps

LEMMA LookKeeps ==
  ASSUME Trail, NEW c \in Clients, NEW ascending \in BOOLEAN, NEW limit \in Limits,
         Look(c, ascending, limit)
  PROVE  Trail'
<1> DEFINE call == [ascending |-> ascending, limit |-> limit, offset |-> 0,
                    seen |-> <<>>, initial |-> log, finished |-> FALSE]
<1>1. log \in SUBSET Event /\ IsFiniteSet(log) /\ <<>> \in Seq(Event)
  BY DEF Trail
<1>2. call \in Traversal
  BY <1>1 DEF Traversal
<1>3. /\ call.initial = log /\ call.seen = <<>> /\ call.offset = 0 /\ call.finished = FALSE
      /\ "id" \notin DOMAIN call
  OBVIOUS
<1>4. Wants(c, call) /\ log' = log
  BY DEF Look
<1> HIDE DEF call
<1>5. Sighted(call, log)
  BY <1>1, <1>2, <1>3, SightedAtFirst
<1> QED
  BY <1>2, <1>3, <1>4, <1>5, WantsKeeps

LEMMA LeaveKeeps == ASSUME Trail, NEW c \in Clients, Leave(c) PROVE Trail'
  BY WantsKeeps DEF Leave

LEMMA PageKeeps == ASSUME Trail, NEW c \in Clients, Page(c), ~calls[c].finished PROVE Trail'
<1> DEFINE t == calls[c]
           offset == t.offset + t.limit
<1>1. Reading(c) /\ t \in Traversal /\ Sighted(t, log)
  BY KindOfCall DEF Page, Trail
<1>2. PICK page \in PagesOf(t) :
        Wants(c, [t EXCEPT !.seen = @ \o page, !.offset = offset,
                           !.finished = offset >= Cardinality(Matching(log))])
  BY DEF Page
<1> DEFINE next == [t EXCEPT !.seen = @ \o page, !.offset = offset,
                             !.finished = offset >= Cardinality(Matching(log))]
<1>3. log \in SUBSET Event /\ IsFiniteSet(log) /\ Distinct(log)
  BY DEF Trail, Unique
<1>4. next \in Traversal /\ Sighted(next, log)
  <2> HIDE DEF t
  <2> QED
    BY <1>1, <1>3, SightedNext DEF t
<1>5. Wants(c, next) /\ log' = log /\ "id" \notin DOMAIN next
  BY <1>2, <1>4, Kinds DEF Page
<1> HIDE DEF next
<1> QED
  BY <1>4, <1>5, WantsKeeps

LEMMA InsertKeeps == ASSUME Trail, NEW c \in Clients, Insert(c) PROVE Trail'
<1> DEFINE e == calls[c]
<1>1. Recording(c) /\ e \in Event
  BY KindOfCall DEF Insert
<1>2. log \in SUBSET Event /\ IsFiniteSet(log) /\ log \subseteq log'
      /\ (log' = log \/ log' = log \cup {e})
  BY DEF Trail, Insert
<1>3. log' \in SUBSET Event /\ IsFiniteSet(log')
  <2>1. IsFiniteSet(log \cup {e})
    <3> HIDE DEF e
    <3> QED
      BY <1>2, FS_AddElement
  <2> QED
    BY <1>1, <1>2, <2>1
<1>4. /\ calls' \in [Clients -> Event \cup Traversal \cup {NoCall}]
      /\ calls'[c] = NoCall
      /\ \A d \in Clients \ {c} : calls'[d] = calls[d]
  <2>1. calls \in [Clients -> Event \cup Traversal \cup {NoCall}]
    BY DEF Trail
  <2>2. calls' = [calls EXCEPT ![c] = NoCall]
    BY DEF Insert, Wants
  <2> QED
    BY <2>1, <2>2
<1>5. \A d \in Clients : Recording(d)' \/ Reading(d)' => d # c
  BY <1>4 DEF Recording, Reading
<1>6. \A d \in log : d.id # e.id
  BY <1>1 DEF Trail, Unique
<1>7. Distinct(log')
  <2> SUFFICES ASSUME NEW a \in log', NEW b \in log', a.id = b.id PROVE a = b
    BY DEF Distinct
  <2>1. a \in log \/ a = e
    BY <1>2
  <2>2. b \in log \/ b = e
    BY <1>2
  <2>3. Distinct(log)
    BY DEF Trail, Unique
  <2> HIDE DEF e
  <2> QED
    BY <1>6, <2>1, <2>2, <2>3 DEF Distinct
<1>8. ASSUME NEW d \in Clients, Recording(d)' PROVE \A a \in log' : a.id # calls'[d].id
  <2>1. d # c /\ calls'[d] = calls[d] /\ Recording(d)
    BY <1>4, <1>5, <1>8 DEF Recording
  <2>2. \A a \in log : a.id # calls[d].id
    BY <2>1 DEF Trail, Unique
  <2>3. e.id # calls[d].id
    BY <1>1, <2>1 DEF Trail, Unique
  <2> QED
    BY <1>2, <2>1, <2>2, <2>3
<1>9. ASSUME NEW d \in Clients, NEW o \in Clients, d # o, Recording(d)', Recording(o)'
      PROVE  calls'[d].id # calls'[o].id
  <2>1. d # c /\ o # c /\ calls'[d] = calls[d] /\ calls'[o] = calls[o]
    BY <1>4, <1>5, <1>9
  <2>2. Recording(d) /\ Recording(o)
    BY <1>9, <2>1 DEF Recording
  <2> QED
    BY <1>9, <2>1, <2>2 DEF Trail, Unique
<1>10. Unique'
  BY <1>7, <1>8, <1>9 DEF Unique, Distinct
<1>11. ASSUME NEW d \in Clients, Reading(d)' PROVE Sighted(calls'[d], log')
  <2>1. calls'[d] = calls[d] /\ Reading(d)
    BY <1>4, <1>5, <1>11 DEF Reading
  <2>2. calls[d] \in Traversal /\ Sighted(calls[d], log)
    BY <2>1, KindOfCall DEF Trail
  <2> QED
    BY <1>2, <1>3, <2>1, <2>2, SightedAsLogGrows
<1>12. (\A d \in Clients : Reading(d) => Sighted(calls[d], log))'
  <2> SUFFICES ASSUME NEW d \in Clients, Reading(d)' PROVE Sighted(calls[d], log)'
    OBVIOUS
  <2>1. Sighted(calls'[d], log')
    BY <1>11
  <2> QED
    BY ONLY <2>1 DEF Sighted
<1> QED
  BY <1>3, <1>4, <1>10, <1>12 DEF Trail

LEMMA CrashKeepsTrail == ASSUME Trail, Crash PROVE Trail'
<1>1. /\ calls' = [c \in Clients |-> IF Recording(c) THEN NoCall ELSE calls[c]]
      /\ log' = log
  BY DEF Crash
<1>2. calls' \in [Clients -> Event \cup Traversal \cup {NoCall}]
  <2>1. calls \in [Clients -> Event \cup Traversal \cup {NoCall}]
    BY DEF Trail
  <2> QED
    BY <1>1, <2>1
<1>3. \A c \in Clients : ~Recording(c)'
  <2> SUFFICES ASSUME NEW c \in Clients PROVE ~Recording(c)'
    OBVIOUS
  <2>1. CASE Recording(c)
    BY <1>1, <2>1 DEF Recording
  <2>2. CASE ~Recording(c)
    <3>1. calls'[c] = calls[c]
      BY <1>1, <2>2
    <3> QED
      BY <2>2, <3>1 DEF Recording
  <2> QED
    BY <2>1, <2>2
<1>4. Unique'
  BY <1>1, <1>3 DEF Trail, Unique, Distinct
<1>5. ASSUME NEW c \in Clients, Reading(c)' PROVE Sighted(calls'[c], log')
  <2>1. calls'[c] = calls[c]
    BY <1>1, <1>5 DEF Reading
  <2>2. Reading(c)
    BY <1>5, <2>1 DEF Reading
  <2> QED
    BY <1>1, <2>1, <2>2 DEF Trail
<1>6. (\A c \in Clients : Reading(c) => Sighted(calls[c], log))'
  <2> SUFFICES ASSUME NEW c \in Clients, Reading(c)' PROVE Sighted(calls[c], log)'
    OBVIOUS
  <2>1. Sighted(calls'[c], log')
    BY <1>5
  <2> QED
    BY ONLY <2>1 DEF Sighted
<1> QED
  BY <1>1, <1>2, <1>4, <1>6 DEF Trail

LEMMA TrailUntouched == ASSUME Trail, log' = log, calls' = calls PROVE Trail'
<1>1. Unique'
  BY DEF Trail, Unique, Distinct, Recording
<1>2. ASSUME NEW c \in Clients, Reading(c)' PROVE Sighted(calls'[c], log')
  <2>1. Reading(c)
    BY <1>2 DEF Reading
  <2> QED
    BY <2>1 DEF Trail
<1>3. (\A c \in Clients : Reading(c) => Sighted(calls[c], log))'
  <2> SUFFICES ASSUME NEW c \in Clients, Reading(c)' PROVE Sighted(calls[c], log)'
    OBVIOUS
  <2>1. Sighted(calls'[c], log')
    BY <1>2
  <2> QED
    BY ONLY <2>1 DEF Sighted
<1> QED
  BY <1>1, <1>3 DEF Trail

-----------------------------------------------------------------------------
\* A client that has seen all pages asks for no more.
Resting == \A c \in Clients : Reading(c) /\ calls[c].finished => At(c, "closed")

Ind == Database /\ Trail /\ Resting

\* A step of one client leaves what the others do.
LEMMA RestingKept ==
  ASSUME Database, Resting, NEW c \in Clients,
         \A d \in Clients \ {c} : opening'[d] = opening[d] /\ calls'[d] = calls[d],
         opening'[c].step = "closed" \/ ~(Reading(c)' /\ calls'[c].finished)
  PROVE  Resting'
<1> SUFFICES ASSUME NEW d \in Clients, Reading(d)', calls'[d].finished
             PROVE  opening'[d].step = "closed"
  BY DEF Resting, At
<1>1. CASE d = c
  BY <1>1
<1>2. CASE d # c
  BY <1>2 DEF Resting, Reading, At
<1> QED
  BY <1>1, <1>2

LEMMA OnlyOne ==
  ASSUME Ind, NEW c \in Clients, NEW call, NEW new,
         calls' = calls \/ calls' = [calls EXCEPT ![c] = call],
         opening' = opening \/ opening' = [opening EXCEPT ![c] = new]
  PROVE  \A d \in Clients \ {c} : opening'[d] = opening[d] /\ calls'[d] = calls[d]
<1>1. calls \in [Clients -> Event \cup Traversal \cup {NoCall}] /\ opening \in [Clients -> Opening]
  BY DEF Ind, Trail, Database, DatabaseTypes
<1> QED
  BY <1>1

\* Only Page and Insert close for a client whose call changes, and nobody opens who has finished.
LEMMA IndKept == Ind /\ [AuditNext]_auditVars => Ind'
<1> SUFFICES ASSUME Ind, [AuditNext]_auditVars PROVE Ind'
  OBVIOUS
<1>1. Database'
  BY DatabaseKept DEF Ind
<1>2. /\ calls \in [Clients -> Event \cup Traversal \cup {NoCall}]
      /\ opening \in [Clients -> Opening]
  BY DEF Ind, Trail, Database, DatabaseTypes
<1>3. CASE UNCHANGED auditVars
  <2>1. Trail'
    BY <1>3, TrailUntouched DEF auditVars, Ind
  <2>2. Resting'
    BY <1>3 DEF auditVars, databaseVars, Ind, Resting, Reading, At
  <2> QED
    BY <1>1, <2>1, <2>2 DEF Ind
<1>4. CASE Crash
  <2>1. \A c \in Clients : opening'[c].step = "closed"
    BY <1>4 DEF Crash, Closed
  <2>2. Resting'
    BY <2>1 DEF Resting, At
  <2> QED
    BY <1>1, <1>4, <2>2, CrashKeepsTrail DEF Ind
<1>5. ASSUME NEW c \in Clients, NEW id \in EventIds, NEW time \in Instants, NEW matches \in BOOLEAN,
             Create(c, id, time, matches)
      PROVE  Ind'
  <2> DEFINE call == [id |-> id, time |-> time, matches |-> matches]
  <2>1. calls' = [calls EXCEPT ![c] = call]
        /\ opening' = [opening EXCEPT ![c] = [step |-> "create", next |-> 1]]
    BY <1>5 DEF Create, Wants, Open, Reaches
  <2>2. call \in Event
    BY DEF Event
  <2> HIDE DEF call
  <2>3. ~Reading(c)'
    BY <1>2, <2>1, <2>2, Kinds DEF Reading
  <2>4. Resting'
    BY <2>1, <2>3, OnlyOne, RestingKept DEF Ind
  <2> QED
    BY <1>1, <1>5, <2>4, CreateKeeps DEF Ind
<1>6. ASSUME NEW c \in Clients, NEW ascending \in BOOLEAN, NEW limit \in Limits,
             Look(c, ascending, limit)
      PROVE  Ind'
  <2> DEFINE call == [ascending |-> ascending, limit |-> limit, offset |-> 0,
                      seen |-> <<>>, initial |-> log, finished |-> FALSE]
  <2>1. calls' = [calls EXCEPT ![c] = call]
        /\ opening' = [opening EXCEPT ![c] = [step |-> "create", next |-> 1]]
    BY <1>6 DEF Look, Wants, Open, Reaches
  <2>2. ~call.finished
    OBVIOUS
  <2> HIDE DEF call
  <2>3. ~calls'[c].finished
    BY <1>2, <2>1, <2>2
  <2>4. Resting'
    BY <2>1, <2>3, OnlyOne, RestingKept DEF Ind
  <2> QED
    BY <1>1, <1>6, <2>4, LookKeeps DEF Ind
<1>7. ASSUME NEW c \in Clients, Continue(c) PROVE Ind'
  <2>1. calls' = calls /\ log' = log
        /\ opening' = [opening EXCEPT ![c] = [step |-> "create", next |-> 1]]
    BY <1>7 DEF Continue, Open, Reaches
  <2>2. ~calls'[c].finished
    BY <1>7, <2>1 DEF Continue
  <2>3. Resting'
    BY <2>1, <2>2, OnlyOne, RestingKept DEF Ind
  <2> QED
    BY <1>1, <2>1, <2>3, TrailUntouched DEF Ind
<1>8. ASSUME NEW c \in Clients, Leave(c) PROVE Ind'
  <2>1. calls' = [calls EXCEPT ![c] = NoCall] /\ opening' = opening
    BY <1>8 DEF Leave, Wants, databaseVars
  <2>2. ~Reading(c)'
    BY <1>2, <2>1 DEF Reading
  <2>3. Resting'
    BY <2>1, <2>2, OnlyOne, RestingKept DEF Ind
  <2> QED
    BY <1>1, <1>8, <2>3, LeaveKeeps DEF Ind
<1>9. ASSUME NEW c \in Clients, Insert(c) \/ Page(c) PROVE Ind'
  <2>1. PICK call : calls' = [calls EXCEPT ![c] = call]
    BY <1>9 DEF Insert, Page, Wants
  <2>2. opening' = [opening EXCEPT ![c] = Closed] /\ At(c, "open")
    BY <1>9 DEF Insert, Page, Closes
  <2>3. opening'[c].step = "closed"
    BY <1>2, <2>2 DEF Closed
  <2>4. Resting'
    BY <2>1, <2>2, <2>3, OnlyOne, RestingKept DEF Ind
  <2>5. Page(c) => ~calls[c].finished
    BY <2>2 DEF Page, Ind, Resting, At
  <2> QED
    BY <1>1, <1>9, <2>4, <2>5, InsertKeeps, PageKeeps DEF Ind
<1>10. ASSUME NEW c \in Clients, Initialises(c), UNCHANGED <<log, calls>> PROVE Ind'
  <2>1. opening[c].step # "closed"
    BY <1>10 DEF Initialises, CreateVersions, ReadVersion, RunStatement, RecordVersion, Locked, At
  <2>2. PICK new : opening' = [opening EXCEPT ![c] = new]
    BY <1>10 DEF Initialises, CreateVersions, ReadVersion, RunStatement, RecordVersion, Locked,
                 Reaches, Closes
  <2>3. ~(Reading(c)' /\ calls'[c].finished)
    BY <1>10, <2>1 DEF Ind, Resting, Reading, At
  <2>4. Resting'
    BY <1>10, <2>2, <2>3, OnlyOne, RestingKept DEF Ind
  <2> QED
    BY <1>1, <1>10, <2>4, TrailUntouched DEF Ind
<1> QED
  BY <1>3, <1>4, <1>5, <1>6, <1>7, <1>8, <1>9, <1>10 DEF AuditNext

LEMMA IndInit == AuditInit => Ind
  BY DatabaseInitially, TrailInitially DEF AuditInit, Ind, Resting, Reading

\* Log and calls keep to their types.
THEOREM AuditTypeCorrect == AuditSpec => []AuditTypes
<1>1. Ind => AuditTypes
  BY DEF Ind, Database, Trail, AuditTypes
<1> QED
  BY IndInit, IndKept, <1>1, PTL DEF AuditSpec

-----------------------------------------------------------------------------
\* Of two events that are seen in the wrong order, or of one that is seen twice, the first has more
\* before it by now than when the client began.
LEMMA SightedInOrder ==
  ASSUME log \in SUBSET Event, IsFiniteSet(log), Distinct(log),
         NEW t \in Traversal, Sighted(t, log),
         NEW m \in DOMAIN t.seen, NEW n \in DOMAIN t.seen, m < n,
         ~Before(t.ascending, t.seen[m], t.seen[n])
  PROVE  \E e \in Matching(log \ t.initial) : Before(t.ascending, e, t.seen[m])
<1> DEFINE a == t.seen[m]
           b == t.seen[n]
           A == {d \in Matching(log) : Before(t.ascending, d, a)}
           B == {d \in Matching(log) : Before(t.ascending, d, b)}
           O == {d \in Matching(t.initial) : Before(t.ascending, d, a)}
<1>1. t.ascending \in BOOLEAN /\ t.seen \in Seq(Event) /\ t.initial \in SUBSET Event
  BY DEF Traversal
<1>2. m \in Nat /\ n \in Nat
  BY <1>1
<1>3. a \in Matching(log) /\ b \in Matching(log)
  BY DEF Sighted
<1>4. a \in Event /\ b \in Event /\ a \in log /\ b \in log
  BY <1>3 DEF Matching
<1>5. a = b \/ Before(t.ascending, b, a)
  <2> HIDE DEF a, b
  <2>1. a.id = b.id => a = b
    BY <1>4 DEF Distinct
  <2>2. a # b => Before(t.ascending, a, b) \/ Before(t.ascending, b, a)
    BY <1>1, <1>4, <2>1, OrderIsStrict
  <2>3. ~Before(t.ascending, a, b)
    BY DEF a, b
  <2> QED
    BY <2>2, <2>3
<1>6. B \in SUBSET A
  <2>1. CASE a = b
    BY <2>1
  <2>2. CASE Before(t.ascending, b, a)
    <3> SUFFICES ASSUME NEW d \in Matching(log), Before(t.ascending, d, b)
                 PROVE  Before(t.ascending, d, a)
      OBVIOUS
    <3>1. d \in Event /\ d \in log
      BY DEF Matching
    <3>2. Distinct({d, b, a})
      BY <1>4, <3>1 DEF Distinct
    <3> HIDE DEF a, b
    <3> QED
      BY <1>1, <1>4, <2>2, <3>1, <3>2, OrderIsTransitive
  <2> QED
    BY <1>5, <2>1, <2>2
<1>7. IsFiniteSet(A) /\ Cardinality(B) <= Cardinality(A)
  <2>1. IsFiniteSet(Matching(log))
    BY MatchingIsFinite
  <2>2. A \in SUBSET Matching(log)
    OBVIOUS
  <2> HIDE DEF A, B
  <2>3. IsFiniteSet(A)
    BY <2>1, <2>2, FS_Subset
  <2> QED
    BY <1>6, <2>3, FS_Subset
<1>8. Cardinality(O) <= m - 1 /\ n - 1 <= Cardinality(B)
  BY DEF Sighted, Rank
<1>9. Cardinality(A) \in Nat /\ Cardinality(O) \in Nat /\ Cardinality(B) \in Nat
  <2>1. t.initial \subseteq log
    BY DEF Sighted
  <2>2. /\ Rank(t.ascending, log, a) \in Nat /\ Rank(t.ascending, log, b) \in Nat
        /\ Rank(t.ascending, t.initial, a) \in Nat
    <3> HIDE DEF a, b
    <3> QED
      BY <1>1, <2>1, RanksGrow
  <2> QED
    BY <2>2 DEF Rank
<1>10. Cardinality(O) < Cardinality(A)
  <2> HIDE DEF A, B, O
  <2> QED
    BY <1>2, <1>7, <1>8, <1>9
<1>11. ~(A \subseteq O)
  <2> SUFFICES ASSUME A \subseteq O PROVE FALSE
    OBVIOUS
  <2>1. O \in SUBSET A
    BY DEF Sighted, Matching
  <2>2. A = O
    BY <2>1
  <2> HIDE DEF A, O
  <2> QED
    BY <1>9, <1>10, <2>2
<1>12. PICK e \in A : e \notin O
  BY <1>11
<1>13. e \in Matching(log \ t.initial) /\ Before(t.ascending, e, a)
  BY <1>12 DEF Matching
<1> QED
  BY <1>13

\* Reading the log page by page misses nothing that was there when the client began, and repeats
\* or misplaces an event only where a new one pushed it on, for any number of clients and events.
THEOREM PagesAreComplete == AuditSpec => []PagesComplete
<1>1. Ind => PagesComplete
  <2> SUFFICES ASSUME Ind, NEW c \in Clients, Reading(c)
               PROVE  LET t == calls[c]
                          seen == t.seen
                      IN  /\ t.finished =>
                               \A e \in Matching(t.initial) : \E n \in DOMAIN seen : seen[n] = e
                          /\ \A m, n \in DOMAIN seen : m < n /\ ~Before(t.ascending, seen[m], seen[n]) =>
                               \E e \in Matching(log \ t.initial) : Before(t.ascending, e, seen[m])
    BY DEF PagesComplete
  <2>1. calls[c] \in Traversal /\ Sighted(calls[c], log)
    BY KindOfCall DEF Ind, Trail
  <2>2. log \in SUBSET Event /\ IsFiniteSet(log) /\ Distinct(log)
    BY DEF Ind, Trail, Unique
  <2>3. calls[c].finished =>
          \A e \in Matching(calls[c].initial) : \E n \in DOMAIN calls[c].seen : calls[c].seen[n] = e
    BY <2>1 DEF Sighted
  <2>4. ASSUME NEW m \in DOMAIN calls[c].seen, NEW n \in DOMAIN calls[c].seen, m < n,
               ~Before(calls[c].ascending, calls[c].seen[m], calls[c].seen[n])
        PROVE  \E e \in Matching(log \ calls[c].initial) :
                 Before(calls[c].ascending, e, calls[c].seen[m])
    BY <2>1, <2>2, <2>4, SightedInOrder
  <2> QED
    BY <2>3, <2>4
<1> QED
  BY IndInit, IndKept, <1>1, PTL DEF AuditSpec
=============================================================================
