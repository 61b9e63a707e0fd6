------------------------- MODULE Dashboards_proofs --------------------------
(* Proofs about Dashboards, for any users, dashboards and handlers.        *)
EXTENDS Dashboards, TLAPS

\* A handler that waits has a write, one before persist has none.
JobsOK ==
  \A r \in Request :
    /\ pc[r] = "writing" => job[r] # "none"
    /\ pc[r] = "persist" => job[r] = "none"

\* While nothing was given up, no write is without a handler, the file that is
\* being written is empty or already right, and between saves it is the map.
CleanOK ==
  ~behind =>
    /\ \A r \in Request : job[r] # "none" => Attached(r)
    /\ (\E r \in Request : job[r] = "opened") => file \in {Empty, dashboards}
    /\ (\A r \in Request : pc[r] = "idle") => Loaded = dashboards

DashboardsInv ==
  /\ DashboardsTypeOK
  /\ GuardedWritesAgree
  /\ JobsOK
  /\ CleanOK

\* The empty map is a map.
LEMMA NothingIsAMap == Nothing \in Maps
  BY DEF Nothing, Maps

\* Changing one entry of a map gives a map.
LEMMA ChangedMapIsAMap ==
  ASSUME NEW m \in Maps, NEW u \in User, NEW c \in Config \cup {None}
  PROVE  [m EXCEPT ![u] = c] \in Maps
  BY DEF Maps

\* What a start loads is a map.
LEMMA LoadedIsAMap == Loaded \in Maps
  BY NothingIsAMap DEF Loaded

\* The invariant holds at the first start.
LEMMA DashboardsInitially == DashboardsInit => DashboardsInv
  BY NothingIsAMap, DashboardsAssumption
     DEF DashboardsInit, DashboardsInv, DashboardsTypeOK, GuardedWritesAgree,
         JobsOK, CleanOK, Attached, Loaded

\* A change needs the write lock, so that no waiting write can differ from it.
LEMMA ChangeKeepsInv ==
  ASSUME DashboardsInv, NEW r \in Request, NEW u \in User,
         NEW c \in Config \cup {None}, Change(r, u, c)
  PROVE  DashboardsInv'
  <1>1. dashboards' \in Maps
    BY ChangedMapIsAMap DEF Change, DashboardsInv, DashboardsTypeOK
  <1>2. DashboardsTypeOK'
    BY <1>1 DEF Change, DashboardsInv, DashboardsTypeOK
  <1>3. GuardedWritesAgree'
    BY DEF Change, MapIsFree, DashboardsInv, DashboardsTypeOK,
           GuardedWritesAgree, Attached
  <1>4. JobsOK'
    BY DEF Change, DashboardsInv, DashboardsTypeOK, JobsOK
  <1>5. CleanOK'
    BY DEF Change, MapIsFree, DashboardsInv, DashboardsTypeOK, JobsOK,
           CleanOK, Attached
  <1>. QED
    BY <1>2, <1>3, <1>4, <1>5 DEF DashboardsInv

\* The other steps of a handler leave the map and the file alone.
LEMMA HandlerKeepsInv ==
  ASSUME DashboardsInv, NEW r \in Request,
         Persist(r) \/ PersistFails(r) \/ HangUp(r)
  PROVE  DashboardsInv'
  <1>1. CASE Persist(r)
    BY <1>1 DEF Persist, DashboardsInv, DashboardsTypeOK, GuardedWritesAgree,
                JobsOK, CleanOK, Attached, Loaded
  <1>2. CASE PersistFails(r)
    BY <1>2 DEF PersistFails, DashboardsInv, DashboardsTypeOK,
                GuardedWritesAgree, JobsOK, CleanOK, Attached
  <1>3. CASE HangUp(r)
    BY <1>3 DEF HangUp, DashboardsInv, DashboardsTypeOK, GuardedWritesAgree,
                JobsOK, CleanOK, Attached
  <1>. QED
    BY <1>1, <1>2, <1>3

\* A write that ends without an error leaves the map in the file, unless a
\* write without a handler got in its way.
LEMMA WriteKeepsInv ==
  ASSUME DashboardsInv, NEW r \in Request, Write(r)
  PROVE  DashboardsInv'
  <1>1. content[r] \in Maps
    BY DEF DashboardsInv, DashboardsTypeOK
  <1>2. DashboardsTypeOK'
    BY <1>1 DEF Write, JobEnds, DashboardsInv, DashboardsTypeOK
  <1>3. GuardedWritesAgree' /\ JobsOK'
    BY DEF Write, JobEnds, DashboardsInv, DashboardsTypeOK,
           GuardedWritesAgree, JobsOK, Attached
  <1>4. ASSUME ~behind'
        PROVE  /\ file' = dashboards
               /\ \A s \in Request : job[s] # "none" => Attached(s)
    <2>1. CASE behind
      BY <2>1, <1>4 DEF Write, Repairs, DashboardsInv, DashboardsTypeOK,
                        GuardedWritesAgree
    <2>2. CASE ~behind
      BY <2>2 DEF Write, DashboardsInv, DashboardsTypeOK, GuardedWritesAgree,
                  CleanOK
    <2>. QED
      BY <2>1, <2>2
  <1>5. CleanOK'
    BY <1>4 DEF Write, JobEnds, DashboardsInv, DashboardsTypeOK, CleanOK,
                Attached, Loaded
  <1>. QED
    BY <1>2, <1>3, <1>5 DEF DashboardsInv

\* The other steps of the blocking thread.
LEMMA ThreadKeepsInv ==
  ASSUME DashboardsInv, NEW r \in Request,
         Truncate(r) \/ TruncateFails(r) \/ WriteFails(r)
  PROVE  DashboardsInv'
  <1>1. CASE Truncate(r)
    BY <1>1 DEF Truncate, DashboardsInv, DashboardsTypeOK, GuardedWritesAgree,
                JobsOK, CleanOK, Attached
  <1>2. CASE TruncateFails(r)
    BY <1>2 DEF TruncateFails, JobEnds, DashboardsInv, DashboardsTypeOK,
                GuardedWritesAgree, JobsOK, CleanOK, Attached
  <1>3. CASE WriteFails(r)
    BY <1>3 DEF WriteFails, JobEnds, DashboardsInv, DashboardsTypeOK,
                GuardedWritesAgree, JobsOK, CleanOK, Attached
  <1>. QED
    BY <1>1, <1>2, <1>3

\* A start finds no handlers and no threads.
LEMMA RestartKeepsInv ==
  ASSUME DashboardsInv, Restart
  PROVE  DashboardsInv'
  BY NothingIsAMap, LoadedIsAMap
     DEF Restart, DashboardsInv, DashboardsTypeOK, GuardedWritesAgree, JobsOK,
         CleanOK, Attached, Loaded

\* The invariant holds in every state, crashes and dropped handlers included.
THEOREM DashboardsInvariance == DashboardsSpec => []DashboardsInv
  <1>1. DashboardsInv /\ [DashboardsNext]_dashboardVars => DashboardsInv'
    <2>. SUFFICES ASSUME DashboardsInv, [DashboardsNext]_dashboardVars
                  PROVE  DashboardsInv'
      OBVIOUS
    <2>1. CASE UNCHANGED dashboardVars
      BY <2>1 DEF dashboardVars, DashboardsInv, DashboardsTypeOK,
                  GuardedWritesAgree, JobsOK, CleanOK, Attached, Loaded
    <2>2. CASE \E r \in Request, u \in User, c \in Config :
                 save_dashboard(r, u, c)
      BY <2>2, ChangeKeepsInv DEF save_dashboard
    <2>3. CASE \E r \in Request, u \in User : delete_dashboard(r, u)
      BY <2>3, ChangeKeepsInv DEF delete_dashboard
    <2>4. CASE \E r \in Request : Persist(r) \/ PersistFails(r) \/ HangUp(r)
      BY <2>4, HandlerKeepsInv
    <2>5. CASE \E r \in Request :
                 Truncate(r) \/ TruncateFails(r) \/ WriteFails(r)
      BY <2>5, ThreadKeepsInv
    <2>6. CASE \E r \in Request : Write(r)
      BY <2>6, WriteKeepsInv
    <2>7. CASE Restart
      BY <2>7, RestartKeepsInv
    <2>. QED
      BY <2>1, <2>2, <2>3, <2>4, <2>5, <2>6, <2>7 DEF DashboardsNext
  <1>. QED
    BY <1>1, DashboardsInitially, PTL DEF DashboardsSpec

\* Type correctness of the map, the file, the handlers and their writes.
THEOREM DashboardsTypeCorrect == DashboardsSpec => []DashboardsTypeOK
  BY DashboardsInvariance, PTL DEF DashboardsInv

\* However many saves overlap, those that will be answered write one text.
THEOREM OverlappingSavesAgree == DashboardsSpec => []GuardedWritesAgree
  BY DashboardsInvariance, PTL DEF DashboardsInv

\* Once things have settled, a crash and restart loses nothing.
THEOREM SettledSavesAreDurable == DashboardsSpec => []SettledFileIsMap
  <1>1. DashboardsInv => SettledFileIsMap
    BY DEF DashboardsInv, CleanOK, SettledFileIsMap
  <1>. QED
    BY <1>1, DashboardsInvariance, PTL
=============================================================================
