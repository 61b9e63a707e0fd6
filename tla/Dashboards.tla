----------------------------- MODULE Dashboards -----------------------------
(***************************************************************************)
(* The custom dashboards of moxui (src/dashboard_custom/mod.rs, called by  *)
(* src/api/dashboard.rs): a map behind a tokio RwLock, and a JSON file     *)
(* that every change rewrites as a whole and the next start loads.         *)
(*                                                                         *)
(* A change takes the write lock for the map alone.  persist then takes a  *)
(* read guard, which lives until persist returns, and hands the file to    *)
(* tokio::fs::write: File::create and write_all on a thread of the         *)
(* blocking pool, which goes on when the handler that waits for it is      *)
(* dropped.  A small write(2) is taken to be indivisible.                  *)
(***************************************************************************)

CONSTANTS
  User,     \* keys of the map: the username in the caller's claims
  Config,   \* dashboards people save
  Request,  \* handlers; one that was dropped serves again after its write
  None,     \* "no saved dashboard": get_dashboard shows the default one
  Empty,    \* a file without a byte, or no file
  Torn      \* a file that does not parse

Maps == [User -> Config \cup {None}]
Nothing == [u \in User |-> None]

ASSUME DashboardsAssumption ==
  /\ None \notin Config
  /\ Empty \notin Maps /\ Torn \notin Maps /\ Empty # Torn

VARIABLES
  dashboards, \* the map
  file,       \* what dashboards.json holds
  pc,         \* pc[r]: where the handler is
  job,        \* job[r]: its write, which may outlive it
  content,    \* content[r]: what that write writes
  behind      \* history: a change may be missing in the file, because a
              \* handler was dropped or an operation on the file failed

dashboardVars == <<dashboards, file, pc, job, content, behind>>

DashboardsTypeOK ==
  /\ dashboards \in Maps
  /\ file \in Maps \cup {Empty, Torn}
  /\ pc \in [Request -> {"idle", "persist", "writing"}]
  /\ job \in [Request -> {"none", "queued", "opened"}]
  /\ content \in [Request -> Maps]
  /\ behind \in BOOLEAN

DashboardsInit ==
  /\ dashboards = Nothing
  /\ file = Empty
  /\ pc = [r \in Request |-> "idle"]
  /\ job = [r \in Request |-> "none"]
  /\ content = [r \in Request |-> Nothing]
  /\ behind = FALSE

\* A write whose handler still waits for it.
Attached(r) == pc[r] = "writing"

\* Mutant: persist clones the map and lets go of it before it writes.
MapIsFreeAtOnce == TRUE

\* Nobody holds a read guard, so that the write lock can be had.
MapIsFree == \A r \in Request : pc[r] # "writing"

-----------------------------------------------------------------------------
(* A request.                                                              *)

Change(r, u, c) ==
  /\ pc[r] = "idle" /\ job[r] = "none"
  /\ MapIsFree
  /\ dashboards' = [dashboards EXCEPT ![u] = c]
  /\ pc' = [pc EXCEPT ![r] = "persist"]
  /\ UNCHANGED <<file, job, content, behind>>

\* POST /api/v1/dashboard/custom: the map changes, and persist is called.
save_dashboard(r, u, c) == c \in Config /\ Change(r, u, c)

delete_dashboard(r, u) == Change(r, u, None)

\* Mutant: only the entries that the file does not have yet are written.
PersistAdditions(r) ==
  /\ pc[r] = "persist"
  /\ pc' = [pc EXCEPT ![r] = "writing"]
  /\ job' = [job EXCEPT ![r] = "queued"]
  /\ content' = [content EXCEPT ![r] =
       [u \in User |-> IF file \in Maps /\ file[u] # None THEN file[u]
                       ELSE dashboards[u]]]
  /\ UNCHANGED <<dashboards, file, behind>>

\* persist: the guard, the text of the whole map, a thread for the file.
Persist(r) ==
  /\ pc[r] = "persist"
  /\ pc' = [pc EXCEPT ![r] = "writing"]
  /\ job' = [job EXCEPT ![r] = "queued"]
  /\ content' = [content EXCEPT ![r] = dashboards]
  /\ UNCHANGED <<dashboards, file, behind>>

\* create_dir_all fails; the map keeps what the answer calls an error.
PersistFails(r) ==
  /\ pc[r] = "persist"
  /\ pc' = [pc EXCEPT ![r] = "idle"]
  /\ behind' = TRUE
  /\ UNCHANGED <<dashboards, file, job, content>>

\* The handler is dropped because its peer hung up: its guard goes with it,
\* its write does not.
HangUp(r) ==
  /\ pc[r] # "idle"
  /\ pc' = [pc EXCEPT ![r] = "idle"]
  /\ behind' = TRUE
  /\ UNCHANGED <<dashboards, file, job, content>>

-----------------------------------------------------------------------------
(* The blocking thread.                                                    *)

\* The write is over, and whoever waits for it answers.
JobEnds(r) ==
  /\ job' = [job EXCEPT ![r] = "none"]
  /\ pc' = [pc EXCEPT ![r] = "idle"]
  /\ UNCHANGED <<dashboards, content>>

\* File::create.
Truncate(r) ==
  /\ job[r] = "queued"
  /\ job' = [job EXCEPT ![r] = "opened"]
  /\ file' = Empty
  /\ UNCHANGED <<dashboards, pc, content, behind>>

TruncateFails(r) ==
  /\ job[r] = "queued"
  /\ JobEnds(r)
  /\ behind' = TRUE
  /\ UNCHANGED file

\* This write leaves the map of this moment in the file, and no write without
\* a handler comes after it.
Repairs(r) ==
  /\ Attached(r)
  /\ file \in {Empty, content[r]}
  /\ \A s \in Request : job[s] # "none" => Attached(s)

\* write_all: over an empty file, or over the text of another thread that
\* truncated before, of which a longer text leaves its end.
Write(r) ==
  /\ job[r] = "opened"
  /\ \/ file' = content[r]
     \/ file \notin {Empty, content[r]} /\ file' = Torn
  /\ JobEnds(r)
  /\ behind' = (behind /\ ~Repairs(r))

WriteFails(r) ==
  /\ job[r] = "opened"
  /\ file' \in {file, Torn}
  /\ JobEnds(r)
  /\ behind' = TRUE

-----------------------------------------------------------------------------
(* The process.                                                            *)

\* Mutant: a file that does not parse is taken as it is.
LoadedAsIs == file

\* What `new` makes of the file.
Loaded == IF file \in Maps THEN file ELSE Nothing

\* The process ends, threads and all, at any moment, and is started again;
\* a file that cannot be read counts as none.
Restart ==
  /\ \/ dashboards' = Loaded /\ behind' = FALSE
     \/ dashboards' = Nothing /\ behind' = TRUE
  /\ pc' = [r \in Request |-> "idle"]
  /\ job' = [r \in Request |-> "none"]
  /\ UNCHANGED <<file, content>>

DashboardsNext ==
  \/ \E r \in Request, u \in User, c \in Config : save_dashboard(r, u, c)
  \/ \E r \in Request, u \in User : delete_dashboard(r, u)
  \/ \E r \in Request : Persist(r)
  \/ \E r \in Request : PersistFails(r)
  \/ \E r \in Request : HangUp(r)
  \/ \E r \in Request : Truncate(r)
  \/ \E r \in Request : TruncateFails(r)
  \/ \E r \in Request : Write(r)
  \/ \E r \in Request : WriteFails(r)
  \/ Restart

DashboardsSpec == DashboardsInit /\ [][DashboardsNext]_dashboardVars

-----------------------------------------------------------------------------
(* What makes it correct.                                                  *)

\* Saves of several users write the file at the same time and in any order;
\* as long as their handlers live they all write the same map, the present
\* one, because each holds its read guard until its write is over.
GuardedWritesAgree == \A r \in Request : Attached(r) => content[r] = dashboards

\* When no write is under way and none was given up, a restart changes nothing:
\* one save that goes through makes up for every write that failed before.
SettledFileIsMap ==
  (/\ \A r \in Request : pc[r] = "idle" /\ job[r] = "none"
   /\ ~behind)
    => Loaded = dashboards
=============================================================================
