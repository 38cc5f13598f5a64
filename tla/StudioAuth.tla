------------------------------ MODULE StudioAuth ------------------------------
(***************************************************************************)
(* AuthService over FileAuthStore: the one owner of a Studio, its sessions *)
(* and the output credential the OBS browser source connects with.  Every  *)
(* save goes through one temporary path, so the saves of two requests that *)
(* overlap share an inode: `ino' and `tmp' below are the file system's.    *)
(* A request is a job that stops at each await.                            *)
(***************************************************************************)
EXTENDS Naturals, FiniteSets

CONSTANTS
    Candidates,  \* who may ask for setup
    Nobody,      \* no owner
    Shows,
    Requests,    \* concurrent setup and rotation requests
    Sockets,     \* output connections
    MaxTokens,   \* bound: output tokens ever minted
    MaxSessions, \* bound: sessions ever created
    MaxCrashes,  \* bound: restarts
    MaxFailures  \* bound: failing saves and archived Shows

AuthAssumption ==
    /\ Nobody \notin Candidates /\ IsFiniteSet(Requests)
    /\ MaxTokens \in Nat /\ MaxSessions \in Nat /\ MaxCrashes \in Nat /\ MaxFailures \in Nat

VARIABLES
    up,          \* the process runs
    mem,         \* AuthService.state
    busy,        \* setupInProgress
    sessions,    \* live session tokens: id -> user
    expired,     \* ids whose expiresAt is past
    minted,      \* tokens and sessions created so far
    job,         \* per request: what it does and where it stands
    tmp, file,   \* the inode at each path, 0 if there is none
    ino,         \* per inode: what was written
    archived,    \* archived Shows
    conns,       \* output connections: socket -> token, 0 when closed
    answered,    \* the owner whose setup was answered 201
    crashes, failures

vars == <<up, mem, busy, sessions, expired, minted, job, tmp, file, ino, archived,
          conns, answered, crashes, failures>>
disk == <<tmp, file, ino>>
budget == <<crashes, failures>>

NoCredential == [token |-> 0, show |-> "none"]
Credentials == {NoCredential} \cup [token : 1..MaxTokens, show : Shows]
States == [owner : Candidates \cup {Nobody}, output : Credentials]
EmptyAuthState == [owner |-> Nobody, output |-> NoCredential]
Blank == [kind |-> "blank"]                       \* truncated, nothing written yet
Torn == [kind |-> "torn"]                         \* the tail of a longer text left behind
Legacy(c) == [kind |-> "v1", owner |-> c]         \* overlaykit-local-auth/v1
Saved(s) == [kind |-> "v2", state |-> s]
Inodes == 1..(2 + Cardinality(Requests) * (1 + MaxCrashes))

Idle == [op |-> "none", at |-> "idle", who |-> Nobody, state |-> EmptyAuthState, ino |-> 0]
Job(op, at, who, s) == [op |-> op, at |-> at, who |-> who, state |-> s, ino |-> 0]

Init ==
    /\ up = FALSE /\ mem = EmptyAuthState /\ busy = FALSE
    /\ sessions = {} /\ expired = {} /\ minted = [token |-> 0, session |-> 0]
    /\ job = [r \in Requests |-> Idle]
    /\ ino \in {[i \in Inodes |-> Blank]} \cup {[i \in Inodes |-> IF i = 1 THEN Legacy(c) ELSE Blank] : c \in Candidates \cup {Nobody}}
    /\ tmp = 0 /\ file = IF ino[1] = Blank THEN 0 ELSE 1
    /\ archived = {} /\ conns = [c \in Sockets |-> 0]
    /\ answered = Nobody
    /\ crashes = 0 /\ failures = 0

-----------------------------------------------------------------------------
(* load: no file is an empty state, a v1 file is migrated without its      *)
(* output credential (and saved, which this start does in one step: nobody *)
(* else runs yet); anything else malformed refuses to start.               *)
Loads(c) == c.kind \in {"v1", "v2"}
Loaded(c) == IF c.kind = "v1" THEN [owner |-> c.owner, output |-> NoCredential] ELSE c.state

LoadOrEmpty(state, file1, ino1) ==
    /\ state = IF file # 0 /\ Loads(ino[file]) THEN Loaded(ino[file]) ELSE EmptyAuthState
    /\ file1 = file
    /\ ino1 = IF file # 0 /\ Loads(ino[file]) THEN [ino EXCEPT ![file] = Saved(state)] ELSE ino

Load(state, file1, ino1) ==
    \/ /\ file = 0
       /\ state = EmptyAuthState /\ file1 = file /\ ino1 = ino
    \/ /\ file # 0 /\ Loads(ino[file])
       /\ state = Loaded(ino[file])
       /\ file1 = file
       /\ ino1 = [ino EXCEPT ![file] = Saved(state)]

Start ==
    /\ ~up
    /\ \E s \in States : Load(s, file', ino') /\ mem' = s
    /\ up' = TRUE
    /\ UNCHANGED <<busy, sessions, expired, minted, job, tmp, archived, conns, answered, budget>>

Crash ==
    /\ up /\ crashes < MaxCrashes /\ crashes' = crashes + 1
    /\ up' = FALSE /\ busy' = FALSE /\ sessions' = {} /\ expired' = {}
    /\ job' = [r \in Requests |-> Idle] /\ conns' = [c \in Sockets |-> 0]
    /\ UNCHANGED <<mem, minted, disk, archived, answered, failures>>

-----------------------------------------------------------------------------
Fails == failures < MaxFailures /\ failures' = failures + 1
CanMint(k, max) == minted[k] < max
CreateSession(user) ==
    /\ minted' = [minted EXCEPT !.session = @ + 1]
    /\ sessions' = sessions \cup {[id |-> minted.session + 1, user |-> user]}

(* authenticateSession: the session exists and has not expired. *)
Authenticates(s) == s \in sessions /\ s.id \notin expired

(* setup: refused while another one runs or an owner exists. *)
SetupOpen == ~busy /\ mem.owner = Nobody

Setup(r, c) ==
    /\ up /\ job[r] = Idle /\ SetupOpen /\ CanMint("session", MaxSessions)
    /\ busy' = TRUE
    /\ job' = [job EXCEPT ![r] = Job("setup", "derive", c, EmptyAuthState)]
    /\ UNCHANGED <<up, mem, sessions, expired, minted, disk, archived, conns, answered, budget>>

(* The key is derived: the owner enters the live state, which is saved. *)
SetupDerived(r) ==
    /\ job[r].at = "derive"
    /\ mem' = [mem EXCEPT !.owner = job[r].who]
    /\ job' = [job EXCEPT ![r].at = "open", ![r].state = mem']
    /\ UNCHANGED <<up, busy, sessions, expired, minted, disk, archived, conns, answered, budget>>

(* login: the owner never changes while the process runs, so the password  *)
(* derivation between reading it and creating the session decides nothing. *)
Login ==
    /\ up /\ mem.owner # Nobody /\ CanMint("session", MaxSessions)
    /\ CreateSession(mem.owner)
    /\ UNCHANGED <<up, mem, busy, expired, job, disk, archived, conns, answered, budget>>

Logout(s) ==
    /\ Authenticates(s)
    /\ sessions' = sessions \ {s}
    /\ UNCHANGED <<up, mem, busy, expired, minted, job, disk, archived, conns, answered, budget>>

SessionExpires(s) ==
    /\ Authenticates(s)
    /\ expired' = expired \cup {s.id}
    /\ UNCHANGED <<up, mem, busy, sessions, minted, job, disk, archived, conns, answered, budget>>

(* requireSession meets an expired session and forgets it. *)
ForgetExpired(s) ==
    /\ s \in sessions /\ s.id \in expired
    /\ sessions' = sessions \ {s}
    /\ UNCHANGED <<up, mem, busy, expired, minted, job, disk, archived, conns, answered, budget>>

(* POST /auth/output-token: the session and its owner role are checked, and *)
(* then the Show is read from storage.                                      *)
RequestRotation(r, s) ==
    /\ up /\ job[r] = Idle /\ Authenticates(s)
    /\ \E w \in Shows : job' = [job EXCEPT ![r] =
           Job("rotate", "show", s.user, [owner |-> Nobody, output |-> [token |-> 0, show |-> w]])]
    /\ UNCHANGED <<up, mem, busy, sessions, expired, minted, disk, archived, conns, answered, budget>>

ArchiveShow(w) ==
    /\ w \notin archived /\ Fails
    /\ archived' = archived \cup {w}
    /\ UNCHANGED <<up, mem, busy, sessions, expired, minted, job, disk, conns, answered, crashes>>

(* The Show is there: a token is minted and a copy of the state is saved. *)
Rotate(r) ==
    /\ job[r].at = "show" /\ CanMint("token", MaxTokens)
    /\ IF job[r].state.output.show \in archived
       THEN job' = [job EXCEPT ![r] = Idle] /\ UNCHANGED minted
       ELSE /\ minted' = [minted EXCEPT !.token = @ + 1]
            /\ job' = [job EXCEPT ![r].at = "open", ![r].state =
                         [mem EXCEPT !.output = [token |-> minted.token + 1, show |-> job[r].state.output.show]]]
    /\ UNCHANGED <<up, mem, busy, sessions, expired, disk, archived, conns, answered, budget>>

-----------------------------------------------------------------------------
(* save: open (truncating whatever the path names), write, chmod the       *)
(* temporary path, rename it, chmod the file.  An open descriptor keeps    *)
(* its inode through a rename.                                             *)
FreeInode == CHOOSE i \in Inodes : i \notin {tmp, file} /\ \A r \in Requests : job[r].ino # i

SaveOpens(r) ==
    /\ job[r].at = "open"
    /\ LET i == IF tmp = 0 THEN FreeInode ELSE tmp IN
       /\ tmp' = i /\ ino' = [ino EXCEPT ![i] = Blank]
       /\ job' = [job EXCEPT ![r].at = "write", ![r].ino = i]
    /\ UNCHANGED <<up, mem, busy, sessions, expired, minted, file, archived, conns, answered, budget>>

(* A text written over a longer one leaves that one's tail. *)
SaveWrites(r) ==
    /\ job[r].at = "write"
    /\ \E c \in {Saved(job[r].state)} \cup (IF ino[job[r].ino] \in {Blank, Saved(job[r].state)} THEN {} ELSE {Torn}) :
           ino' = [ino EXCEPT ![job[r].ino] = c]
    /\ job' = [job EXCEPT ![r].at = "chmod"]
    /\ UNCHANGED <<up, mem, busy, sessions, expired, minted, tmp, file, archived, conns, answered, budget>>

(* A rejected save: setup keeps the owner it put into the live state and   *)
(* answers 500, a rotation leaves the state alone.                         *)
Reject(r) ==
    /\ job' = [job EXCEPT ![r] = Idle]
    /\ busy' = (busy /\ job[r].op # "setup")

SaveFails(r) ==
    /\ job[r].at \in {"open", "write", "chmod", "rename", "mode"}
    /\ \/ job[r].at \in {"chmod", "rename"} /\ tmp = 0 /\ UNCHANGED failures   \* ENOENT
       \/ Fails
    /\ Reject(r)
    /\ UNCHANGED <<up, mem, sessions, expired, minted, disk, archived, conns, answered, crashes>>

SaveChmods(r) ==
    /\ job[r].at = "chmod" /\ tmp # 0
    /\ job' = [job EXCEPT ![r].at = "rename"]
    /\ UNCHANGED <<up, mem, busy, sessions, expired, minted, disk, archived, conns, answered, budget>>

SaveRenames(r) ==
    /\ job[r].at = "rename" /\ tmp # 0
    /\ file' = tmp /\ tmp' = 0
    /\ job' = [job EXCEPT ![r].at = "mode"]
    /\ UNCHANGED <<up, mem, busy, sessions, expired, minted, ino, archived, conns, answered, budget>>

(* setup is answered with a session of the new owner ... *)
SetupSaved(r) ==
    /\ job[r].at = "mode" /\ job[r].op = "setup"
    /\ CreateSession(job[r].who)
    /\ answered' = job[r].who
    /\ job' = [job EXCEPT ![r] = Idle] /\ busy' = FALSE
    /\ UNCHANGED <<up, mem, expired, disk, archived, conns, budget>>

(* ... and a rotation replaces the state and then closes every output      *)
(* connection, in the listener the WebSocket server registered.            *)
CloseOutputs == conns' = [c \in Sockets |-> 0]

RotationSaved(r) ==
    /\ job[r].at = "mode" /\ job[r].op = "rotate"
    /\ mem' = job[r].state
    /\ CloseOutputs
    /\ job' = [job EXCEPT ![r] = Idle]
    /\ UNCHANGED <<up, busy, sessions, expired, minted, disk, archived, answered, budget>>

(* authenticate.output: the token is compared with the stored credential. *)
AuthenticateOutput(c, t) ==
    /\ up /\ conns[c] = 0 /\ t # 0 /\ mem.output.token = t
    /\ conns' = [conns EXCEPT ![c] = t]
    /\ UNCHANGED <<up, mem, busy, sessions, expired, minted, job, disk, archived, answered, budget>>

OutputCloses(c) ==
    /\ conns[c] # 0
    /\ conns' = [conns EXCEPT ![c] = 0]
    /\ UNCHANGED <<up, mem, busy, sessions, expired, minted, job, disk, archived, answered, budget>>

SaveStep(r) ==
    \/ SaveOpens(r) \/ SaveWrites(r) \/ SaveChmods(r) \/ SaveRenames(r) \/ SaveFails(r)
    \/ SetupSaved(r) \/ RotationSaved(r)

Next ==
    \/ Start \/ Crash \/ Login
    \/ \E r \in Requests : SetupDerived(r) \/ Rotate(r) \/ SaveStep(r)
    \/ \E r \in Requests, c \in Candidates : Setup(r, c)
    \/ \E r \in Requests, s \in sessions : RequestRotation(r, s)
    \/ \E s \in sessions : Logout(s) \/ SessionExpires(s) \/ ForgetExpired(s)
    \/ \E w \in Shows : ArchiveShow(w)
    \/ \E c \in Sockets : OutputCloses(c) \/ \E t \in 1..MaxTokens : AuthenticateOutput(c, t)

Spec == Init /\ [][Next]_vars

-----------------------------------------------------------------------------
(* Every setup that was answered 201 made the owner for good: whatever     *)
(* saves overlap, fail or are cut by a crash, and however often the server *)
(* restarts, a running server knows that owner (setup, save, load); every  *)
(* session is the owner's, so no two setups both handed out authority; and *)
(* an output connection that is open holds the credential in force.        *)
OwnerIsFinal ==
    /\ up /\ answered # Nobody => mem.owner = answered
    /\ \A s \in sessions : s.user = mem.owner
    /\ \A c \in Sockets : conns[c] # 0 => up /\ conns[c] = mem.output.token
=============================================================================
