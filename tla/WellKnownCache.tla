--------------------------- MODULE WellKnownCache ---------------------------
(***************************************************************************)
(* The Cache of one well-known Source: the publisher's last index, the     *)
(* Skills unpacked from artifacts the index names by digest, and a state   *)
(* file with the digest of the index, its validators and the digest each   *)
(* Skill on disk was unpacked from.  Every Scope shares it; nothing locks  *)
(* it.  index.json and state.json are each replaced atomically, one after  *)
(* the other, and a Skill's directory is removed and moved in.             *)
(*                                                                         *)
(* An artifact, its digest and the directory unpacked from it are one      *)
(* value; what cannot be verified or unpacked is a download that fails.    *)
(***************************************************************************)
CONSTANTS
  Proc,          \* commands that may run at once
  Scope,         \* Scopes that declare the Source
  Skill,
  Digest,
  Version,       \* indexes the publisher may serve
  Index,         \* Index[v][n] is the digest v names for n, Unlisted if none
  Publishes,     \* <<v, w>> when w may follow v
  First,         \* the first of them
  InitDeclared,  \* what each Scope declares at first
  Addable,       \* what a user may add
  Unlisted,
  Absent,        \* not on disk, not in the state file
  Torn,          \* a directory whose removal was cut short
  None

ASSUME PublisherAssumption ==
  /\ Index \in [Version -> [Skill -> Digest \cup {Unlisted}]]
  /\ Publishes \subseteq Version \X Version
  /\ First \in Version
  /\ InitDeclared \in [Scope -> SUBSET Skill]

ASSUME MarkAssumption ==
  /\ Digest \cap {Unlisted, Absent, Torn} = {}
  /\ Absent # Unlisted /\ Absent # Torn
  /\ None \notin Version \cup Scope \cup Skill

VARIABLES
  pub,       \* the index the publisher serves
  calm,      \* the publisher and the network hold still from here on
  index,     \* index.json, None when there is none
  state,     \* state.json
  disk,      \* the directory of each Skill
  declared,  \* what each Scope's Config declares
  pc, kind, scope,
  force,     \* whether the index is asked for whole
  got,       \* the answer: an index, or None for 304
  mem,       \* the wellKnownState a command holds
  ver,       \* the index whose entries it covers
  todo,      \* the Skills it has still to drop or to cover
  cur,       \* the one at hand
  pick,      \* the Skill the user chose in Add
  then,      \* the step after covering
  quiet      \* nobody else has acted since the command started

files == <<index, state, disk>>
publisher == <<pub, calm>>
own == <<pc, kind, scope, force, pick, got, mem, ver, todo, cur, then>>
vars == <<pub, calm, index, state, disk, declared, pc, kind, scope, force, pick,
          got, mem, ver, todo, cur, then, quiet>>

State == [index : Version \cup {None}, etag : Version \cup {None},
          covered : [Skill -> Digest \cup {Absent}]]

NoState == [index |-> None, etag |-> None, covered |-> [n \in Skill |-> Absent]]

Stage == {"idle", "fetch", "index", "drop", "open", "cover", "clear", "move",
          "record", "renames", "choose", "chosen", "save", "ok", "failed"}

TypeOK ==
  /\ pub \in Version
  /\ calm \in BOOLEAN
  /\ index \in Version \cup {None}
  /\ state \in State
  /\ disk \in [Skill -> Digest \cup {Absent, Torn}]
  /\ declared \in [Scope -> SUBSET Skill]
  /\ pc \in [Proc -> Stage]
  /\ kind \in [Proc -> {"update", "add"}]
  /\ scope \in [Proc -> Scope \cup {None}]
  /\ force \in [Proc -> BOOLEAN]
  /\ pick \in [Proc -> Skill \cup {None}]
  /\ got \in [Proc -> Version \cup {None}]
  /\ mem \in [Proc -> State]
  /\ ver \in [Proc -> Version \cup {None}]
  /\ todo \in [Proc -> SUBSET Skill]
  /\ cur \in [Proc -> Skill \cup {None}]
  /\ then \in [Proc -> Stage]
  /\ quiet \in [Proc -> BOOLEAN]

-----------------------------------------------------------------------------
Listed(v) == IF v = None THEN {} ELSE {n \in Skill : Index[v][n] # Unlisted}

(* head: what the Cache holds, or nothing while either file is missing.    *)
Head == IF index = None THEN None ELSE state.index

OnDisk(n) == disk[n] # Absent

(* coverage: the Skills the state file names whose directory is there.     *)
CoverageMissing(names) ==
  {n \in names : ~(state.covered[n] # Absent /\ OnDisk(n))}

(* fetchIndex is conditional on the ETag of the index the Cache holds.     *)
NotModified(forced) == ~forced /\ Head # None /\ state.etag = pub

(* The digest a fingerprint takes for a name: none when there is no entry. *)
Named(v, n) == IF n \in Listed(v) THEN Index[v][n] ELSE Absent

(* Mutant: a 304 is taken for nothing to do.                               *)
MutantRemoteStatus(s) ==
  CASE Head = None -> "not_cached"
    [] Head # None /\ NotModified(FALSE) -> "up_to_date"
    [] Head # None /\ ~NotModified(FALSE) -> "update_available"

(* observe and freshnessFromCache: the digests of the declared Skills on   *)
(* disk against those of the index the publisher serves.                   *)
RemoteStatus(s) ==
  LET remote == IF NotModified(FALSE) THEN index ELSE pub
      same == \A n \in declared[s] : state.covered[n] = Named(remote, n)
  IN CASE Head = None -> "not_cached"
       [] Head # None /\ ~same -> "update_available"
       [] Head # None /\ same /\ CoverageMissing(declared[s]) # {} -> "cache_incomplete"
       [] Head # None /\ same /\ CoverageMissing(declared[s]) = {} -> "up_to_date"

-----------------------------------------------------------------------------
(* Steps of one command.                                                   *)

Goto(p, stage) == pc' = [pc EXCEPT ![p] = stage]

Step(p, stage) ==
  /\ Goto(p, stage)
  /\ quiet' = [o \in Proc |-> quiet[o] /\ o = p]
  /\ UNCHANGED publisher

Task == <<kind, scope, force>>
Held == <<got, mem, ver, todo, cur, then>>

Start(p, k, s, f, stage) ==
  /\ pc[p] = "idle"
  /\ Goto(p, stage)
  /\ kind' = [kind EXCEPT ![p] = k]
  /\ scope' = [scope EXCEPT ![p] = s]
  /\ force' = [force EXCEPT ![p] = f]
  /\ quiet' = [o \in Proc |-> o = p]
  /\ UNCHANGED <<publisher, files, declared, pick, Held>>

(* UpdateRemoteSkills: one that only lacks a Skill is revalidated and      *)
(* covered, one that is up to date is left, and its renames are followed.  *)
StartUpdate(p, s) ==
  LET status == RemoteStatus(s) IN
  \/ /\ status = "up_to_date"
     /\ Start(p, "update", s, FALSE, "renames")
  \/ /\ status # "up_to_date"
     /\ Start(p, "update", s, status # "cache_incomplete", "fetch")

StartForced(p, s) == ~calm /\ Start(p, "update", s, TRUE, "fetch")

(* prepareWellKnownIntake refreshes without naming a Skill.                *)
StartAdd(p, s) == ~calm /\ Start(p, "add", s, TRUE, "fetch")

(* Where RefreshWithProgress goes on with Cover(paths...).                 *)
ToCover(p, names, next) ==
  /\ todo' = [todo EXCEPT ![p] = names]
  /\ then' = [then EXCEPT ![p] = next]

CoverDeclared(p) ==
  ToCover(p, IF kind[p] = "add" THEN {} ELSE declared[scope[p]],
             IF kind[p] = "add" THEN "choose" ELSE "renames")

FetchIndex(p) ==
  /\ pc[p] = "fetch"
  /\ \/ /\ NotModified(force[p])
        /\ got' = [got EXCEPT ![p] = None]
        /\ CoverDeclared(p)
        /\ Step(p, "open")
     \/ /\ ~NotModified(force[p])
        /\ got' = [got EXCEPT ![p] = pub]
        /\ Step(p, "index")
        /\ UNCHANGED <<todo, then>>
  /\ UNCHANGED <<files, declared, Task, pick, mem, ver, cur>>

(* index.json first; the state read back is to name it, and what the index *)
(* no longer lists is to be dropped.                                       *)
WriteIndex(p) ==
  /\ pc[p] = "index"
  /\ index' = got[p]
  /\ mem' = [mem EXCEPT ![p] = [state EXCEPT !.index = got[p], !.etag = got[p]]]
  /\ todo' = [todo EXCEPT ![p] =
                {n \in Skill \ Listed(got[p]) : state.covered[n] # Absent}]
  /\ Step(p, "drop")
  /\ UNCHANGED <<state, disk, declared, Task, pick, got, ver, cur, then>>

DropSkill(p) ==
  /\ pc[p] = "drop"
  /\ \E n \in todo[p] :
       /\ disk' = [disk EXCEPT ![n] = Absent]
       /\ mem' = [mem EXCEPT ![p].covered[n] = Absent]
       /\ todo' = [todo EXCEPT ![p] = @ \ {n}]
  /\ Step(p, "drop")
  /\ UNCHANGED <<index, state, declared, Task, pick, got, ver, cur, then>>

SaveIndexState(p) ==
  /\ pc[p] = "drop" /\ todo[p] = {}
  /\ state' = mem[p]
  /\ CoverDeclared(p)
  /\ got' = [got EXCEPT ![p] = None]
  /\ Step(p, "open")
  /\ UNCHANGED <<index, disk, declared, Task, pick, mem, ver, cur>>

(* Cover reads index and state once for all its Skills.                    *)
OpenCover(p) ==
  /\ pc[p] = "open"
  /\ index # None
  /\ ver' = [ver EXCEPT ![p] = index]
  /\ mem' = [mem EXCEPT ![p] = state]
  /\ todo' = [todo EXCEPT ![p] = @ \cap Listed(index)]
  /\ Step(p, "cover")
  /\ UNCHANGED <<files, declared, Task, pick, got, cur, then>>

(* Mutant: a directory that is there is the right one.                     *)
MutantUpToDate(p, n) == OnDisk(n)

UpToDate(p, n) == mem[p].covered[n] = Index[ver[p]][n] /\ OnDisk(n)

SkipSkill(p) ==
  /\ pc[p] = "cover"
  /\ \E n \in todo[p] :
       UpToDate(p, n) /\ todo' = [todo EXCEPT ![p] = @ \ {n}]
  /\ Step(p, "cover")
  /\ UNCHANGED <<files, declared, Task, pick, got, mem, ver, cur, then>>

(* What the publisher serves is what its index names by now; an older      *)
(* artifact may be served on while the publisher has not settled.          *)
Serves(v, n) == Index[v][n] = Index[pub][n] \/ ~calm

(* Mutant: the state file names the digest before the files are there.     *)
MutantDownload(p) ==
  /\ pc[p] = "cover"
  /\ \E n \in todo[p] :
       /\ ~UpToDate(p, n)
       /\ Serves(ver[p], n)
       /\ state' = [mem[p] EXCEPT !.covered[n] = Index[ver[p]][n]]
       /\ cur' = [cur EXCEPT ![p] = n]
       /\ todo' = [todo EXCEPT ![p] = @ \ {n}]
  /\ Step(p, "clear")
  /\ UNCHANGED <<index, disk, declared, Task, pick, got, mem, ver, then>>

(* fetchEntry into a staging directory: the artifact that has the digest.  *)
Download(p) ==
  /\ pc[p] = "cover"
  /\ \E n \in todo[p] :
       /\ ~UpToDate(p, n)
       /\ Serves(ver[p], n)
       /\ cur' = [cur EXCEPT ![p] = n]
       /\ todo' = [todo EXCEPT ![p] = @ \ {n}]
  /\ Step(p, "clear")
  /\ UNCHANGED <<files, declared, Task, pick, got, mem, ver, then>>

ClearTarget(p) ==
  /\ pc[p] = "clear"
  /\ disk' = [disk EXCEPT ![cur[p]] = Absent]
  /\ Step(p, "move")
  /\ UNCHANGED <<index, state, declared, Task, pick, Held>>

(* A rename onto a directory that came back fails.                         *)
MoveIn(p) ==
  /\ pc[p] = "move"
  /\ ~OnDisk(cur[p])
  /\ disk' = [disk EXCEPT ![cur[p]] = Index[ver[p]][cur[p]]]
  /\ Step(p, "record")
  /\ UNCHANGED <<index, state, declared, Task, pick, Held>>

(* The whole state file is saved as this command holds it.                 *)
RecordCovered(p) ==
  LET m == [mem[p] EXCEPT !.covered[cur[p]] = Index[ver[p]][cur[p]]] IN
  /\ pc[p] = "record"
  /\ mem' = [mem EXCEPT ![p] = m]
  /\ state' = m
  /\ cur' = [cur EXCEPT ![p] = None]
  /\ Step(p, "cover")
  /\ UNCHANGED <<index, disk, declared, Task, pick, got, ver, todo, then>>

FinishCover(p) ==
  /\ pc[p] = "cover" /\ todo[p] = {}
  /\ ver' = [ver EXCEPT ![p] = None]
  /\ mem' = [mem EXCEPT ![p] = NoState]
  /\ Step(p, then[p])
  /\ UNCHANGED <<files, declared, Task, pick, got, todo, cur, then>>

(* followRenames: the declared Skills the index does not list.  To find    *)
(* what replaces them every listed Skill is covered, and what is found     *)
(* among them once more, which covers nothing new.                         *)
Removed(p) == declared[scope[p]] \ Listed(index)

NoRenames(p) ==
  /\ pc[p] = "renames"
  /\ Head = None \/ Removed(p) = {}
  /\ Step(p, "ok")
  /\ UNCHANGED <<files, declared, Task, pick, Held>>

LookForRenames(p) ==
  /\ pc[p] = "renames"
  /\ Head # None /\ Removed(p) # {}
  /\ ToCover(p, Listed(index), "ok")
  /\ Step(p, "open")
  /\ UNCHANGED <<files, declared, Task, pick, got, mem, ver, cur>>

(* Add offers what the index lists; the user chooses while Add waits, and  *)
(* Declare covers the choice with what the Scope declares already.         *)
Choose(p) ==
  /\ pc[p] = "choose"
  /\ \E n \in Listed(index) \cap Addable :
       /\ pick' = [pick EXCEPT ![p] = n]
       /\ ToCover(p, declared[scope[p]] \cup {n}, "save")
  /\ Step(p, "open")
  /\ UNCHANGED <<files, declared, Task, got, mem, ver, cur>>

(* The caller saves the Config that Declare changed.                       *)
SaveDeclared(p) ==
  /\ pc[p] = "save"
  /\ declared' = [declared EXCEPT ![scope[p]] = @ \cup {pick[p]}]
  /\ Step(p, "ok")
  /\ UNCHANGED <<files, Task, pick, Held>>

-----------------------------------------------------------------------------
(* Endings.                                                                *)

Forget(p) ==
  /\ kind' = [kind EXCEPT ![p] = "update"]
  /\ scope' = [scope EXCEPT ![p] = None]
  /\ force' = [force EXCEPT ![p] = FALSE]
  /\ pick' = [pick EXCEPT ![p] = None]
  /\ got' = [got EXCEPT ![p] = None]
  /\ mem' = [mem EXCEPT ![p] = NoState]
  /\ ver' = [ver EXCEPT ![p] = None]
  /\ todo' = [todo EXCEPT ![p] = {}]
  /\ cur' = [cur EXCEPT ![p] = None]
  /\ then' = [then EXCEPT ![p] = "idle"]

Exit(p) ==
  /\ pc[p] \in {"ok", "failed"}
  /\ Forget(p)
  /\ Step(p, "idle")
  /\ UNCHANGED <<files, declared>>

(* No index to cover from, an artifact the publisher no longer serves, a   *)
(* directory in the way, a user who chooses nothing.                       *)
Blocked(p) ==
  \/ pc[p] = "choose"
  \/ pc[p] = "open" /\ index = None
  \/ pc[p] = "cover" /\ \E n \in todo[p] : ~UpToDate(p, n) /\ ~Serves(ver[p], n)
  \/ pc[p] = "move" /\ OnDisk(cur[p])

Fails(p) ==
  /\ Blocked(p) \/ (~calm /\ pc[p] \notin {"idle", "renames", "ok", "failed"})
  /\ Step(p, "failed")
  /\ UNCHANGED <<files, declared, Task, pick, Held>>

(* A kill, and while a directory is removed a kill that leaves part of it. *)
Kill(p) ==
  /\ ~calm
  /\ pc[p] # "idle"
  /\ \/ UNCHANGED disk
     \/ \E n \in (IF pc[p] = "drop" THEN todo[p]
                  ELSE IF pc[p] = "clear" THEN {cur[p]} ELSE {}) :
          OnDisk(n) /\ disk' = [disk EXCEPT ![n] = Torn]
  /\ Forget(p)
  /\ Step(p, "idle")
  /\ UNCHANGED <<index, state, declared>>

-----------------------------------------------------------------------------
(* The publisher, and a user who removes a Skill from a Config.            *)

Others == quiet' = [o \in Proc |-> FALSE] /\ UNCHANGED <<files, own>>

Publish ==
  /\ ~calm
  /\ \E v \in Version : <<pub, v>> \in Publishes /\ pub' = v
  /\ Others
  /\ UNCHANGED <<calm, declared>>

Undeclare(s) ==
  /\ ~calm
  /\ \E n \in declared[s] : declared' = [declared EXCEPT ![s] = @ \ {n}]
  /\ Others
  /\ UNCHANGED publisher

(* From here on nothing changes, fails or dies but what cannot go on; the  *)
(* antecedent of the liveness property.                                    *)
Settle == ~calm /\ calm' = TRUE /\ Others /\ UNCHANGED <<pub, declared>>

Init ==
  /\ pub = First
  /\ calm = FALSE
  /\ index = None
  /\ state = NoState
  /\ disk = [n \in Skill |-> Absent]
  /\ declared = InitDeclared
  /\ pc = [p \in Proc |-> "idle"]
  /\ kind = [p \in Proc |-> "update"]
  /\ scope = [p \in Proc |-> None]
  /\ force = [p \in Proc |-> FALSE]
  /\ pick = [p \in Proc |-> None]
  /\ got = [p \in Proc |-> None]
  /\ mem = [p \in Proc |-> NoState]
  /\ ver = [p \in Proc |-> None]
  /\ todo = [p \in Proc |-> {}]
  /\ cur = [p \in Proc |-> None]
  /\ then = [p \in Proc |-> "idle"]
  /\ quiet = [p \in Proc |-> FALSE]

RefreshStep(p) ==
  FetchIndex(p) \/ WriteIndex(p) \/ DropSkill(p) \/ SaveIndexState(p)

CoverStep(p) ==
  \/ OpenCover(p) \/ SkipSkill(p) \/ Download(p) \/ ClearTarget(p) \/ MoveIn(p)
  \/ RecordCovered(p) \/ FinishCover(p)

Run(p) ==
  \/ RefreshStep(p) \/ CoverStep(p) \/ NoRenames(p) \/ LookForRenames(p)
  \/ Choose(p) \/ SaveDeclared(p) \/ Exit(p) \/ Fails(p)

Begin(p, s) == StartUpdate(p, s) \/ StartForced(p, s) \/ StartAdd(p, s)

Next ==
  \/ \E p \in Proc : Run(p) \/ Kill(p)
  \/ \E p \in Proc, s \in Scope : Begin(p, s)
  \/ \E s \in Scope : Undeclare(s)
  \/ Publish \/ Settle

Spec == Init /\ [][Next]_vars

(* A command runs on while it can, and in every Scope somebody runs Update *)
(* again and again; nothing else is assumed of anybody.                    *)
Fairness ==
  /\ \A p \in Proc : WF_vars(Run(p))
  /\ \A s \in Scope : SF_vars(\E p \in Proc : StartUpdate(p, s))

FairSpec == Spec /\ Fairness

-----------------------------------------------------------------------------
(* Properties.                                                             *)

(* Name n is on disk as index v has it, and the state file says so.        *)
Intact(v, n) == disk[n] = Index[v][n] /\ state.covered[n] = Index[v][n]

(* Scope s has what it declares as the publisher has it now; if a Skill it *)
(* declares is gone, everything is on disk that could replace it.          *)
Current(s) ==
  LET names == IF declared[s] \subseteq Listed(pub) THEN declared[s] ELSE Listed(pub)
  IN \A n \in names : Intact(pub, n)

(* An undisturbed Update that reports no error leaves the declared Skills  *)
(* as the publisher serves them, whatever an earlier command left behind   *)
(* when it failed or was killed: revalidation, skipping what is covered    *)
(* and dropping what is unlisted must not hide what is stale or missing.   *)
UpdatedMeansCurrent ==
  \A p \in Proc :
    pc[p] = "ok" /\ quiet[p] /\ kind[p] = "update" => Current(scope[p])

(* A publisher whose indexes come in an order: it serves none again, and   *)
(* no name takes back a digest it had before another.                      *)
OnlyForward(Later) ==
  /\ Publishes \subseteq Later
  /\ \A u, v, w \in Version : <<u, v>> \in Later /\ <<v, w>> \in Later => <<u, w>> \in Later
  /\ \A v \in Version : <<v, v>> \notin Later
  /\ \A u, v, w \in Version, n \in Skill :
       /\ <<u, v>> \in Later /\ <<v, w>> \in Later
       /\ Index[u][n] \in Digest /\ Index[v][n] # Index[u][n]
       => Index[w][n] # Index[u][n]

NeverAgain == \E Later \in SUBSET (Version \X Version) : OnlyForward(Later)

(* What Cover would skip and Freshness calls covered is the artifact the   *)
(* index names: the state file is trusted without another look at the      *)
(* files ("the digest of the artifact each Skill on disk was unpacked      *)
(* from").  It holds of a publisher with NeverAgain: the state file keeps  *)
(* the digest of a directory whose removal was cut short.                  *)
IndexedMeansIntact ==
  \A n \in Listed(index) :
    state.covered[n] = Index[index][n] /\ OnDisk(n) => disk[n] = Index[index][n]

(* Once the publisher holds still, repeated Updates make every Scope       *)
(* current and keep it so.                                                 *)
AtRest == \A p \in Proc : pc[p] = "idle"

Converges == \A s \in Scope : calm ~> [](AtRest => Current(s))
=============================================================================
