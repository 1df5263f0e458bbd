---------------------------- MODULE CompileCache ----------------------------
(***************************************************************************)
(* CachedHeliosProgram.compileWithCache(), in processes that compile the   *)
(* same program: a file that holds the compiled program, and a lock (of    *)
(* the proper-lockfile package) that goes stale when its holder does not   *)
(* refresh it.  compile() is one long synchronous call, which lets no      *)
(* timer run: a lock is not refreshed while its holder compiles.           *)
(***************************************************************************)
EXTENDS Naturals

CONSTANTS
    Compilers,  \* processes, each with one call of compileWithCache()
    Stale,      \* age at which a lock may be taken over by one who waits
    Patience    \* ticks after which one who waits may give up

NoCompiler == "none"

ASSUME CompileAssumption ==
    /\ Stale \in Nat /\ Patience \in Nat
    /\ NoCompiler \notin Compilers

VARIABLES
    file,      \* the cache entry: absent, partial (empty or being written), or good
    flock,     \* the lock's holder and age
    compiler,  \* how far each call is
    waited,    \* how long each call has waited for the lock
    takenOver  \* history: a stale lock was taken from its holder

compileVars == <<file, flock, compiler, waited, takenOver>>

FreeLock == [holder |-> NoCompiler, age |-> 0]
CompilerStages ==
    {"idle", "reading", "looking", "creating", "locking", "awaiting", "checking", "compiling",
     "storing", "unlocking", "returned", "failed", "dead"}
Ended == {"returned", "failed", "dead"}

CompileTypeOK ==
    /\ file \in {"absent", "partial", "good"}
    /\ flock \in [holder : Compilers \cup {NoCompiler}, age : 0..Stale]
    /\ compiler \in [Compilers -> CompilerStages]
    /\ waited \in [Compilers -> 0..Patience]
    /\ takenOver \in BOOLEAN

CompileInit ==
    /\ file \in {"absent", "partial", "good"}
    /\ flock = FreeLock
    /\ compiler = [p \in Compilers |-> "idle"]
    /\ waited = [p \in Compilers |-> 0]
    /\ takenOver = FALSE

-----------------------------------------------------------------------------
At(p, stage) == compiler[p] = stage
To(p, stage) == compiler' = [compiler EXCEPT ![p] = stage]
TakesLock(p) == flock' = [holder |-> p, age |-> 0]

\* mutant: a process unlocks only what it has stored
ReleasesStored(p) == flock' = IF At(p, "unlocking") THEN FreeLock ELSE flock

\* Removes the lock, whosever it is by now.
Releases(p) == flock' = FreeLock

compileWithCache(p) ==
    /\ At(p, "idle")
    /\ To(p, "reading")
    /\ UNCHANGED <<file, flock, waited, takenOver>>

\* getFromCache(): an entry that does not parse is a miss.
getFromCache(p) ==
    /\ At(p, "reading")
    /\ To(p, IF file = "good" THEN "returned" ELSE "looking")
    /\ UNCHANGED <<file, flock, waited, takenOver>>

\* acquireImmediateLock(): the lock needs a file, and an empty one is written
\* some time after its absence was seen.
LooksForFile(p) ==
    /\ At(p, "looking")
    /\ To(p, IF file = "absent" THEN "creating" ELSE "locking")
    /\ UNCHANGED <<file, flock, waited, takenOver>>

CreatesFile(p) ==
    /\ At(p, "creating")
    /\ file' = "partial"
    /\ To(p, "locking")
    /\ UNCHANGED <<flock, waited, takenOver>>

\* mutant: a lock is not looked at
acquireAnyLock(p) ==
    /\ At(p, "locking")
    /\ TakesLock(p) /\ To(p, "compiling")
    /\ UNCHANGED <<file, waited, takenOver>>

\* Its own threshold is the timeout, longer than that of a call that waits: a
\* stale lock may be old enough, or not.
acquireImmediateLock(p) ==
    /\ At(p, "locking")
    /\ \/ /\ flock.holder = NoCompiler \/ flock.age = Stale
          /\ TakesLock(p) /\ To(p, "compiling")
          /\ takenOver' = (takenOver \/ flock.holder # NoCompiler)
       \/ /\ flock.holder # NoCompiler
          /\ To(p, "awaiting") /\ UNCHANGED <<flock, takenOver>>
    /\ UNCHANGED <<file, waited>>

\* mutant: a lock never goes stale
acquireFreeLock(p) ==
    /\ At(p, "awaiting")
    /\ flock.holder = NoCompiler
    /\ TakesLock(p) /\ To(p, "checking")
    /\ UNCHANGED <<file, waited, takenOver>>

acquireLock(p) ==
    /\ At(p, "awaiting")
    /\ flock.holder = NoCompiler \/ flock.age = Stale
    /\ TakesLock(p)
    /\ takenOver' = (takenOver \/ flock.holder # NoCompiler)
    /\ To(p, "checking")
    /\ UNCHANGED <<file, waited>>

\* The last retry fails: there is no lock in "locks", and compileWithCache()
\* throws.
GivesUp(p) ==
    /\ At(p, "awaiting") /\ waited[p] = Patience
    /\ flock.holder # NoCompiler /\ flock.age < Stale
    /\ To(p, "failed")
    /\ UNCHANGED <<file, flock, waited, takenOver>>

\* waitForCaching() with the lock
waitForCaching(p) ==
    /\ At(p, "checking")
    /\ \/ file = "good" /\ Releases(p) /\ To(p, "returned")
       \/ file # "good" /\ To(p, "compiling") /\ UNCHANGED flock
    /\ UNCHANGED <<file, waited, takenOver>>

compile(p) ==
    /\ At(p, "compiling")
    /\ To(p, "storing")
    /\ file' = "partial"
    /\ UNCHANGED <<flock, waited, takenOver>>

CompileError(p) ==
    /\ At(p, "compiling")
    /\ Releases(p) /\ To(p, "failed")
    /\ UNCHANGED <<file, waited, takenOver>>

\* storeInCache() is not awaited: the call may have returned before.
cacheStore(p) ==
    /\ At(p, "storing")
    /\ file' = "good"
    /\ To(p, "unlocking")
    /\ UNCHANGED <<flock, waited, takenOver>>

releaseLock(p) ==
    /\ At(p, "unlocking")
    /\ Releases(p) /\ To(p, "returned")
    /\ UNCHANGED <<file, waited, takenOver>>

\* A process ends, with the lock removed at its exit; or it is killed, or finds,
\* when its timers run again, that its lock was taken over, and throws: the lock
\* that is there stays.
Dies(p) ==
    /\ compiler[p] \notin Ended \cup {"idle"}
    /\ To(p, "dead")
    /\ UNCHANGED flock \/ (flock.holder = p /\ flock' = FreeLock)
    /\ UNCHANGED <<file, waited, takenOver>>

\* Time passes.  A holder that can run its timers refreshes its lock.
CompileTick ==
    /\ flock' = IF flock.holder = NoCompiler THEN flock
                ELSE IF compiler[flock.holder] \in {"compiling", "dead"} /\ flock.age < Stale
                     THEN [flock EXCEPT !.age = @ + 1]
                     ELSE flock
    /\ waited' = [p \in Compilers |->
                    IF At(p, "awaiting") /\ waited[p] < Patience THEN waited[p] + 1 ELSE waited[p]]
    /\ UNCHANGED <<file, compiler, takenOver>>

CompilerSteps(p) ==
    \/ getFromCache(p) \/ LooksForFile(p) \/ CreatesFile(p)
    \/ acquireImmediateLock(p) \/ acquireLock(p) \/ GivesUp(p)
    \/ waitForCaching(p) \/ compile(p) \/ CompileError(p) \/ cacheStore(p) \/ releaseLock(p)

CompileNext ==
    \/ CompileTick
    \/ \E p \in Compilers : compileWithCache(p) \/ CompilerSteps(p) \/ Dies(p)

CompileSpec == CompileInit /\ [][CompileNext]_compileVars

\* Time passes, a process that runs goes on, and one that waits keeps trying.
CompileFairness ==
    /\ WF_compileVars(CompileTick)
    /\ \A p \in Compilers : WF_compileVars(CompilerSteps(p))

-----------------------------------------------------------------------------
(* Properties *)

Busy == {p \in Compilers : compiler[p] \in {"checking", "compiling", "storing", "unlocking"}}

\* One process at a time compiles or stores, as long as no stale lock was taken
\* from a process.
OneCompiles == ~takenOver => \A p, q \in Busy : p = q

\* A lock's holder is at work or was killed: a call that ends, in any way,
\* leaves no lock behind.
NoLockLeft == flock.holder \in Busy \cup {p \in Compilers : At(p, "dead")} \cup {NoCompiler}

\* Every call ends: it returns, or it throws.  Nobody waits for ever for a
\* process that was killed.
EveryCompileEnds == <>[](\A p \in Compilers : compiler[p] \in Ended \cup {"idle"})

=============================================================================
