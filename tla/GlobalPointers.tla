--------------------------- MODULE GlobalPointers ---------------------------
(***************************************************************************)
(* How the client finds the game's PlayerBase global and keeps it true.    *)
(* The pattern orchestrator resolves it once at start-up, the older        *)
(* scanner fills it in if the orchestrator did not, Core::InitScanner      *)
(* throws away what looks wrong, and once a save loads PollForGameLoad,    *)
(* OnGameTick and OnGameLoaded look again.  The address is copied (the     *)
(* bridge) to the module whose CharacterIterator reads it.                 *)
(*                                                                         *)
(* GameWorldSingleton goes through the same code with other anchors; here  *)
(* it only counts as a reason to look again.  An address is abstracted to  *)
(* the global it names, or "code" for the start of the function that       *)
(* mentions the anchor string; memory is abstracted to what the many       *)
(* validity checks of the code tell apart.                                 *)
(***************************************************************************)
EXTENDS Naturals, Sequences, FiniteSets

CONSTANTS Slots,        \* globals of the game image the scans may meet
          Player,       \* the one that really is PlayerBase
          None,         \* no address
          LoadBound     \* saves loaded in one session

ASSUME PlayerIsASlot == Player \in Slots
ASSUME NoneIsNoSlot == None \notin Slots \cup {"code"}
ASSUME ImageIsFinite == IsFiniteSet(Slots) /\ LoadBound \in Nat

VARIABLES
    candidates,   \* what a retry comes upon in this build, in its order
    mem,          \* what each address holds
    started,      \* Core::InitScanner has run
    resolved,     \* PatternEntry::resolvedAddress of PlayerBase
    playerBase,   \* GameFunctions::PlayerBase
    bridge,       \* s_resolvedPlayerBase
    gameLoaded,   \* m_gameLoaded
    list,         \* what the memory CharacterIterator last walked is
    loads         \* saves loaded so far

gpVars == <<candidates, mem, started, resolved, playerBase, bridge, gameLoaded, list, loads>>

-----------------------------------------------------------------------------
(* Memory as the checks see it: zero; a heap object whose first word is a  *)
(* vtable of the image; heap memory whose first word is a heap pointer; an *)
(* address inside the image; heap memory nobody can read any more; no user *)
(* address at all.                                                         *)

Values == {"null", "object", "array", "inside", "stray", "junk"}

Addresses == Slots \cup {"code"}

\* Memory::Read at a global that may be unresolved.
At(m, a) == IF a = None THEN "unread" ELSE m[a]

\* The first candidate of a scan, in code order, that a check accepts.
FirstOf(cs, m, ok) ==
    LET good == {i \in DOMAIN cs : m[cs[i]] \in ok}
    IN  IF good = {} THEN None ELSE cs[CHOOSE i \in good : \A j \in good : i <= j]

\* isValidGlobalPtr / SEH_ScanCodeForGlobalPtr / tentativeGlobalValidation.
NullOrObject == {"null", "object"}

\* TryHardcodedOffset for a global: readable twice, module pointers not excluded.
Plausible == {"null", "object", "array", "inside"}

\* validateSingleton of InitScanner.
Singleton == {"null", "object", "array"}

\* validatePlayerBase and RetryGlobalDiscovery's validateGlobal.
Strict == {"object"}

\* validateGlobal of PollForGameLoad and OnGameLoaded: no second read.
Weak == {"object", "array", "stray"}

-----------------------------------------------------------------------------
(* What a build of the game lets start-up find.                            *)

Orders(S) == {s \in [1 .. Cardinality(S) -> S] :
                        \A i, j \in DOMAIN s : i # j => s[i] # s[j]}

Candidates == UNION {Orders(S) : S \in SUBSET Slots}

\* The anchor string is there, a function is labelled, a brute-force search
\* finds one, the bytes at the RVA look like code; the RVA itself (right on
\* GOG, something else on Steam); the globals near the anchors, and those
\* the older scanner meets, which looks into functions as well.
Binaries == [anchored : BOOLEAN, labelled : BOOLEAN, direct : BOOLEAN, opcodes : BOOLEAN,
             rva : Slots, near : Candidates, wide : Candidates]

-----------------------------------------------------------------------------
(* The phases of PatternOrchestrator::Run that can touch a global.         *)

\* A string anchor that the analyser maps to functions yields a function
\* address, and a global is exempt from the alignment check.
GlobalPhase5(b, m) ==
    IF b.anchored THEN "code" ELSE IF m[b.rva] \in Plausible THEN b.rva ELSE None

GlobalPhase6(b, e) == IF e = None /\ b.labelled THEN "code" ELSE e

Phase7(b, e, m) ==
    IF e = None /\ b.anchored THEN FirstOf(b.near, m, NullOrObject) ELSE e

\* Both globals are critical: brute-force string search, then an RVA whose
\* bytes look like a prologue.
GlobalPhase8(b, e, m) ==
    IF e # None THEN e
    ELSE IF b.direct THEN "code"
    ELSE IF b.opcodes /\ m[b.rva] = "junk" THEN b.rva
    ELSE None

Run(b, m) == GlobalPhase8(b, Phase7(b, GlobalPhase6(b, GlobalPhase5(b, m)), m), m)

\* ResolveGameFunctions, which leaves a resolved global alone.
ResolveGameFunctions(b, p, m) ==
    IF p # None THEN p
    ELSE LET strict == FirstOf(b.wide, m, Strict)
         IN  IF strict # None THEN strict
             ELSE IF m[b.rva] \in Strict THEN b.rva
             ELSE FirstOf(b.wide, m, NullOrObject)

\* Mutant of ValidateSingleton: keep whatever the scans resolved.
KeepSingleton(p, m) == p

ValidateSingleton(p, m) == IF At(m, p) \in Singleton THEN p ELSE None

\* Mutant of RetryGlobalDiscovery: a resolved address is not looked at again.
RetryIfUnresolved(p, m) == IF p # None THEN p ELSE FirstOf(candidates, m, Strict)

RetryGlobalDiscovery(p, m) ==
    IF At(m, p) \in Strict THEN p ELSE FirstOf(candidates, m, Strict)

\* Mutant of Walkable: the first entry of the list is not checked.
WalkableUnread(v) == v \in Weak

Walkable(v) == v = "array"

-----------------------------------------------------------------------------
\* At the main menu PlayerBase is still zero; code bytes are no pointer.
MenuMemory == {m \in [Addresses -> Values] :
                  /\ m[Player] = "null"
                  /\ m["code"] = "junk"}

GpInit ==
    /\ candidates \in Candidates
    /\ mem \in MenuMemory
    /\ started = FALSE
    /\ resolved = None /\ playerBase = None /\ bridge = None /\ list = None
    /\ gameLoaded = FALSE
    /\ loads = 0

\* The game loads a save: PlayerBase is set, other globals may change.
GameLoads ==
    /\ started /\ loads < LoadBound
    /\ \E m \in [Addresses -> Values] :
         /\ m[Player] \in {"object", "array"} /\ m["code"] = "junk"
         /\ mem' = m
    /\ loads' = loads + 1
    /\ gameLoaded' = FALSE
    /\ UNCHANGED <<candidates, started, resolved, playerBase, bridge, list>>

InitScanner ==
    /\ ~started
    /\ started' = TRUE
    /\ \E b \in Binaries :
          /\ resolved' = Run(b, mem)
          /\ playerBase' = ValidateSingleton(ResolveGameFunctions(b, resolved', mem), mem)
    /\ bridge' = playerBase'
    /\ UNCHANGED <<candidates, mem, gameLoaded, list, loads>>

\* Mutant of Bridged: the copy that the iterator reads is made only once.
BridgedOnce(p, b) == IF b = None THEN p ELSE b

\* SetResolvedPlayerBase for an address that was found; b is the copy so far.
Bridged(p, b) == IF p = None THEN b ELSE p

\* OnGameLoaded, once it runs: it looks again if either global looks wrong to
\* it, throws away what is still wrong, and makes the copy only if it looked.
\* worldIsFine: GameWorldSingleton looks right.
Reloaded(p, worldIsFine) ==
    IF At(mem, p) \in Weak /\ worldIsFine THEN p
    ELSE LET again == RetryGlobalDiscovery(p, mem)
         IN  IF At(mem, again) \in Weak THEN again ELSE None

Copied(p, worldIsFine, b) ==
    IF At(mem, p) \in Weak /\ worldIsFine THEN b
    ELSE Bridged(Reloaded(p, worldIsFine), b)

\* A poll looks again, and may find that the load is over.
PollForGameLoad ==
    /\ started /\ ~gameLoaded
    /\ LET found == RetryGlobalDiscovery(playerBase, mem)
           seen  == IF At(mem, found) \in Weak THEN Bridged(found, bridge) ELSE bridge
       IN  \/ /\ playerBase' = found /\ bridge' = seen /\ UNCHANGED gameLoaded
           \/ /\ loads > 0
              /\ gameLoaded' = TRUE
              /\ \E fine \in BOOLEAN : /\ playerBase' = Reloaded(found, fine)
                                      /\ bridge' = Copied(found, fine, seen)
    /\ UNCHANGED <<candidates, mem, started, resolved, list, loads>>

\* The tick's own test: any user address counts as a loaded game.
TickNoticesLoad ==
    /\ started /\ ~gameLoaded /\ loads > 0
    /\ At(mem, playerBase) \in Weak \cup {"inside"}
    /\ gameLoaded' = TRUE
    /\ \E fine \in BOOLEAN : /\ playerBase' = Reloaded(playerBase, fine)
                            /\ bridge' = Copied(playerBase, fine, bridge)
    /\ UNCHANGED <<candidates, mem, started, resolved, list, loads>>

\* CharacterIterator::Reset through PlayerBase: what it points to must be on
\* the heap, and so must what the first word there points to.
IteratorReset ==
    /\ started
    /\ list' = IF Walkable(At(mem, bridge)) THEN At(mem, bridge) ELSE None
    /\ UNCHANGED <<candidates, mem, started, resolved, playerBase, bridge, gameLoaded, loads>>

GpNext ==
    \/ GameLoads \/ InitScanner \/ PollForGameLoad \/ TickNoticesLoad \/ IteratorReset

GpSpec == GpInit /\ [][GpNext]_gpVars

-----------------------------------------------------------------------------
GpTypeOK ==
    /\ candidates \in Candidates
    /\ mem \in [Addresses -> Values]
    /\ started \in BOOLEAN /\ gameLoaded \in BOOLEAN
    /\ {resolved, playerBase, bridge} \subseteq Addresses \cup {None}
    /\ list \in {None, "array"}     \* nothing but a list is ever walked
    /\ loads \in 0 .. LoadBound

\* The orchestrator resolves an anchored global to the function that mentions
\* the anchor; start-up's validation is the only thing that keeps that code
\* address from being read as PlayerBase, now or after any retry.
NeverCode == started => "code" \notin {playerBase, bridge}

\* The copy CharacterIterator reads is the address Core believes in, whichever
\* of the four places last changed it.
BridgeAgrees == started /\ playerBase # None => bridge = playerBase

\* Once the load is noticed, by a poll or by the tick, a build in which the
\* scans can see a live object has PlayerBase at something alive: neither the
\* zero accepted tentatively at the menu nor a module pointer survives.
Recovered ==
    gameLoaded /\ FirstOf(candidates, mem, Strict) # None => At(mem, playerBase) \in Weak

\* PlayerBase and its copy are never code, never differ, and are alive once the
\* load is noticed.
GlobalsRight == NeverCode /\ BridgeAgrees /\ Recovered
=============================================================================
