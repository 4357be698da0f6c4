----------------------------- MODULE HookStartup -----------------------------
(***************************************************************************)
(* The life of one hook: how the client finds a function of the game, hooks *)
(* it while the game starts, and switches the hook on and off as saves are *)
(* loaded and servers joined.  The phases of PatternOrchestrator::Run and  *)
(* then ResolveGameFunctions try ever weaker evidence; InstallRaw refuses  *)
(* what .pdata places inside a function, and installs a hook on a function *)
(* that begins with `mov rax, rsp` bypassed, to be switched on by name.    *)
(* Loads are handled on the game thread and the answer to a handshake on   *)
(* the network thread, each in steps; one reads the other's flag.          *)
(*                                                                         *)
(* The entries are independent of each other, so a behaviour follows one;  *)
(* what it needs of another one (ApplyDamage for the combat hooks) is a    *)
(* choice.  A place of the image is what the checks tell apart.            *)
(***************************************************************************)
EXTENDS Naturals

CONSTANT SessionBound   \* connects and loads of one run of the game

ASSUME SessionBoundIsNat == SessionBound \in Nat

\* What RegisterBuiltinPatterns and the pattern table say of an entry: it has
\* a pattern, the pattern begins with mov rax,rsp, it has an anchor string,
\* it is critical, its RTTI class and slot are known, and the older string
\* fallback lists it.
Row(pattern, mov, anchor, critical, vtable, older) ==
    [pattern |-> pattern, mov |-> mov, anchor |-> anchor, critical |-> critical,
     vtable |-> vtable, older |-> older]

Table ==
    [CharacterSpawn   |-> Row(TRUE,  TRUE,  TRUE,  TRUE,  FALSE, TRUE),
     CharacterDeath   |-> Row(TRUE,  TRUE,  TRUE,  FALSE, FALSE, TRUE),
     CharacterKO      |-> Row(TRUE,  FALSE, TRUE,  FALSE, FALSE, TRUE),
     SquadSpawnBypass |-> Row(TRUE,  FALSE, TRUE,  FALSE, FALSE, FALSE),
     ItemPickup       |-> Row(TRUE,  TRUE,  TRUE,  FALSE, FALSE, TRUE),
     ItemDrop         |-> Row(TRUE,  FALSE, TRUE,  FALSE, FALSE, TRUE),
     FactionRelation  |-> Row(TRUE,  TRUE,  TRUE,  FALSE, FALSE, TRUE),
     TimeUpdate       |-> Row(TRUE,  FALSE, TRUE,  TRUE,  FALSE, TRUE),
     AICreate         |-> Row(TRUE,  FALSE, TRUE,  TRUE,  FALSE, TRUE),
     AIPackages       |-> Row(TRUE,  FALSE, TRUE,  FALSE, FALSE, TRUE),
     SquadAddMember   |-> Row(FALSE, FALSE, FALSE, FALSE, TRUE,  FALSE)]

Functions == DOMAIN Table

\* A function entry, aligned or not; up to 16 bytes into a function; further
\* in, aligned or not.  Code that .pdata does not know: an entry, an aligned
\* place in its middle, an unaligned place.  "none" is no place.
Spots == {"start", "odd", "near", "block", "mid", "leaf", "leafmid", "leafodd"}

\* mov: the function there begins with mov rax,rsp.
Nowhere == [at |-> "none", mov |-> FALSE]
Places == [at : Spots, mov : BOOLEAN]
Walked == Places \cup {Nowhere}

Unaligned == {"odd", "near", "mid", "leafodd"}
Entry == {"start", "odd", "leaf"}

\* RtlLookupFunctionEntry finds a function that begins elsewhere.
Inside(p) == p.at \in {"near", "block", "mid"}

VARIABLES
    fn,         \* the entry this behaviour is about
    stage,      \* what start-up has done so far
    hit,        \* where the pattern matches, as long as it is searched for
    address,    \* the pointer in GameFunctions
    hook,       \* "absent", "off" (bypassed or disabled) or "on"
    raw,        \* the raw pointer may be called: "unknown", "valid", "disabled"
    called,     \* where a raw call went
    playing,    \* m_gameLoaded
    joined,     \* IsConnected
    loading,    \* what OnGameLoaded does next, on the game thread
    acking,     \* what HandleHandshakeAck does next, on the network thread
    crossed,    \* the last SetConnected(FALSE) came while an answer was handled
    moves       \* loads and connects so far

scanVars == <<fn, stage, hit, address>>
playVars == <<playing, joined, loading, acking, crossed, moves>>
hkVars == <<scanVars, hook, raw, called, playVars>>

HkInit ==
    /\ fn \in Functions
    /\ stage = "pattern"
    /\ hit = Nowhere /\ address = Nowhere /\ called = Nowhere
    /\ hook = "absent" /\ raw = "unknown"
    /\ playing = FALSE /\ joined = FALSE /\ crossed = FALSE
    /\ loading = "done" /\ acking = "done"
    /\ moves = 0

-----------------------------------------------------------------------------
(* PatternOrchestrator                                                     *)

\* ResolveEntry for a pattern, a string or a hard-coded offset.
Aligned(p) == IF p.at \in Unaligned THEN Nowhere ELSE p

\* The bytes a pattern matches at an entry are the entry's own.
PatternHits ==
    IF ~Table[fn].pattern THEN {Nowhere}
    ELSE {p \in Walked : p.at \in Entry => p.mov = Table[fn].mov}

Phase4 ==
    /\ stage = "pattern" /\ stage' = "strings"
    /\ hit' \in PatternHits
    /\ address' = Aligned(hit')
    /\ UNCHANGED <<fn, hook, raw, called, playVars>>

\* A string that leads anywhere ends the phase for the entry, even if the
\* place is then rejected; only after it come the virtual table slot and, for
\* an entry without a pattern, the hard-coded offset.
Phase5 ==
    /\ stage = "strings" /\ stage' = "labels"
    /\ \/ address # Nowhere /\ UNCHANGED address
       \/ /\ address = Nowhere
          /\ \E s \in IF Table[fn].anchor THEN Walked ELSE {Nowhere},
                v \in IF Table[fn].vtable THEN Walked ELSE {Nowhere},
                r \in IF Table[fn].pattern THEN {Nowhere} ELSE Walked :
               address' = IF s # Nowhere THEN Aligned(s)
                          ELSE IF v # Nowhere THEN v
                          ELSE IF r.at \in {"start", "odd"} THEN Aligned(r) ELSE Nowhere
    /\ UNCHANGED <<fn, hit, hook, raw, called, playVars>>

\* TryCallGraphTrace takes a labelled function of that name as it is.
Phase6 ==
    /\ stage = "labels" /\ stage' = "critical"
    /\ \/ UNCHANGED address
       \/ /\ address = Nowhere /\ Table[fn].anchor
          /\ address' \in {p \in Places : p.at \in {"start", "odd"}}
    /\ UNCHANGED <<fn, hit, hook, raw, called, playVars>>

\* Direct search and then a known offset whose bytes look like a prologue; a
\* direct search that is rejected again counts as done.
Phase8 ==
    /\ stage = "critical" /\ stage' = "legacy"
    /\ \/ UNCHANGED address
       \/ /\ address = Nowhere /\ Table[fn].critical
          /\ \E d, r \in Walked : address' = Aligned(IF d # Nowhere THEN d ELSE r)
    /\ UNCHANGED <<fn, hit, hook, raw, called, playVars>>

-----------------------------------------------------------------------------
(* ResolveGameFunctions                                                    *)

\* .pdata knows where the function begins: close by, take that; far, nothing.
\* What it does not know must be aligned.
Corrected(p) ==
    CASE p.at \in {"mid", "block", "leafodd"} -> Nowhere
      [] p.at = "near" -> [p EXCEPT !.at = "start"]
      [] OTHER -> p

Legacy ==
    /\ stage = "legacy" /\ stage' = "hooks"
    /\ IF address # Nowhere THEN UNCHANGED address
       ELSE LET pattern == Corrected(hit)
            IN  IF pattern # Nowhere \/ ~Table[fn].older THEN address' = pattern
                ELSE \E s \in Walked : address' = Corrected(s)
    /\ hit' = Nowhere
    /\ UNCHANGED <<fn, hook, raw, called, playVars>>

-----------------------------------------------------------------------------
(* Installation                                                            *)

\* Mutant of Hookable: the .pdata check is left to the scanners.
HookableAnywhere(p) == p # Nowhere

\* InstallRaw's .pdata check: it refuses what it knows to be inside a function.
Hookable(p) == p # Nowhere /\ ~Inside(p)

\* Mutant of Initially: every hook starts bypassed.
InitiallyOff(p) == "off"

\* InstallRaw leaves a mov rax,rsp hook bypassed and enables any other.
Initially(p) == IF p.mov THEN "off" ELSE "on"

\* InitHooks and the Install functions it calls, up to MH_EnableHook.  A group
\* may be skipped because its first function is missing, and MinHook may refuse.
InitHooks ==
    /\ stage = "hooks" /\ stage' = "arming"
    /\ \/ UNCHANGED hook
       \/ /\ fn # "SquadAddMember" /\ Hookable(address)
          /\ hook' = "on"
    /\ UNCHANGED <<fn, hit, address, raw, called, playVars>>

\* The bypass flag is set after the function is patched.
HooksInstalled ==
    /\ stage = "arming" /\ stage' = "ready"
    /\ hook' = IF hook = "absent" THEN hook ELSE Initially(address)
    /\ UNCHANGED <<fn, hit, address, raw, called, playVars>>

\* Enable and Disable find a hook by its name.
Switch(names, to) ==
    hook' = IF fn \in names /\ hook # "absent" THEN to ELSE hook

-----------------------------------------------------------------------------
(* The game                                                                *)

Combat == {"CharacterDeath", "CharacterKO"}

\* squad_hooks::Install asks .pdata again before the pointer is ever called.
Validated(p) ==
    IF p = Nowhere THEN raw ELSE IF Inside(p) THEN "disabled" ELSE "valid"

\* OnGameLoaded, once per load: m_gameLoaded.exchange(true) comes first.
OnGameLoaded ==
    /\ stage = "ready" /\ ~playing /\ loading = "done" /\ moves < SessionBound
    /\ playing' = TRUE /\ moves' = moves + 1 /\ loading' = "deferred"
    /\ UNCHANGED <<scanVars, hook, raw, called, joined, acking, crossed>>

\* Mutant of LoadSwitches: the deferred part of a connect is forgotten.
LoadSwitchesNothing == {}

LoadSwitches == IF joined THEN Combat \cup {"CharacterSpawn"} ELSE {}

\* Deferred network resume: m_connected is read, and then the hooks enabled.
\* Nothing that disables one can come in between: that is this thread's work.
DeferredResume ==
    /\ loading = "deferred" /\ loading' = "squads"
    /\ Switch(LoadSwitches, "on")
    /\ UNCHANGED <<scanVars, raw, called, playing, joined, acking, crossed, moves>>

InstallSquadHooks ==
    /\ loading = "squads" /\ loading' = "create"
    /\ raw' = IF fn = "SquadAddMember" THEN Validated(address) ELSE raw
    /\ UNCHANGED <<scanVars, hook, called, playing, joined, acking, crossed, moves>>

\* The creation hook is enabled with every load.
EnableCreate ==
    /\ loading = "create" /\ loading' = "done"
    /\ Switch({"CharacterSpawn"}, "on")
    /\ UNCHANGED <<scanVars, raw, called, playing, joined, acking, crossed, moves>>

\* ValidateVTableCandidate.
Virtual == {p \in Places : ~Inside(p)}

\* A tick finds addMember in the virtual table of a live squad.
DiscoverFromVTable ==
    /\ playing /\ loading = "done" /\ fn = "SquadAddMember" /\ address = Nowhere
    /\ address' \in Virtual
    /\ raw' = Validated(address')
    /\ UNCHANGED <<fn, stage, hit, hook, called, playVars>>

Callable == address # Nowhere /\ raw # "disabled"

\* AddCharacterToLocalSquad; a fault disables the pointer for good.
InjectIntoSquad ==
    /\ playing /\ joined /\ loading = "done" /\ fn = "SquadAddMember" /\ Callable
    /\ called' = address
    /\ raw' \in {raw, "disabled"}
    /\ UNCHANGED <<scanVars, hook, playVars>>

\* The handshake is answered: SetConnected(TRUE) begins with m_connected.
Join ==
    /\ stage = "ready" /\ ~joined /\ acking = "done" /\ moves < SessionBound
    /\ joined' = TRUE /\ moves' = moves + 1 /\ acking' = "combat"
    /\ UNCHANGED <<scanVars, hook, raw, called, playing, loading, crossed>>

\* With a loaded game SetConnected enables the combat hooks, connected still or not.
JoinEnablesCombat ==
    /\ acking = "combat" /\ acking' = "resume"
    /\ Switch(IF playing THEN Combat ELSE {}, "on")
    /\ UNCHANGED <<scanVars, raw, called, playing, joined, loading, crossed, moves>>

\* Back in HandleHandshakeAck m_gameLoaded is read again, for ResumeForNetwork.
JoinResumes ==
    /\ acking = "resume" /\ acking' = "done"
    /\ Switch(IF playing THEN {"CharacterSpawn"} ELSE {}, "on")
    /\ UNCHANGED <<scanVars, raw, called, playing, joined, loading, crossed, moves>>

\* Mutant of LeaveSwitches: the death hook is forgotten.
LeaveSwitchesKO == {"CharacterKO"}

LeaveSwitches == Combat

\* SetConnected(FALSE), on the game thread and after the connection was closed.
Leave ==
    /\ joined /\ loading = "done"
    /\ joined' = FALSE /\ crossed' = (acking # "done")
    /\ Switch(LeaveSwitches, "off")
    /\ UNCHANGED <<scanVars, raw, called, playing, loading, acking, moves>>

\* A save is loaded over the running game, online or not: OnLoadingGapDetected.
LoadAnother ==
    /\ playing /\ loading = "done" /\ playing' = FALSE
    /\ UNCHANGED <<scanVars, hook, raw, called, joined, loading, acking, crossed, moves>>

HkNext ==
    \/ Phase4 \/ Phase5 \/ Phase6 \/ Phase8 \/ Legacy \/ InitHooks \/ HooksInstalled
    \/ OnGameLoaded \/ DeferredResume \/ InstallSquadHooks \/ EnableCreate
    \/ DiscoverFromVTable \/ InjectIntoSquad
    \/ Join \/ JoinEnablesCombat \/ JoinResumes \/ Leave \/ LoadAnother

HkSpec == HkInit /\ [][HkNext]_hkVars

-----------------------------------------------------------------------------

\* Types; a bypassed hook is a hook on a function that begins with
\* mov rax,rsp or one that was switched off by name.
HkTypeOK ==
    /\ fn \in Functions
    /\ stage \in {"pattern", "strings", "labels", "critical", "legacy", "hooks", "arming", "ready"}
    /\ {hit, address, called} \subseteq Walked
    /\ hook \in {"absent", "off", "on"}
    /\ hook = "off" => address.mov \/ fn \in Combat
    /\ raw \in {"unknown", "valid", "disabled"}
    /\ {playing, joined, crossed} \subseteq BOOLEAN
    /\ loading \in {"done", "deferred", "squads", "create"}
    /\ acking \in {"done", "combat", "resume"}
    /\ moves \in 0 .. SessionBound

\* Whatever the scans took for the function, what is patched or called is
\* never a place that .pdata knows to be inside a function.  Code that .pdata
\* does not know is accepted anywhere, its middle too (hook_manager.cpp:178,
\* squad_hooks.cpp:186).
OnlyEntries == (hook # "absent" => ~Inside(address)) /\ ~Inside(called)

\* In whichever order save and server come, and however the two handlers
\* interleave, each with the other's flag already set or not: when both are
\* done, the hooks that are switched by name and were installed are on during
\* play (core.h:107, core.cpp:1435, packet_handler.cpp:384).
SwitchedOn ==
    /\ playing /\ joined /\ loading = "done" /\ acking = "done"
    /\ fn \in Combat \cup {"CharacterSpawn"}
    => hook # "off"

\* From the moment it is installed no hook on a mov rax,rsp function runs before
\* the first save is loaded or server joined, and the death hook not without a server, unless the player
\* left while the answer to the handshake was still being handled: then the
\* network thread enables what the game thread has just disabled (core.h:111,
\* :132).
SwitchedOff ==
    /\ address.mov
    /\ (stage = "ready" /\ moves = 0) \/ (fn = "CharacterDeath" /\ ~joined /\ ~crossed /\ moves > 0)
    => hook # "on"

\* A hook sits on a function and is on when play needs it and off when it must be.
HooksRight == OnlyEntries /\ SwitchedOn /\ SwitchedOff
=============================================================================
