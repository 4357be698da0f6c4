-------------------------- MODULE CharacterCreation --------------------------
(***************************************************************************)
(* The hook on the game's character factory and the search for the         *)
(* player's own faction: Hook_CharacterCreate in its modes, the vote while *)
(* nobody is connected, ResumeForNetwork, RevalidateFaction, Player-       *)
(* Controller's part, and SendExistingEntitiesToServer with its retries.   *)
(*                                                                         *)
(* The game thread creates characters; the handshake is answered on the    *)
(* network thread, also while the factory runs.  A hook call is two steps, *)
(* before and after the factory; every other block is one.  The lobby has  *)
(* assigned no faction, so that no mod character is claimed (RemoteSpawns  *)
(* models the claims), and SEH_HijackNPC does not fault after its link.    *)
(***************************************************************************)
EXTENDS Integers, FiniteSets, Sequences

CONSTANTS Chars,       \* characters of one world
          Namesakes,   \* those that bear the configured player name
          OwnFac, NpcFac, \* factions of a world; OwnFac carries the isPlayerFaction flag
          NoFac,       \* the null pointer
          Stale,       \* a pointer into a world that is gone
          ScanWindow,  \* FACTION_SCAN_WINDOW
          SafetyLimit, \* FACTION_SCAN_WINDOW * 2 + 2 in the code
          MaxCand,     \* FACTION_MAX_CANDIDATES
          NameBonus,   \* FACTION_NAME_MATCH_BONUS
          ScanRetries, \* MAX_ENTITY_SCAN_RETRIES
          Episodes,    \* how many loads and connections there are
          CreateBound  \* and how many calls of the factory

ASSUME CreationAssumption ==
    /\ Namesakes \subseteq Chars
    /\ {ScanWindow, MaxCand, ScanRetries} \subseteq Nat \ {0}
    /\ {NameBonus, SafetyLimit, Episodes, CreateBound} \subseteq Nat
    /\ OwnFac # NpcFac /\ NoFac # Stale /\ {OwnFac, NpcFac} \cap {NoFac, Stale} = {}

Factions == {OwnFac, NpcFac}

VARIABLES passes,      \* s_loadingPassthrough
          capsDone,    \* s_loadingCapturesDone
          captured,    \* s_havePreCallData and s_savedFactory
          scan,        \* s_factionCandidates, s_factionScanCount, s_factionVotingDone
          early, fallback, \* s_earlyPlayerFaction and, when not null, s_earlyFactionLocked; s_fallbackFaction
          local,       \* PlayerController::m_localFactionPtr
          creates,     \* s_totalCreates
          smFactory,   \* SpawnManager::m_factory is set
          stage,       \* menu, loading, or ready: m_gameLoaded
          gameReady,   \* m_clientPhase is GameReady: a load noticed now is accepted
          online,      \* m_connected
          acking,      \* the handshake handler is between SetConnected and its end
          call,        \* the mode of the hook call that waits for the factory
          fac,         \* the faction of each character that exists
          role,        \* whose entity a character is in the registry
          told,        \* how often each was announced in this connection (not in the code)
          squadDone, retries, resetDue,  \* m_initialEntityScanDone, s_entityScanRetries, m_needSpawnQueueReset
          episode,     \* loads and connections so far
          late         \* a vote was past its limit since the captures were last reset (not in the code)

hookState == <<passes, capsDone, captured, scan, late>>
pointers  == <<early, fallback, local>>
objects   == <<fac, role, told>>
scanner   == <<squadDone, retries, resetDue>>
ccVars == <<hookState, pointers, creates, smFactory, stage, gameReady, online, acking, call,
            objects, scanner, episode>>

NoScan == [cands |-> << >>, count |-> 0, done |-> FALSE]

\* Nobody reads the candidates of a vote that is over.
VoteOver == [NoScan EXCEPT !.done = TRUE]

\* The hook is installed in passthrough.
CcInit ==
    /\ passes = TRUE /\ capsDone = FALSE /\ captured = FALSE /\ scan = NoScan
    /\ early = NoFac /\ fallback = NoFac /\ local = NoFac
    /\ creates = 0 /\ smFactory = FALSE /\ stage = "menu" /\ gameReady = FALSE
    /\ online = FALSE /\ acking = FALSE /\ call = "none"
    /\ fac = << >> /\ role = << >> /\ told = [ch \in Chars |-> 0]
    /\ squadDone = FALSE /\ retries = 0 /\ resetDue = FALSE
    /\ episode = 0 /\ late = FALSE

Exists == DOMAIN fac
OwnChars == {ch \in DOMAIN role : role[ch] = "own"}
Put(f, ch, v) == [u \in DOMAIN f \cup {ch} |-> IF u = ch THEN v ELSE f[u]]

(***************************************************************************)
(* The vote.                                                               *)
(***************************************************************************)

Flagged(f) == f = OwnFac

RecordFactionVote(cands, f, named) ==
    LET points == 1 + (IF named THEN NameBonus ELSE 0)
        at == {i \in DOMAIN cands : cands[i].fac = f}
    IN IF at # {}
         THEN [i \in DOMAIN cands |->
                 IF i \in at THEN [cands[i] EXCEPT !.score = @ + points, !.named = @ \/ named]
                             ELSE cands[i]]
       ELSE IF Len(cands) < MaxCand
         THEN Append(cands, [fac |-> f, score |-> points, named |-> named])
       ELSE cands

\* Two extra votes for a flagged faction, then the character's own.
Votes(cands, f, named) ==
    IF f = NoFac THEN cands
    ELSE LET once  == IF Flagged(f) THEN RecordFactionVote(cands, f, FALSE) ELSE cands
             twice == IF Flagged(f) THEN RecordFactionVote(once, f, FALSE) ELSE once
         IN RecordFactionVote(twice, f, named)

\* The first of the candidates with the highest score.
ElectBestFaction(cands) ==
    LET best == {i \in DOMAIN cands : \A j \in DOMAIN cands : cands[j].score <= cands[i].score}
    IN IF best = {} THEN NoFac
       ELSE cands[CHOOSE i \in best : \A j \in best : i <= j].fac

WindowOver(s) == s.count >= ScanWindow \/ \E i \in DOMAIN s.cands : s.cands[i].named

(* Mutant of SafetyTimeout: only a full window ends the vote. *)
SafetyTimeoutNever == FALSE

SafetyTimeout == creates > SafetyLimit

(***************************************************************************)
(* Hook_CharacterCreate up to the call of the factory.                     *)
(***************************************************************************)

\* The work that is left for the time after the factory call; a burst is
\* the sixth create within 100 ms.
HookMode(burst) ==
    IF passes THEN "passthrough"
    ELSE IF ~online THEN (IF capsDone THEN "nothing" ELSE "voting")
    ELSE IF burst THEN "burst" ELSE "full"

Born(ch, f) == fac' = Put(fac, ch, f)
NoneBorn == UNCHANGED fac

\* Passthrough reads a name at most, and once the captures are done the hook does
\* nothing at all: such a call is over at once.
PlainCreate ==
    /\ UNCHANGED call
    /\ NoneBorn \/ \E ch \in Chars \ Exists, f \in Factions : Born(ch, f)

\* Every mode saves the factory, most capture the request struct.
CreateBegins(burst) ==
    /\ stage # "menu" /\ call = "none"
    /\ creates < CreateBound /\ creates' = creates + 1
    /\ LET mode == HookMode(burst) IN
         /\ captured' = (captured \/ mode \in {"passthrough", "voting", "full"})
         /\ smFactory' = (smFactory \/ mode = "voting" \/ (mode = "passthrough" /\ ~captured))
         /\ IF mode \in {"passthrough", "nothing"} THEN PlainCreate ELSE call' = mode /\ UNCHANGED fac
    /\ UNCHANGED <<passes, capsDone, scan, late, pointers, stage, gameReady, online, acking,
                   role, told, scanner, episode>>

(***************************************************************************)
(* And after it.  The factory made character ch of faction f, or nothing.  *)
(***************************************************************************)

Elected(s) == IF ElectBestFaction(s.cands) # NoFac THEN ElectBestFaction(s.cands) ELSE early

(* Mutant of BackToPassthrough: the captures are not asked for again. *)
BackToPassthroughAnyway(done) == done

\* A resume during the call has taken the captures away, so that its full mode stays.
BackToPassthrough(done) == captured /\ done

VotingEnds(ch, f, made) ==
    /\ call = "voting" /\ call' = "none"
    /\ IF made THEN Born(ch, f) ELSE NoneBorn
    /\ LET counts == made /\ ~scan.done
           s == IF counts THEN [scan EXCEPT !.count = @ + 1, !.cands = Votes(@, f, ch \in Namesakes)]
                          ELSE scan
           closes == ~s.done /\ ((counts /\ WindowOver(s)) \/ SafetyTimeout)
           over == s.done \/ closes
       IN /\ fallback' = IF counts /\ f # NoFac THEN f ELSE fallback
          /\ scan' = IF over THEN VoteOver ELSE s
          /\ early' = IF closes THEN Elected(s) ELSE early
          /\ capsDone' = (capsDone \/ BackToPassthrough(over))
          /\ passes' = (passes \/ BackToPassthrough(over))
    /\ late' = (late \/ (captured /\ creates > SafetyLimit))
    /\ UNCHANGED <<captured, local, creates, smFactory, stage, gameReady, online, acking,
                   role, told, scanner, episode>>

\* A burst only remembers the faction, if none is locked.
BurstEnds(ch, f, made) ==
    /\ call = "burst" /\ call' = "none"
    /\ IF made THEN Born(ch, f) ELSE NoneBorn
    /\ fallback' = IF made /\ early = NoFac /\ f # NoFac THEN f ELSE fallback
    /\ UNCHANGED <<hookState, early, local, creates, smFactory, stage, gameReady, online, acking,
                   role, told, scanner, episode>>

\* SEH_ReadAndRegisterEntity's order of trust; the character's own faction has
\* just become the fallback.
TrustedFaction == IF local # NoFac THEN local ELSE IF early # NoFac THEN early ELSE fallback'

(* Mutant of LocalLearns: the faction found is used and forgotten. *)
LocalLearnsNothing(found) == UNCHANGED local

LocalLearns(found) == local' = IF local = NoFac THEN found ELSE local

\* On top of registry r.  An object that is linked already keeps that entity, too.
Announce(r, cs) ==
    /\ role' = [ch \in DOMAIN r \cup cs |-> IF ch \in DOMAIN r THEN r[ch] ELSE "own"]
    /\ told' = [ch \in Chars |-> IF ch \in cs THEN told[ch] + 1 ELSE told[ch]]

\* A character at the origin is not placed yet and is left alone.
PostProcess(r, ch, f, placed) ==
    /\ fallback' = IF f # NoFac THEN f ELSE fallback
    /\ UNCHANGED early
    /\ IF placed
         THEN /\ LocalLearns(TrustedFaction)
              /\ Announce(r, IF TrustedFaction # NoFac /\ f = TrustedFaction THEN {ch} ELSE {})
         ELSE role' = r /\ UNCHANGED <<local, told>>

(* Mutant of Unhijacked: a hijacked character is processed like any other. *)
UnhijackedAlways(hijacked) == TRUE

Unhijacked(hijacked) == ~hijacked

\* The connected mode.  A spawn request, if one waits, takes the new character
\* over, which may fail; detection of the position offset may read the faction before that.
FullEnds(ch, f, made, hijacked, placed) ==
    /\ call = "full" /\ call' = "none"
    /\ hijacked => made /\ stage = "ready"
    /\ IF made THEN Born(ch, f) ELSE NoneBorn
    /\ smFactory' = (smFactory \/ (made /\ Unhijacked(hijacked)))
    /\ LET linked == IF hijacked THEN Put(role, ch, "remote") ELSE role
       IN IF made /\ Unhijacked(hijacked) /\ stage = "ready" THEN PostProcess(linked, ch, f, placed)
          ELSE /\ fallback' \in {fallback} \cup (IF made /\ f # NoFac THEN {f} ELSE {})
               /\ role' = linked
               /\ UNCHANGED <<early, local, told>>
    /\ UNCHANGED <<hookState, creates, stage, gameReady, online, acking, scanner, episode>>

CreateEnds ==
    \E ch \in Chars \ Exists, f \in Factions, made, hijacked, placed \in BOOLEAN :
        VotingEnds(ch, f, made) \/ BurstEnds(ch, f, made) \/ FullEnds(ch, f, made, hijacked, placed)

\* The factory returns null when the world is full, too.
CreateFails ==
    \E ch \in Chars : \/ VotingEnds(ch, NoFac, FALSE) \/ BurstEnds(ch, NoFac, FALSE)
                     \/ FullEnds(ch, NoFac, FALSE, FALSE, FALSE)

\* SpawnCharacterDirect, or createRandomChar: the hook sees its bypass flag and
\* does nothing, whatever the faction of the character.
DirectCreate(ch, f) ==
    /\ call = "none" /\ stage = "ready" /\ online /\ smFactory
    /\ ch \notin Exists /\ Born(ch, f)
    /\ role' = Put(role, ch, "remote")
    /\ UNCHANGED <<hookState, pointers, creates, smFactory, stage, gameReady, online, acking,
                   call, told, scanner, episode>>

(***************************************************************************)
(* Connecting.  The handler sets m_connected, then learns the faction of   *)
(* entities that are still registered, then resumes the hook if the game   *)
(* is loaded; the end of a load resumes it if the client is connected.     *)
(***************************************************************************)

(* Mutant of CapturesReset: the request struct of the old session is kept. *)
CapturesResetNot == UNCHANGED captured

CapturesReset == captured' = FALSE

\* The hook's part of ResumeForNetwork.
FullHook ==
    /\ capsDone' = FALSE /\ CapturesReset /\ passes' = FALSE
    /\ scan' = NoScan /\ late' = FALSE

\* ResumeForNetwork, on top of the controller's faction l: an early faction is
\* handed on as it is, valid or not, and forgotten.
ResumeForNetwork(l) ==
    /\ FullHook
    /\ local' = IF l = NoFac THEN early ELSE l
    /\ early' = NoFac
    /\ UNCHANGED fallback

HandshakeAck(sameId) ==
    /\ ~online /\ ~acking /\ episode < Episodes
    /\ episode' = episode + 1
    /\ online' = TRUE /\ acking' = TRUE /\ gameReady' = FALSE
    /\ role' = [ch \in DOMAIN role |-> IF role[ch] = "own" /\ ~sameId THEN "former" ELSE role[ch]]
    /\ told' = [ch \in Chars |-> 0]
    /\ UNCHANGED <<hookState, pointers, creates, smFactory, stage, call, fac, scanner>>

\* InitializeLocalPlayer: the faction of some own entity, if none is known.
Initialised ==
    IF local = NoFac /\ \E ch \in OwnChars : fac[ch] # NoFac
      THEN {fac[ch] : ch \in OwnChars} \ {NoFac} ELSE {local}

AckEnds ==
    /\ acking /\ acking' = FALSE
    /\ \E l \in Initialised :
         IF stage = "ready" THEN ResumeForNetwork(l)
         ELSE local' = l /\ UNCHANGED <<hookState, early, fallback>>
    /\ UNCHANGED <<creates, smFactory, stage, gameReady, online, call, objects, scanner, episode>>

\* SetConnected(false), in the frame or in a command, on the thread of the hook.
SetDisconnected ==
    /\ online /\ call = "none" /\ online' = FALSE
    /\ gameReady' = (gameReady \/ stage = "ready")
    /\ passes' = TRUE
    /\ role' = [ch \in {d \in DOMAIN role : role[d] # "remote"} |-> role[ch]]
    /\ local' = NoFac
    /\ squadDone' = FALSE /\ resetDue' = TRUE
    /\ UNCHANGED <<capsDone, captured, scan, late, early, fallback, creates, smFactory,
                   stage, acking, call, fac, told, retries, episode>>

(***************************************************************************)
(* Loading a save.  The world's objects are freed; what points at them     *)
(* stays where nobody clears it.                                           *)
(***************************************************************************)

Aged(f) == IF f \in Factions THEN Stale ELSE f

\* The game frees the old world, and the gap between two frames is noticed.  Whoever
\* connects while a world is up leaves the phase in which that is taken for a load;
\* whoever was connected before the load had ended is in it, and loads online.
LoadBegins ==
    /\ stage # "loading" /\ call = "none" /\ episode < Episodes
    /\ stage = "menu" \/ gameReady
    /\ episode' = episode + 1
    /\ stage' = "loading" /\ gameReady' = FALSE /\ passes' = TRUE /\ squadDone' = FALSE
    /\ fac' = << >> /\ role' = << >> /\ told' = [ch \in Chars |-> 0]
    /\ early' = Aged(early) /\ fallback' = Aged(fallback) /\ local' = NoFac
    /\ LET aged == [i \in DOMAIN scan.cands |-> [scan.cands[i] EXCEPT !.fac = Aged(@)]]
       IN scan' = [scan EXCEPT !.cands = aged]
    /\ UNCHANGED <<capsDone, captured, late, creates, smFactory, online, acking,
                   call, retries, resetDue>>

\* PlayerController::OnGameWorldLoaded votes over the characters it can iterate.
WorldScore(f, seen) ==
    LET of == {ch \in seen : fac[ch] = f}
    IN Cardinality(of) + 10 * Cardinality(of \cap Namesakes) + (IF Flagged(f) THEN 3 * Cardinality(of) ELSE 0)

WorldWinners(seen) ==
    LET up == {f \in Factions : WorldScore(f, seen) > 0}
    IN IF up = {} THEN {NoFac}
       ELSE {f \in up : \A g \in up : WorldScore(g, seen) <= WorldScore(f, seen)}

\* OnGameLoaded sets m_gameLoaded ...
LoadEnds ==
    /\ stage = "loading" /\ call = "none"
    /\ stage' = "ready" /\ gameReady' = TRUE /\ call' = "loaded"
    /\ UNCHANGED <<hookState, pointers, creates, smFactory, online, acking, objects, scanner, episode>>

\* ... and then resumes the hook if the client is connected, votes, and in any
\* case switches the hook to its full body.
LoadEnded(seen, won) ==
    /\ call = "loaded" /\ call' = "none"
    /\ won \in WorldWinners(seen)
    /\ IF online
         THEN LET l == IF local # NoFac THEN local ELSE IF early # NoFac THEN early ELSE won
              IN ResumeForNetwork(l)
         ELSE /\ passes' = FALSE
              /\ local' = IF local = NoFac THEN won ELSE local
              /\ UNCHANGED <<capsDone, captured, scan, late, early, fallback>>
    /\ UNCHANGED <<creates, smFactory, stage, gameReady, online, acking, objects, scanner, episode>>

(***************************************************************************)
(* The scan for the squad that exists already.                             *)
(***************************************************************************)

\* SEH_IsFactionValid of a freed faction reads whatever is there now.
Judgements == {S \in SUBSET {OwnFac, NpcFac, Stale} : Factions \subseteq S}

\* RevalidateFaction, with early faction e and controller's faction l: what it
\* makes of early, fallback and local.
RevalidatedTo(e, l, seen, valid) ==
    LET found == {f \in Factions : \E ch \in seen : fac[ch] = f}
        sure  == {f \in found : Flagged(f) \/ \E ch \in seen \cap Namesakes : fac[ch] = f}
    IN IF e \in valid \/ l \in valid THEN {<<e, fallback, l>>}
       ELSE IF fallback \in valid THEN {<<fallback, fallback, fallback>>}
       ELSE IF found = {} THEN {<<NoFac, NoFac, l>>}
       ELSE {<<f, f, f>> : f \in (IF sure # {} THEN sure ELSE found)}

(* Mutant of Unknown: characters that are registered are sent again. *)
UnknownAny(seen) == seen

Unknown(seen) == seen \ DOMAIN role

\* SendExistingEntitiesToServer, with the characters the iterator yields at a
\* real position.  Only an unknown faction is looked for.
SendExistingEntities(e, l, seen, valid) ==
    \E to \in IF l = NoFac /\ seen # {} THEN RevalidatedTo(e, l, seen, valid) ELSE {<<e, fallback, l>>} :
        LET used == IF to[3] # NoFac THEN to[3] ELSE IF seen # {} THEN to[1] ELSE NoFac
        IN /\ early' = to[1] /\ fallback' = to[2] /\ local' = to[3]
           /\ Announce(role, {ch \in Unknown(seen) : used # NoFac /\ fac[ch] = used})

InGame == online /\ stage = "ready" /\ call = "none"

(* Mutant of Attempted: an attempt that finds nobody is not counted. *)
AttemptedNot == retries

Attempted == retries + 1

\* Step 1 of a tick, when an attempt is due; the spawn queue, later in the same
\* tick, starts the count afresh after a connection was lost.
ScanTick(seen, valid) ==
    /\ InGame /\ ~squadDone
    /\ IF OwnChars = {} THEN SendExistingEntities(early, local, seen, valid)
       ELSE UNCHANGED <<pointers, role, told>>
    /\ squadDone' = ((\E ch \in DOMAIN role' : role'[ch] = "own") \/ Attempted >= ScanRetries)
    /\ retries' = IF squadDone' \/ resetDue THEN 0 ELSE Attempted
    /\ resetDue' = FALSE
    /\ UNCHANGED <<hookState, creates, smFactory, stage, gameReady, online, acking, call, fac, episode>>

\* The commands /sync and /connect without arguments: a resume, then a scan.
Sync(seen, valid) ==
    /\ InGame /\ ~acking
    /\ FullHook
    /\ SendExistingEntities(NoFac, IF local = NoFac THEN early ELSE local, seen, valid)
    /\ UNCHANGED <<creates, smFactory, stage, gameReady, online, acking, call, fac, scanner, episode>>

\* A remote player leaves: the object stays in the world, unlinked.
RemoteLeaves ==
    /\ online
    /\ \E ch \in DOMAIN role :
         /\ role[ch] = "remote"
         /\ role' = [d \in DOMAIN role \ {ch} |-> role[d]]
    /\ UNCHANGED <<hookState, pointers, creates, smFactory, stage, gameReady, online, acking, call,
                   fac, told, scanner, episode>>

CcNext ==
    \/ \E burst \in BOOLEAN : CreateBegins(burst)
    \/ CreateEnds \/ CreateFails
    \/ \E ch \in Chars, f \in Factions : DirectCreate(ch, f)
    \/ \E sameId \in BOOLEAN : HandshakeAck(sameId)
    \/ AckEnds \/ SetDisconnected \/ LoadBegins \/ LoadEnds
    \/ \E seen \in SUBSET Exists, won \in Factions \cup {NoFac} : LoadEnded(seen, won)
    \/ \E seen \in SUBSET Exists, valid \in Judgements :
         \/ ScanTick(seen, valid) \/ Sync(seen, valid)
    \/ RemoteLeaves

\* What a frame, a factory call, a handler or the end of a load has begun.
InWork ==
    \/ \E seen \in SUBSET Exists, valid \in Judgements : ScanTick(seen, valid)
    \/ CreateEnds \/ CreateFails \/ AckEnds
    \/ \E seen \in SUBSET Exists, won \in Factions \cup {NoFac} : LoadEnded(seen, won)

\* Frames go on, and what is in work goes on.
CcFairness == WF_ccVars(InWork)

CcSpec == CcInit /\ [][CcNext]_ccVars /\ CcFairness

(***************************************************************************)
(* Properties.                                                             *)
(***************************************************************************)

\* Types and the bounds of the counters.
CcTypeOK ==
    /\ {passes, capsDone, captured, smFactory, gameReady, online, acking, squadDone, resetDue} \subseteq BOOLEAN
    /\ {early, fallback, local} \subseteq Factions \cup {NoFac, Stale}
    /\ Len(scan.cands) <= MaxCand /\ scan.count \in 0..ScanWindow /\ scan.done \in BOOLEAN
    /\ creates \in 0..CreateBound /\ retries \in 0..ScanRetries
    /\ stage \in {"menu", "loading", "ready"}
    /\ call \in {"none", "loaded", "voting", "burst", "full"}
    /\ DOMAIN role \subseteq Exists /\ Exists \subseteq Chars
    /\ \A ch \in DOMAIN role : role[ch] \in {"own", "former", "remote"}

(* What a client tells the server of its own characters: they are all of   *)
(* one faction, whatever source it was learned from; none of them is at    *)
(* the same time the body of a remote player, although hijacked and        *)
(* created bodies can be of that faction; and none is announced twice in   *)
(* one connection by hook, scan and /sync.                                 *)
AnnouncedRight ==
    /\ \A ch, d \in Chars : told[ch] > 0 /\ told[d] > 0 => fac[ch] = fac[d]
    /\ \A ch \in DOMAIN role : role[ch] = "remote" => told[ch] = 0
    /\ \A ch \in Chars : told[ch] <= 1

(* Nobody stays in the expensive mode: while nobody is connected the hook  *)
(* goes back to passthrough after a bounded number of calls, also when     *)
(* characters fail to be created or have no faction.  And a connection     *)
(* that is up has the full hook, although the handshake is answered while  *)
(* the factory runs, or a load ends meanwhile.                             *)
HookModeRight ==
    /\ call = "voting" => ~late
    /\ online /\ ~acking /\ stage = "ready" /\ call # "loaded" => ~passes

CreationSound == CcTypeOK /\ AnnouncedRight /\ HookModeRight

\* The search for the squad ends: with a character, after its retries, or with the world.
ScanEnds == online /\ stage = "ready" ~> squadDone \/ ~online \/ stage = "loading"
=============================================================================
