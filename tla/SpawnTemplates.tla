--------------------------- MODULE SpawnTemplates ---------------------------
(***************************************************************************)
(* Where the bodies of remote players come from: SpawnManager collects the *)
(* factory, the GameDataManager and GameData templates from what the game  *)
(* creates and from a scan of its heap, picks for every player slot the    *)
(* character entry of kenshi-online.mod, and HandleSpawnQueue or the       *)
(* /forcespawn command make characters from them.                          *)
(*                                                                         *)
(* GameData entries are model values at places of memory; a heap scan is   *)
(* the set of the places it met, in the order of their addresses.  A       *)
(* request served here is one whose mod character is not in the world      *)
(* (RemoteSpawns has the queue and the links).  What only unreachable code *)
(* reads (m_characterTemplates, the last ones seen, the                    *)
(* default template, the saved request struct) is left out, and of the     *)
(* character-sourced template only that there is one is kept.              *)
(***************************************************************************)
EXTENDS Naturals, Sequences, FiniteSets

CONSTANTS Entries,       \* GameData of the game and the mod, in the order of their addresses
          Heaps,         \* which of them a game may have in memory
          EntryName,     \* their names as loaded
          EntryManager,  \* GameData+0x10
          EntryId,       \* GameData+0x08
          MaxId,         \* 2^32 - 1
          IsCharacter(_), \* whether an entry is a character (not a faction or a squad)
          Managers,      \* values that can pass for a GameDataManager
          ModSlots,      \* 1..MAX_MOD_TEMPLATES
          SlotName,      \* "Player 1" .. "Player 16"
          DisplayName,   \* of the players
          Pointers,      \* what a character's memory may point to, in offset order
          Nothing,       \* null
          Unlike,        \* the template of a random character
          FewTemplates,  \* the 10 below which a scan needs no manager
          ScanLimit,     \* the 5 scans of one connection
          CreateLimit, ConnectLimit

EntrySet == {Entries[i] : i \in DOMAIN Entries}
Owners == DOMAIN DisplayName

Names == {EntryName[d] : d \in EntrySet} \cup {DisplayName[o] : o \in Owners}

ASSUME TemplatesAssumption ==
    /\ Entries \in Seq(EntrySet) /\ \A p \in Pointers : p \in Seq(EntrySet)
    /\ \A h \in Heaps : h \subseteq EntrySet
    /\ EntryName \in [EntrySet -> Names]
    /\ MaxId \in Nat /\ \A d \in EntrySet : EntryManager[d] \in Managers /\ EntryId[d] \in 0..MaxId
    /\ {Nothing, Unlike} \cap EntrySet = {} /\ Nothing \notin Managers
    /\ IsFiniteSet(ModSlots) /\ ModSlots = 1..Cardinality(ModSlots) /\ Owners \subseteq Nat
    /\ ScanLimit \in Nat \ {0}
    \* Nobody calls himself "Player 1".
    /\ \A o \in Owners, s \in ModSlots : DisplayName[o] # SlotName[s]

VARIABLES image,    \* what the hard-coded offset and GameWorld+0x20 hold, and the heap
          named,    \* the name in every entry now
          sm,       \* the SpawnManager
          offered,  \* the entries the mod templates were chosen from (not in the code)
          scan,     \* heapScanned, heapScanAttempts, the 5 s cooldown, m_needSpawnQueueReset
          link,     \* loaded, connected, s_factionScanCount > 0, and what VerifyReadiness said
          made,     \* the body in hand: for whom, and the faction it was born with
          counts    \* creations and connections so far

stVars == <<image, named, sm, offered, scan, link, made, counts>>

NoBody == [owner |-> 0, from |-> Nothing, born |-> "none", faction |-> "none", by |-> "nobody"]

StInit ==
    /\ image \in [hard : Managers \cup {Nothing}, world : Managers \cup {Nothing}, heap : Heaps]
    /\ named = EntryName
    /\ sm = [factory |-> FALSE, preCall |-> FALSE, manager |-> Nothing,
             templates |-> [n \in Names |-> Nothing], captured |-> {},
             sourced |-> FALSE,
             candidates |-> {}, slots |-> [s \in ModSlots |-> Nothing], count |-> 0]
    /\ offered = {}
    /\ scan = [done |-> FALSE, attempts |-> 0, cooling |-> FALSE, reset |-> FALSE]
    /\ link = [loaded |-> FALSE, connected |-> FALSE, fed |-> FALSE, ready |-> FALSE]
    /\ made = NoBody
    /\ counts = [creates |-> 0, connects |-> 0]

(***************************************************************************)
(* What a created character teaches.                                       *)
(***************************************************************************)

SetPreCallData(m) == [m EXCEPT !.preCall = TRUE]
SetFactory(m) == [m EXCEPT !.factory = TRUE]

\* ReadKenshiString and the test for printable names.
HasName(d) == named[d] # ""

(* Mutant of ValidBackpointer: the manager is not compared. *)
ValidBackpointerAny(m, d) == HasName(d)

\* An entry behind a pointer of the character: named, and of the known manager.
ValidBackpointer(m, d) ==
    /\ HasName(d)
    /\ m.manager # Nothing => EntryManager[d] = m.manager

\* The first of some places.
First(I) == CHOOSE i \in I : \A j \in I : i <= j

\* The first valid backpointer becomes a template; the first of all also fixes
\* the manager.
OnGameCharacterCreated(m, pointers) ==
    LET valid == {i \in DOMAIN pointers : ValidBackpointer(m, pointers[i])}
        d == pointers[First(valid)]
    IN IF valid = {} THEN SetFactory(m)
       ELSE [SetFactory(m) EXCEPT !.templates[named[d]] = d,
                                  !.captured = @ \cup {d},
                                  !.sourced = TRUE,
                                  !.manager = IF m.sourced THEN @ ELSE EntryManager[d]]

(***************************************************************************)
(* The heap scan.                                                          *)
(***************************************************************************)

Known(m) == {n \in Names : m.templates[n] # Nothing}

\* The four strategies, in their order.  The third takes the first template in
\* the order of a hash map.
GameDataManagers(m) ==
    CASE image.hard # Nothing  -> {image.hard}
      [] image.hard = Nothing /\ image.world # Nothing -> {image.world}
      [] image.hard = Nothing /\ image.world = Nothing /\ Known(m) # {} ->
            {EntryManager[m.templates[n]] : n \in Known(m)}
      [] OTHER -> {m.manager}

\* The words of the heap that hold the manager and are followed by a name.
Matches(g) ==
    {i \in DOMAIN Entries : LET d == Entries[i] IN d \in image.heap /\ EntryManager[d] = g /\ HasName(d)}

FirstNamed(seen, n) ==
    LET hits == {i \in seen : named[Entries[i]] = n}
    IN IF hits = {} THEN Nothing ELSE Entries[First(hits)]

\* Every name keeps its first entry, and every entry of a player is a candidate.  The
\* candidates are looked at after the first scan that met any: their order is its order.
Record(m, seen) ==
    LET players == {i \in seen : \E s \in ModSlots : named[Entries[i]] = SlotName[s]}
    IN [m EXCEPT !.templates = [n \in Names |-> IF @[n] # Nothing THEN @[n] ELSE FirstNamed(seen, n)],
                 !.candidates = @ \cup {[name |-> named[Entries[i]], at |-> i] : i \in players}]

\* A completed scan takes a template of its own for the character-sourced one.
SetFallback(m) == [m EXCEPT !.sourced = @ \/ Known(m) # {}]

\* A region that becomes unreadable is left, and a fault ends the scan: what was
\* found so far stays.
ScanGameDataHeap(m) ==
    UNION {IF g = Nothing THEN {m}
           ELSE UNION {{SetFallback(Record(m, seen)), Record(m, seen)} : seen \in SUBSET Matches(g)} :
             g \in GameDataManagers(m)}

(* Mutant of BestCandidate: the first entry of the name, whatever its id. *)
BestCandidateFirst(found) == IF found = {} THEN Nothing ELSE Entries[First(found)]

\* The character of a player has the highest id; of equal ids the first wins, and
\* if all read as 0 the first of all.
BestCandidate(found) ==
    LET id(i) == EntryId[Entries[i]]
        best  == CHOOSE i \in found : \A j \in found : id(j) < id(i) \/ (id(j) = id(i) /\ i <= j)
    IN IF found = {} THEN Nothing ELSE Entries[best]

\* Once only.
FindModTemplates(m) ==
    IF m.count > 0 \/ m.candidates = {} THEN m
    ELSE LET of(s)  == {c.at : c \in {x \in m.candidates : x.name = SlotName[s]}}
             slots  == [s \in ModSlots |-> BestCandidate(of(s))]
         IN [m EXCEPT !.slots = slots,
                      !.count = Cardinality({s \in ModSlots : slots[s] # Nothing})]

Searched(m) == {FindModTemplates(n) : n \in ScanGameDataHeap(m)}

Offer(old, new) ==
    offered' = IF old.count = 0 /\ new.count > 0
               THEN {Entries[c.at] : c \in new.candidates} ELSE offered

(***************************************************************************)
(* Characters the game creates, and the end of loading.                    *)
(***************************************************************************)

Creation == /\ counts.creates < CreateLimit
            /\ counts' = [counts EXCEPT !.creates = @ + 1]

\* Loading passthrough: the first request struct, and the factory with it.
LoadingCreate ==
    /\ ~link.loaded /\ Creation
    /\ sm' = IF sm.preCall THEN sm ELSE SetFactory(SetPreCallData(sm))
    /\ UNCHANGED <<image, named, offered, scan, link, made>>

\* A loaded game that was not connected yet (a disconnect switches the hook off):
\* only the first character is looked at.
IdleCreate(pointers) ==
    /\ link.loaded /\ counts.connects = 0 /\ Creation
    /\ LET kept == SetFactory(SetPreCallData(sm))
       IN sm' = IF link.fed THEN kept ELSE OnGameCharacterCreated(kept, pointers)
    /\ link' = [link EXCEPT !.fed = TRUE]
    /\ UNCHANGED <<image, named, offered, scan, made>>

\* A connected client looks at all of them; memory that faults while it is read
\* leaves the factory only.
ConnectedCreate(pointers) ==
    /\ link.loaded /\ link.connected /\ Creation
    /\ sm' \in {OnGameCharacterCreated(SetPreCallData(sm), pointers), SetFactory(SetPreCallData(sm)),
                SetPreCallData(sm)}
    /\ UNCHANGED <<image, named, offered, scan, link, made>>

\* The hook is installed, so the original process function is known.
VerifyReadiness(m) == m.preCall \/ (m.count > 0 /\ m.factory)

\* Core::OnGameLoaded verifies and makes a first scan if it knows anything at all.
ScanAtLoad ==
    /\ ~link.loaded
    /\ link' = [link EXCEPT !.loaded = TRUE, !.ready = VerifyReadiness(sm)]
    /\ sm' \in IF sm.manager # Nothing \/ Known(sm) # {} \/ sm.factory
               THEN Searched(sm) ELSE {sm}
    /\ Offer(sm, sm')
    /\ UNCHANGED <<image, named, scan, counts, made>>

OnConnect ==
    /\ ~link.connected /\ counts.connects < ConnectLimit
    /\ link' = [link EXCEPT !.connected = TRUE]
    /\ counts' = [counts EXCEPT !.connects = @ + 1]
    /\ UNCHANGED <<image, named, sm, offered, scan, made>>

\* Nothing the manager learned is forgotten; the statics of HandleSpawnQueue will be.
OnDisconnect ==
    /\ link.connected
    /\ link' = [link EXCEPT !.connected = FALSE]
    /\ scan' = [scan EXCEPT !.reset = TRUE]
    /\ UNCHANGED <<image, named, sm, offered, counts, made>>

CooldownEnds ==
    /\ scan.cooling
    /\ scan' = [scan EXCEPT !.cooling = FALSE]
    /\ UNCHANGED <<image, named, sm, offered, link, counts, made>>

(***************************************************************************)
(* Bodies.                                                                 *)
(***************************************************************************)

\* WriteGameDataNameForModLink: the entry gets the player's name.
WriteName(d, o) == named' = [named EXCEPT ![d] = DisplayName[o]]

\* A character of the mod that the save placed in the world is linked to its
\* player (LinkModCharacter of RemoteSpawns).
LinkSavedCharacter(o, d) ==
    /\ link.loaded /\ link.connected /\ d \in image.heap /\ IsCharacter(d)
    /\ o \in ModSlots /\ EntryName[d] = SlotName[o]
    /\ WriteName(d, o)
    /\ UNCHANGED <<image, sm, offered, scan, link, counts, made>>

(* Mutant of SlotFor: player ids taken for slot numbers from 0. *)
SlotForShifted(m, o) == IF m.count > 0 /\ o > 0 THEN (o % m.count) + 1 ELSE 1

\* (owner - 1) % count, counting slots from 1.
SlotFor(m, o) == IF m.count > 0 /\ o > 0 THEN ((o - 1) % m.count) + 1 ELSE 1

\* SpawnCharacterDirect and SpawnWithModTemplate: not ready, an empty slot and a
\* factory that fails all give nothing.
DirectResults(m, o) ==
    IF m.count = 0 \/ ~m.factory THEN {Nothing} ELSE {m.slots[SlotFor(m, o)], Nothing}

\* CallFactoryCreateRandom, which can fail too.
RandomResults == {Unlike, Nothing}

Results(m, o) ==
    (DirectResults(m, o) \ {Nothing}) \cup (IF Nothing \in DirectResults(m, o) THEN RandomResults ELSE {})

\* What the factory gives a body: a mod character has the mod's faction, a random
\* one a faction that may already be freed.
Factions(d) == IF d = Unlike THEN {"npc", "freed"} ELSE {"mod"}

\* The first faction there is; one whose memory is empty is not written.
Replacement(fallback, early, local) ==
    LET first == IF fallback # "none" THEN fallback ELSE IF early # "none" THEN early ELSE local
    IN IF first = "empty" THEN "none" ELSE first

(* Mutant of FixUpFaction: a faction that is still valid is replaced too. *)
FixUpFactionAlways(f, r) == IF r = "none" THEN f ELSE r

\* SEH_FixUpFaction_Core: only a freed faction is replaced.
FixUpFaction(f, r) == IF f # "freed" \/ r = "none" THEN f ELSE r

\* The factions the hooks know: the last that was seen, and the player's own.  Which live
\* faction a body gets makes no difference here.
FallbackFactions == {"none", "live", "empty"}
OwnFactions == {"none", "live"}

FixUps == {Replacement(a, b, c) : a \in FallbackFactions, b \in OwnFactions, c \in OwnFactions}
Forced == {Replacement(b, a, "none") : a \in FallbackFactions, b \in OwnFactions}

\* Only the faction of a random body is looked at.
QueueBodies(o, d) ==
    {[owner |-> o, from |-> d, by |-> "queue", born |-> f,
      faction |-> IF d = Unlike THEN FixUpFaction(f, r) ELSE f] : f \in Factions(d), r \in FixUps}

\* The entry of a body from a mod template gets the player's name.
Spawn(m, o) ==
    \E d \in Results(m, o) :
        \/ d = Nothing /\ UNCHANGED <<named, made>>
        \/ d = Unlike /\ made' \in QueueBodies(o, d) /\ UNCHANGED named
        \/ d \in EntrySet /\ made' \in QueueBodies(o, d) /\ (WriteName(d, o) \/ UNCHANGED named)

\* The statics of HandleSpawnQueue after a possible reset.
Refreshed ==
    IF scan.reset THEN [done |-> FALSE, attempts |-> 0, cooling |-> FALSE, reset |-> FALSE] ELSE scan

NeedsScan(s, m) == ~s.done \/ (m.count = 0 /\ s.attempts < ScanLimit)

\* One tick: the reset, a scan when one is due, and one request, if there is one.
HandleSpawnQueue(requests) ==
    /\ link.loaded /\ link.connected
    /\ LET s == Refreshed
           scans == /\ NeedsScan(s, sm) /\ sm.factory /\ ~s.cooling
                    /\ sm.manager # Nothing \/ Cardinality(Known(sm)) < FewTemplates
       IN /\ scan' = IF scans THEN [s EXCEPT !.done = TRUE, !.attempts = @ + 1, !.cooling = TRUE] ELSE s
          /\ sm' \in IF scans THEN Searched(sm) ELSE {sm}
          /\ Offer(sm, sm')
    /\ \/ UNCHANGED <<named, made>>
       \/ \E o \in requests : sm.factory /\ Spawn(sm', o)
    /\ UNCHANGED <<image, link, counts>>

\* /forcespawn writes the local faction, or the fallback, into every body, and no names.
ForceSpawn(o) ==
    /\ link.loaded /\ link.connected /\ sm.factory
    /\ \E d \in Results(sm, o) \ {Nothing} :
         made' \in {[owner |-> o, from |-> d, by |-> "command", born |-> f,
                     faction |-> IF r = "none" THEN f ELSE r] : f \in Factions(d), r \in Forced}
    /\ UNCHANGED <<image, named, sm, offered, scan, link, counts>>

\* The game thread goes on to link the body before anything else happens to it
\* (LinkObject of RemoteSpawns).
BodyLinked ==
    /\ made # NoBody /\ made' = NoBody
    /\ UNCHANGED <<image, named, sm, offered, scan, link, counts>>

StNext ==
    \/ BodyLinked
    \/ /\ made = NoBody
       /\ \/ LoadingCreate
          \/ \E p \in Pointers : IdleCreate(p) \/ ConnectedCreate(p)
          \/ ScanAtLoad \/ OnConnect \/ OnDisconnect \/ CooldownEnds
          \/ \E o \in Owners, d \in EntrySet : LinkSavedCharacter(o, d)
          \/ HandleSpawnQueue(Owners)
          \/ \E o \in Owners : ForceSpawn(o)

-----------------------------------------------------------------------------

StTypeOK ==
    /\ sm.factory \in BOOLEAN /\ sm.manager \in Managers \cup {Nothing}
    /\ sm.templates \in [Names -> EntrySet \cup {Nothing}] /\ sm.captured \subseteq EntrySet
    /\ sm.sourced \in BOOLEAN
    /\ sm.slots \in [ModSlots -> EntrySet \cup {Nothing}] /\ sm.count \in 0..Cardinality(ModSlots)
    /\ scan.attempts \in 0..ScanLimit /\ named \in [EntrySet -> Names]

\* Bodies come from the right templates, however scans, renames, links, reloads
\* and reconnects interleave: a player's character entry wins over his other
\* entries if it was seen at all; what characters taught belongs to one manager; a
\* player within the number of templates looks like himself; and no body the queue
\* makes loses a live faction.
TemplatesRight ==
    /\ sm.count = Cardinality({s \in ModSlots : sm.slots[s] # Nothing})
    /\ \A s \in ModSlots, d \in offered :
         IsCharacter(d) /\ EntryName[d] = SlotName[s] => sm.slots[s] = d
    /\ sm.manager # Nothing => \A d \in sm.captured : EntryManager[d] = sm.manager
    /\ made.owner \in 1..sm.count /\ made.from \in EntrySet =>
         EntryName[made.from] = SlotName[made.owner]
    /\ made.by = "queue" /\ made.faction # made.born => made.born = "freed"
=============================================================================
