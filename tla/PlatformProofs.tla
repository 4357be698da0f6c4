--------------------------- MODULE PlatformProofs ---------------------------
(***************************************************************************)
(* Proofs about the parts below and beside a session: the stub of a hook,  *)
(* the life of a hook, the embedded server and the loading gate.  They     *)
(* hold for every value of the constants; a part's theorem is about its    *)
(* own specification.                                                      *)
(***************************************************************************)
EXTENDS MCPlatform, EntityRegistryProofs, FiniteSetTheorems, SequenceTheorems,
        WellFoundedInduction, TLAPS

-----------------------------------------------------------------------------
(* The stub of a hook.                                                     *)

\* The calls inside the C++ hook are the ones the page is about: the noted
\* stack and return address are theirs and the counter is 1 on their account.
\* There is at most one of them, since captured is one number.
GuestInv ==
    \A n \in 1 .. Top : stack[n] # "raw" =>
        captured = n /\ savedRet = n /\ depth = 1 /\ page
            /\ (stack[n] = "original" => stubRsp = n)

\* Nobody inside the hook: nothing is counted, with or without a page.
CounterInv == depth \in {0, 1} /\ (depth = 1 => \E n \in 1 .. Top : stack[n] # "raw")

\* The words of calls that went straight to the trampoline are untouched.
WordInv == \A n \in 1 .. Top : stack[n] = "raw" => word[n] = n

StubInv == HsTypeOK /\ GuestInv /\ CounterInv /\ WordInv /\ ReturnsHome /\ NoStrayPage

\* What the invariant says of the set of calls inside the hook.
LEMMA HookedMeaning ==
    ASSUME StubInv
    PROVE  /\ Hooked = {} <=> depth = 0
           /\ DepthBalanced /\ OneGuest
BY DEF StubInv, GuestInv, CounterInv, Hooked, DepthBalanced, OneGuest

\* The manager's steps touch the page only when nobody is inside the hook, or
\* touch its flag only.
LEMMA StubManager ==
    ASSUME StubInv, Install \/ StartBypassed \/ Enable \/ Disable \/ Remove
    PROVE  StubInv'
<1> USE DEF StubInv, HsTypeOK, GuestInv, CounterInv, WordInv, ReturnsHome, NoStrayPage, Top
<1>1. CASE Install
  <2>1. depth = 0 /\ \A n \in 1 .. Top : stack[n] = "raw"
    BY <1>1, HookedMeaning DEF Install, Hooked
  <2> QED
    BY <1>1, <2>1, CallBoundIsNat DEF Install, Cleanup
<1>2. CASE StartBypassed \/ Enable
  BY <1>2 DEF StartBypassed, Enable
<1>3. CASE Disable
  BY <1>3 DEF Disable
<1>4. CASE Remove
  <2>1. depth = 0 /\ \A n \in 1 .. Top : stack[n] = "raw"
    BY <1>4, HookedMeaning DEF Remove, Hooked
  <2> QED
    BY <1>4, <2>1 DEF Remove
<1> QED
  BY <1>1, <1>2, <1>3, <1>4

\* A new call gets the page only while nobody is inside the hook.
LEMMA StubCalls ==
    ASSUME StubInv, GameCalls
    PROVE  StubInv'
<1> DEFINE n == Top + 1
           normal == patched /\ ~bypass /\ ~Reentrant(depth + 1)
<1>1. /\ Top \in Nat /\ n \in 1 .. CallBound /\ Top' = n
      /\ stack' \in Seq({"raw", "hook", "original", "after"})
      /\ stack'[n] = (IF normal THEN "hook" ELSE "raw")
      /\ \A m \in 1 .. Top : stack'[m] = stack[m]
  BY CallBoundIsNat DEF StubInv, HsTypeOK, GameCalls, Top
<1>2. /\ word' \in [1 .. CallBound -> 0 .. CallBound]
      /\ word'[n] = n
      /\ \A m \in 1 .. Top : word'[m] = word[m]
  <2>1. word' = [word EXCEPT ![n] = n] /\ word \in [1 .. CallBound -> 0 .. CallBound]
    BY DEF StubInv, HsTypeOK, GameCalls
  <2> HIDE DEF n
  <2>2. n \in 0 .. CallBound /\ \A m \in 1 .. Top : m \in 1 .. CallBound /\ m # n
    BY <1>1, CallBoundIsNat DEF n
  <2> QED
    BY <1>1, <2>1, <2>2
<1>3. UNCHANGED <<entry, page, patched, bypass, stubRsp, failed, went>>
  BY DEF GameCalls, pageVars
<1>4. /\ \A m \in 1 .. Top' : m = n \/ m \in 1 .. Top
      /\ \A m \in 1 .. Top : m \in 1 .. Top'
  BY <1>1
<1>5. WordInv'
  <2> HIDE DEF n, normal
  <2>1. WordInv /\ n \in 1 .. Top'
    BY <1>1 DEF StubInv
  <2>2. ASSUME NEW m \in 1 .. Top', stack'[m] = "raw" PROVE word'[m] = m
    BY <1>1, <1>2, <1>4, <2>1, <2>2 DEF WordInv
  <2> QED
    BY <2>2 DEF WordInv
<1>6. ReturnsHome' /\ NoStrayPage'
  BY <1>3 DEF StubInv, ReturnsHome, NoStrayPage
<1>7. /\ entry \in {"absent", "arming", "off", "on"} /\ {page, patched, bypass, failed} \subseteq BOOLEAN
      /\ {captured, savedRet, stubRsp} \subseteq 0 .. CallBound /\ depth \in 0 .. CallBound
      /\ went \in (1 .. CallBound) \X (0 .. CallBound)
  BY DEF StubInv, HsTypeOK
<1>8. CASE normal
  <2>1. depth = 0 /\ page
    <3>1. patched /\ depth + 1 = 1
      BY <1>8 DEF Reentrant
    <3>2. depth = 0
      BY <1>7, <3>1
    <3> QED
      BY <3>1, <3>2 DEF StubInv, NoStrayPage
  <2>2. \A m \in 1 .. Top : stack[m] = "raw"
    BY <2>1 DEF StubInv, GuestInv
  <2>3. captured' = n /\ savedRet' = n /\ depth' = 1
    BY <1>8, <1>2, <2>1 DEF GameCalls, Capture
  <2>4. stack'[n] = "hook" /\ n \in 1 .. Top' /\ \A m \in 1 .. Top : stack'[m] = "raw"
    BY <1>1, <1>8, <2>2
  <2> HIDE DEF normal, n
  <2>5. HsTypeOK'
    <3>1. {captured, savedRet, stubRsp}' \subseteq 0 .. CallBound /\ depth' \in 0 .. CallBound
      BY <1>1, <1>3, <1>7, <2>3, CallBoundIsNat
    <3>2. Top' <= CallBound
      BY <1>1, CallBoundIsNat
    <3> QED
      BY <1>1, <1>2, <1>3, <1>7, <3>1, <3>2 DEF HsTypeOK
  <2>6. GuestInv'
    BY <1>3, <1>4, <2>1, <2>3, <2>4 DEF GuestInv
  <2>7. CounterInv'
    BY <2>3, <2>4 DEF CounterInv
  <2> QED
    BY <1>5, <1>6, <2>5, <2>6, <2>7 DEF StubInv
<1>9. CASE ~normal
  <2>1. UNCHANGED <<captured, savedRet, depth>>
    <3>1. depth + 1 - 1 = depth
      BY <1>7
    <3> QED
      BY <1>9, <3>1 DEF GameCalls, RawDepth
  <2>2. stack'[n] = "raw"
    BY <1>1, <1>9
  <2> HIDE DEF normal, n
  <2>3. HsTypeOK'
    <3>1. Top' <= CallBound
      BY <1>1, CallBoundIsNat
    <3> QED
      BY <1>1, <1>2, <1>3, <1>7, <2>1, <3>1 DEF HsTypeOK
  <2>4. GuestInv'
    BY <1>1, <1>3, <1>4, <2>1, <2>2 DEF StubInv, GuestInv
  <2>5. CounterInv'
    BY <1>1, <1>4, <2>1 DEF StubInv, CounterInv
  <2> QED
    BY <1>5, <1>6, <2>3, <2>4, <2>5 DEF StubInv
<1> QED
  BY <1>8, <1>9

\* The stack without its last call.
LEMMA Popped ==
    ASSUME NEW S, NEW s \in Seq(S), Len(s) > 0
    PROVE  /\ SubSeq(s, 1, Len(s) - 1) \in Seq(S)
           /\ Len(SubSeq(s, 1, Len(s) - 1)) = Len(s) - 1
           /\ \A m \in 1 .. Len(s) - 1 : SubSeq(s, 1, Len(s) - 1)[m] = s[m]
<1> DEFINE k == Len(s) - 1
           t == SubSeq(s, 1, k)
<1>1. k \in Nat /\ \A i \in 1 .. k : s[i] \in S
  OBVIOUS
<1> HIDE DEF k
<1>2. /\ t \in Seq(S)
      /\ Len(t) = IF 1 <= k THEN k - 1 + 1 ELSE 0
      /\ \A i \in 1 .. k - 1 + 1 : t[i] = s[1 + i - 1]
  BY <1>1, SubSeqProperties
<1> HIDE DEF t
<1>3. t \in Seq(S) /\ Len(t) = k /\ \A m \in 1 .. k : t[m] = s[m]
  BY <1>1, <1>2
<1> QED
  BY <1>3 DEF t, k

\* Steps inside the hook and the returns.
LEMMA StubRuns ==
    ASSUME StubInv, CallOriginal \/ OriginalReturns \/ OriginalFaults \/ HookReturns \/ RawReturns
    PROVE  StubInv'
<1>0. /\ stack \in Seq({"raw", "hook", "original", "after"}) /\ Len(stack) \in 0 .. CallBound
      /\ word \in [1 .. CallBound -> 0 .. CallBound] /\ CallBound \in Nat
      /\ \A m \in 1 .. Len(stack) : m \in 1 .. CallBound
  BY CallBoundIsNat DEF StubInv, HsTypeOK, Top
<1>1. CASE CallOriginal
  <2> DEFINE n == Len(stack)
  <2>1. /\ n \in 1 .. n /\ n \in 0 .. CallBound /\ stack[n] = "hook" /\ stubRsp' = n
        /\ stack' = [stack EXCEPT ![n] = "original"]
        /\ UNCHANGED <<entry, page, patched, bypass, depth, captured, savedRet, failed, went>>
    BY <1>0, <1>1 DEF CallOriginal, Top, pageVars
  <2>2. captured = n /\ savedRet = n /\ depth = 1 /\ page
    BY <2>1 DEF StubInv, GuestInv, Top
  <2>3. word' = [word EXCEPT ![n] = 0]
    BY <1>1, <2>2 DEF CallOriginal, ReturnPoint
  <2>4. /\ stack' \in Seq({"raw", "hook", "original", "after"}) /\ Len(stack') = n
        /\ stack'[n] = "original" /\ \A m \in 1 .. n : m # n => stack'[m] = stack[m]
    BY <1>0, <2>1
  <2>5. /\ word' \in [1 .. CallBound -> 0 .. CallBound] /\ \A m \in 1 .. n : m # n => word'[m] = word[m]
    <3>1. 0 \in 0 .. CallBound
      BY <1>0
    <3> QED
      BY <1>0, <2>3, <3>1
  <2> HIDE DEF n
  <2>6. HsTypeOK'
    <3>1. Top' <= CallBound
      BY <1>0, <2>1, <2>4 DEF Top
    <3> QED
      BY <2>1, <2>4, <2>5, <3>1 DEF StubInv, HsTypeOK
  <2>7. GuestInv'
    BY <2>1, <2>2, <2>4 DEF StubInv, GuestInv, Top, n
  <2>8. CounterInv'
    BY <2>1, <2>2, <2>4 DEF CounterInv, Top
  <2>9. WordInv'
    BY <2>4, <2>5 DEF StubInv, WordInv, Top, n
  <2> QED
    BY <2>1, <2>6, <2>7, <2>8, <2>9 DEF StubInv, ReturnsHome, NoStrayPage
<1>2. CASE OriginalReturns
  <2> DEFINE n == Len(stack)
  <2>1. /\ n \in 1 .. n /\ stack[n] = "original" /\ stack' = [stack EXCEPT ![n] = "after"]
        /\ UNCHANGED <<entry, page, patched, bypass, depth, captured, savedRet, stubRsp, word, failed, went>>
    BY <1>0, <1>2 DEF OriginalReturns, Top, pageVars
  <2>2. captured = n /\ savedRet = n /\ depth = 1 /\ page
    BY <2>1 DEF StubInv, GuestInv, Top
  <2>3. /\ stack' \in Seq({"raw", "hook", "original", "after"}) /\ Len(stack') = n
        /\ stack'[n] = "after" /\ \A m \in 1 .. n : m # n => stack'[m] = stack[m]
    BY <1>0, <2>1
  <2> HIDE DEF n
  <2>4. HsTypeOK'
    <3>1. Top' <= CallBound
      BY <1>0, <2>3 DEF Top, n
    <3> QED
      BY <2>1, <2>3, <3>1 DEF StubInv, HsTypeOK
  <2>5. GuestInv'
    BY <2>1, <2>2, <2>3 DEF StubInv, GuestInv, Top, n
  <2>6. CounterInv'
    BY <2>1, <2>2, <2>3 DEF CounterInv, Top
  <2>7. WordInv'
    BY <2>1, <2>3 DEF StubInv, WordInv, Top, n
  <2> QED
    BY <2>1, <2>4, <2>5, <2>6, <2>7 DEF StubInv, ReturnsHome, NoStrayPage
<1>3. CASE OriginalFaults
  <2>1. PICK n \in 1 .. Len(stack) :
           stack[n] = "original" /\ stack' = Append(SubSeq(stack, 1, n - 1), "after")
    BY <1>3 DEF OriginalFaults, Hooked, Top
  <2>2. /\ Len(stack') = n /\ stack'[n] = "after"
        /\ \A m \in 1 .. n - 1 : stack'[m] = stack[m]
        /\ stack' \in Seq({"raw", "hook", "original", "after"})
    BY <1>0, <2>1
  <2>3. /\ n \in 1 .. n /\ \A m \in 1 .. n : m \in 1 .. Len(stack) /\ (m # n => m \in 1 .. n - 1)
    BY <1>0, <2>1
  <2>4. captured = n /\ savedRet = n /\ depth = 1 /\ page
    BY <2>1 DEF StubInv, GuestInv, Top
  <2>5. /\ failed' = TRUE
        /\ UNCHANGED <<entry, page, patched, bypass, depth, captured, savedRet, stubRsp, word, went>>
    BY <1>3 DEF OriginalFaults, pageVars
  <2>6. HsTypeOK'
    <3>1. Top' <= CallBound
      BY <1>0, <2>1, <2>2 DEF Top
    <3> QED
      BY <2>2, <2>5, <3>1 DEF StubInv, HsTypeOK
  <2>7. GuestInv'
    BY <2>2, <2>3, <2>4, <2>5 DEF StubInv, GuestInv, Top
  <2>8. CounterInv'
    BY <2>2, <2>3, <2>4, <2>5 DEF CounterInv, Top
  <2>9. WordInv'
    BY <2>2, <2>3, <2>5 DEF StubInv, WordInv, Top
  <2> QED
    BY <2>5, <2>6, <2>7, <2>8, <2>9 DEF StubInv, ReturnsHome, NoStrayPage
<1> USE DEF StubInv, HsTypeOK, GuestInv, CounterInv, WordInv, ReturnsHome, NoStrayPage, Top, pageVars
<1>4. CASE HookReturns
  <2>1. /\ Len(stack') = Len(stack) - 1 /\ Len(stack) \in 1 .. CallBound
        /\ \A m \in 1 .. Len(stack') : stack'[m] = stack[m]
        /\ stack' \in Seq({"raw", "hook", "original", "after"})
    <3>1. stack \in Seq({"raw", "hook", "original", "after"}) /\ Len(stack) > 0 /\ Len(stack) <= CallBound
      BY <1>4 DEF HookReturns
    <3>2. stack' = SubSeq(stack, 1, Len(stack) - 1)
      BY <1>4 DEF HookReturns
    <3> QED
      BY <3>1, <3>2, CallBoundIsNat, Popped
  <2>2. captured = Len(stack) /\ savedRet = Len(stack) /\ depth = 1
    <3>1. Len(stack) \in 1 .. Len(stack) /\ stack[Len(stack)] \in {"hook", "after"}
      BY <1>4, <2>1 DEF HookReturns
    <3> QED
      BY <3>1
  <2>3. /\ went' = <<Len(stack), Len(stack)>> /\ depth' = 0
        /\ word' = [word EXCEPT ![Len(stack)] = Len(stack)]
        /\ UNCHANGED <<entry, page, patched, bypass, captured, savedRet, stubRsp, failed>>
    BY <1>4, <2>2 DEF HookReturns, Restored, LeaveDepth
  <2>4. HsTypeOK'
    <3>1. went' \in (1 .. CallBound) \X (0 .. CallBound)
      BY <2>1, <2>3, CallBoundIsNat
    <3> QED
      BY <2>1, <2>3, <3>1, CallBoundIsNat
  <2>5. \A m \in 1 .. Len(stack') : m \in 1 .. Len(stack) /\ m # Len(stack)
    BY <2>1
  <2>6. \A m \in 1 .. Len(stack') : stack'[m] = "raw" /\ stack[m] = "raw"
    BY <2>1, <2>2, <2>5
  <2>7. GuestInv' /\ CounterInv'
    BY <2>3, <2>6
  <2>8. \A m \in 1 .. Len(stack') : word'[m] = m
    <3>1. WordInv /\ word \in [1 .. CallBound -> 0 .. CallBound]
      OBVIOUS
    <3>2. \A m \in 1 .. Len(stack') : m \in 1 .. CallBound /\ word[m] = m
      BY <2>1, <2>5, <2>6, <3>1, CallBoundIsNat
    <3> QED
      BY <2>3, <2>5, <3>1, <3>2
  <2>9. WordInv'
    BY <2>8
  <2> QED
    BY <2>3, <2>4, <2>7, <2>9
<1>5. CASE RawReturns
  <2>1. /\ Len(stack') = Len(stack) - 1 /\ Len(stack) \in 1 .. CallBound
        /\ \A m \in 1 .. Len(stack') : stack'[m] = stack[m]
        /\ stack' \in Seq({"raw", "hook", "original", "after"})
    <3>1. stack \in Seq({"raw", "hook", "original", "after"}) /\ Len(stack) > 0 /\ Len(stack) <= CallBound
      BY <1>5 DEF RawReturns
    <3>2. stack' = SubSeq(stack, 1, Len(stack) - 1)
      BY <1>5 DEF RawReturns
    <3> QED
      BY <3>1, <3>2, CallBoundIsNat, Popped
  <2>2. stack[Len(stack)] = "raw" /\ word[Len(stack)] = Len(stack)
    BY <1>5, <2>1 DEF RawReturns
  <2>3. /\ went' = <<Len(stack), Len(stack)>>
        /\ UNCHANGED <<entry, page, patched, bypass, depth, captured, savedRet, stubRsp, word, failed>>
    BY <1>5, <2>2 DEF RawReturns
  <2>4. HsTypeOK'
    <3>1. went' \in (1 .. CallBound) \X (0 .. CallBound)
      BY <2>1, <2>3, CallBoundIsNat
    <3> QED
      BY <2>1, <2>3, <3>1, CallBoundIsNat
  <2>5. \A m \in 1 .. Len(stack') : m \in 1 .. Len(stack)
    BY <2>1
  <2>6. \A m \in 1 .. Len(stack) : stack[m] # "raw" => m \in 1 .. Len(stack')
    BY <2>1, <2>2
  <2>7. GuestInv' /\ CounterInv' /\ WordInv'
    BY <2>1, <2>3, <2>5, <2>6
  <2> QED
    BY <2>3, <2>4, <2>7
<1> QED
  BY <1>1, <1>2, <1>3, <1>4, <1>5

\* The invariant of the stub.
LEMMA StubInvariant == HsSpec => []StubInv
<1>1. HsInit => StubInv
  <2> SUFFICES ASSUME HsInit PROVE StubInv
    OBVIOUS
  <2>1. stack \in Seq({"raw", "hook", "original", "after"}) /\ Top = 0
    BY DEF HsInit, Top
  <2>2. went \in (1 .. CallBound) \X (0 .. CallBound) /\ went[1] = went[2]
    BY CallBoundIsNat DEF HsInit
  <2>3. word \in [1 .. CallBound -> 0 .. CallBound]
    BY CallBoundIsNat DEF HsInit
  <2>4. HsTypeOK
    <3>1. depth \in 0 .. CallBound /\ {captured, savedRet, stubRsp} \subseteq 0 .. CallBound
      BY CallBoundIsNat DEF HsInit
    <3>2. entry \in {"absent", "arming", "off", "on"} /\ {page, patched, bypass, failed} \subseteq BOOLEAN
      BY DEF HsInit
    <3>3. Top <= CallBound
      BY <2>1, CallBoundIsNat
    <3> QED
      BY <2>1, <2>2, <2>3, <3>1, <3>2, <3>3 DEF HsTypeOK
  <2> QED
    BY <2>1, <2>2, <2>4 DEF HsInit, StubInv, GuestInv, CounterInv, WordInv, ReturnsHome, NoStrayPage
<1>2. StubInv /\ [HsNext]_hsVars => StubInv'
  <2> SUFFICES ASSUME StubInv, [HsNext]_hsVars PROVE StubInv'
    OBVIOUS
  <2>1. CASE UNCHANGED hsVars
    BY <2>1 DEF hsVars, pageVars, StubInv, HsTypeOK, GuestInv, CounterInv, WordInv, ReturnsHome,
                NoStrayPage, Top
  <2> QED
    BY <2>1, StubManager, StubCalls, StubRuns DEF HsNext
<1> QED
  BY <1>1, <1>2, PTL DEF HsSpec

\* A hook on a `mov rax, rsp` function is transparent for any nesting depth:
\* every call returns to its caller, the counter is given back whatever was
\* switched or faulted, the noted stack is the guest's, and no jump leads to a
\* page that is gone (mov_rax_rsp_fix.cpp, hook_manager.cpp).
THEOREM StubIsSafe == HsSpec => []StubSafe
<1>1. StubInv => StubSafe
  BY HookedMeaning DEF StubSafe, StubInv
<1> QED
  BY <1>1, StubInvariant, PTL

-----------------------------------------------------------------------------
(* The life of a hook.                                                     *)

\* The order of start-up: the game plays, and hooks exist, only after
\* installation; the entry that is called instead of hooked has none.
StageInv ==
    /\ playing \/ joined \/ loading # "done" \/ acking # "done" \/ moves # 0 => stage = "ready"
    /\ hook # "absent" => stage \in {"arming", "ready"}
    /\ fn = "SquadAddMember" => hook = "absent"

\* When play has begun the raw pointer has been checked, or there is none.
RawInv ==
    fn = "SquadAddMember" /\ playing /\ loading \in {"done", "create"} /\ address # Nowhere =>
        raw = "disabled" \/ ~Inside(address)

\* A handler that is past its own step has enabled what was its to enable, or
\* has yet to: a load that found no connection is before m_connected was set,
\* and the answer that follows finds the game loaded, and the other way round.
SwitchInv ==
    /\ playing /\ joined /\ hook = "off" /\ fn \in Combat =>
         loading = "deferred" \/ acking = "combat"
    /\ playing /\ hook = "off" /\ fn = "CharacterSpawn" =>
         loading # "done"
    /\ loading # "done" => playing
    /\ acking # "done" => joined \/ crossed
    /\ playing \/ joined \/ loading # "done" \/ acking # "done" => moves # 0

HookInv == HkTypeOK /\ StageInv /\ RawInv /\ SwitchInv /\ HooksRight

\* The alignment check and the .pdata correction lead to places or nowhere.
LEMMA PlacesKept ==
    ASSUME NEW p \in Walked
    PROVE  Aligned(p) \in Walked /\ Corrected(p) \in Walked
BY DEF Walked, Places, Nowhere, Aligned, Corrected, Spots, Unaligned

\* A scan changes the address while no hook exists and the game does not run.
LEMMA HookScans ==
    ASSUME HookInv, Phase4 \/ Phase5 \/ Phase6 \/ Phase8 \/ Legacy
    PROVE  HookInv'
<1>1. /\ stage \notin {"arming", "ready"} /\ stage' \in {"strings", "labels", "critical", "legacy", "hooks"}
      /\ UNCHANGED <<fn, hook, raw, called, playing, joined, loading, acking, crossed, moves>>
  BY DEF Phase4, Phase5, Phase6, Phase8, Legacy, playVars
<1>2. hook = "absent" /\ ~playing /\ ~joined /\ loading = "done" /\ acking = "done"
  BY <1>1 DEF HookInv, StageInv
<1>3. hit \in Walked /\ address \in Walked /\ called \in Walked /\ Nowhere \in Walked
      /\ Places \subseteq Walked
  BY DEF HookInv, HkTypeOK, Walked
<1>4. hit' \in Walked /\ address' \in Walked
  <2>1. CASE Phase4
    <3>1. hit' \in Walked
      BY <2>1, <1>3 DEF Phase4, PatternHits
    <3> QED
      BY <2>1, <3>1, PlacesKept DEF Phase4
  <2>2. CASE Phase5
    BY <2>2, <1>3, PlacesKept DEF Phase5
  <2>3. CASE Phase6
    BY <2>3, <1>3 DEF Phase6
  <2>4. CASE Phase8
    BY <2>4, <1>3, PlacesKept DEF Phase8
  <2>5. CASE Legacy
    BY <2>5, <1>3, PlacesKept DEF Legacy
  <2> QED
    BY <2>1, <2>2, <2>3, <2>4, <2>5
<1>5. HkTypeOK'
  BY <1>1, <1>2, <1>3, <1>4 DEF HookInv, HkTypeOK
<1>6. StageInv' /\ RawInv' /\ SwitchInv'
  BY <1>1, <1>2 DEF HookInv, StageInv, RawInv, SwitchInv
<1>7. HooksRight'
  BY <1>1, <1>2 DEF HookInv, HooksRight, OnlyEntries, SwitchedOn, SwitchedOff, Inside
<1> QED
  BY <1>5, <1>6, <1>7 DEF HookInv

\* Installation asks .pdata and leaves a mov rax,rsp hook bypassed.
LEMMA HookInstalled ==
    ASSUME HookInv, InitHooks \/ HooksInstalled
    PROVE  HookInv'
<1>1. /\ stage' \in {"arming", "ready"} /\ ~playing /\ ~joined /\ moves = 0
      /\ loading = "done" /\ acking = "done"
      /\ UNCHANGED <<fn, hit, address, raw, called, playing, joined, loading, acking, crossed, moves>>
  BY DEF InitHooks, HooksInstalled, HookInv, StageInv, playVars
<1>2. \/ hook' = "absent"
      \/ /\ fn # "SquadAddMember" /\ ~Inside(address)
         /\ \/ hook' = "on" /\ stage' = "arming"
            \/ hook' = IF address.mov THEN "off" ELSE "on"
  <2>1. CASE InitHooks
    <3>1. hook = "absent"
      BY <2>1 DEF InitHooks, HookInv, StageInv
    <3> QED
      BY <2>1, <3>1 DEF InitHooks, Hookable
  <2>2. CASE HooksInstalled
    BY <2>2 DEF HooksInstalled, Initially, HookInv, StageInv, HooksRight, OnlyEntries
  <2> QED
    BY <2>1, <2>2
<1>3. HkTypeOK'
  BY <1>1, <1>2 DEF HookInv, HkTypeOK
<1>4. StageInv' /\ RawInv' /\ SwitchInv'
  BY <1>1, <1>2 DEF HookInv, StageInv, RawInv, SwitchInv
<1>5. HooksRight'
  BY <1>1, <1>2 DEF HookInv, HooksRight, OnlyEntries, SwitchedOn, SwitchedOff, Inside
<1> QED
  BY <1>3, <1>4, <1>5 DEF HookInv

\* A load: the game thread's part.
LEMMA HookLoads ==
    ASSUME HookInv, OnGameLoaded \/ DeferredResume \/ InstallSquadHooks \/ EnableCreate \/ LoadAnother
    PROVE  HookInv'
<1> USE SessionBoundIsNat
<1>1. CASE OnGameLoaded
  <2>1. /\ stage = "ready" /\ playing' = TRUE /\ loading = "done" /\ loading' = "deferred" /\ ~playing
        /\ moves \in 0 .. SessionBound /\ moves' = moves + 1 /\ moves' \in 0 .. SessionBound /\ moves' # 0
        /\ UNCHANGED <<fn, stage, hit, address, hook, raw, called, joined, acking, crossed>>
    BY <1>1 DEF OnGameLoaded, HookInv, HkTypeOK, scanVars
  <2> QED
    BY <2>1 DEF HookInv, HkTypeOK, StageInv, RawInv, SwitchInv, HooksRight, OnlyEntries, SwitchedOn,
                SwitchedOff, Inside
<1>2. CASE DeferredResume
  <2>1. /\ loading = "deferred" /\ loading' = "squads"
        /\ UNCHANGED <<fn, stage, hit, address, raw, called, playing, joined, acking, crossed, moves>>
    BY <1>2 DEF DeferredResume, scanVars
  <2>2. hook' = IF fn \in (IF joined THEN Combat \cup {"CharacterSpawn"} ELSE {}) /\ hook # "absent"
                THEN "on" ELSE hook
    BY <1>2 DEF DeferredResume, Switch, LoadSwitches
  <2>3. HkTypeOK'
    BY <2>1, <2>2 DEF HookInv, HkTypeOK
  <2>4. StageInv' /\ RawInv' /\ SwitchInv'
    BY <2>1, <2>2 DEF HookInv, HkTypeOK, StageInv, RawInv, SwitchInv, Combat
  <2>5. HooksRight'
    BY <2>1, <2>2 DEF HookInv, StageInv, SwitchInv, HooksRight, OnlyEntries, SwitchedOn, SwitchedOff,
                      Combat, Inside
  <2> QED
    BY <2>3, <2>4, <2>5 DEF HookInv
<1>3. CASE InstallSquadHooks
  <2>1. /\ loading = "squads" /\ loading' = "create"
        /\ raw' = IF fn = "SquadAddMember" THEN Validated(address) ELSE raw
        /\ UNCHANGED <<fn, stage, hit, address, hook, called, playing, joined, acking, crossed, moves>>
    BY <1>3 DEF InstallSquadHooks, scanVars
  <2>2. HkTypeOK'
    BY <2>1 DEF HookInv, HkTypeOK, Validated
  <2>3. StageInv' /\ RawInv' /\ SwitchInv'
    BY <2>1 DEF HookInv, StageInv, RawInv, SwitchInv, Validated, Inside
  <2>4. HooksRight'
    BY <2>1 DEF HookInv, HooksRight, OnlyEntries, SwitchedOn, SwitchedOff, Inside
  <2> QED
    BY <2>2, <2>3, <2>4 DEF HookInv
<1>4. CASE EnableCreate
  <2>1. /\ loading = "create" /\ loading' = "done"
        /\ hook' = IF fn \in {"CharacterSpawn"} /\ hook # "absent" THEN "on" ELSE hook
        /\ UNCHANGED <<fn, stage, hit, address, raw, called, playing, joined, acking, crossed, moves>>
    BY <1>4 DEF EnableCreate, scanVars, Switch
  <2>2. HkTypeOK'
    BY <2>1 DEF HookInv, HkTypeOK
  <2>3. StageInv' /\ RawInv' /\ SwitchInv'
    BY <2>1 DEF HookInv, HkTypeOK, StageInv, RawInv, SwitchInv, Inside, Combat
  <2>4. HooksRight'
    BY <2>1 DEF HookInv, HkTypeOK, SwitchInv, HooksRight, OnlyEntries, SwitchedOn, SwitchedOff, Inside,
                Combat
  <2> QED
    BY <2>2, <2>3, <2>4 DEF HookInv
<1>5. CASE LoadAnother
  BY <1>5 DEF LoadAnother, scanVars, HookInv, HkTypeOK, StageInv, RawInv, SwitchInv, HooksRight,
              OnlyEntries, SwitchedOn, SwitchedOff, Inside
<1> QED
  BY <1>1, <1>2, <1>3, <1>4, <1>5

\* A connection: the network thread's steps, and the game thread's departure,
\* which switches off what must not run without a server.
LEMMA HookConnections ==
    ASSUME HookInv, Join \/ JoinEnablesCombat \/ JoinResumes \/ Leave
    PROVE  HookInv'
<1> USE SessionBoundIsNat
<1>1. CASE Join
  <2>1. /\ stage = "ready" /\ joined' = TRUE /\ acking = "done" /\ acking' = "combat"
        /\ moves \in 0 .. SessionBound /\ moves' = moves + 1 /\ moves' \in 0 .. SessionBound /\ moves' # 0
        /\ UNCHANGED <<fn, stage, hit, address, hook, raw, called, playing, loading, crossed>>
    BY <1>1 DEF Join, HookInv, HkTypeOK, scanVars
  <2>2. HkTypeOK'
    BY <2>1 DEF HookInv, HkTypeOK
  <2>3. StageInv' /\ RawInv'
    BY <2>1 DEF HookInv, StageInv, RawInv, Inside
  <2>5. SwitchInv'
    <3>1. loading # "done" => playing
      BY DEF HookInv, SwitchInv
    <3>2. playing /\ hook = "off" /\ fn = "CharacterSpawn" => loading # "done"
      BY <2>1 DEF HookInv, SwitchInv
    <3> QED
      BY <2>1, <3>1, <3>2 DEF SwitchInv
  <2>4. HooksRight'
    BY <2>1 DEF HookInv, HkTypeOK, SwitchInv, HooksRight, OnlyEntries, SwitchedOn, SwitchedOff, Inside,
                Combat
  <2> QED
    BY <2>2, <2>3, <2>4, <2>5 DEF HookInv
<1>2. CASE JoinEnablesCombat
  <2>1. /\ acking = "combat" /\ acking' = "resume"
        /\ hook' = IF fn \in (IF playing THEN Combat ELSE {}) /\ hook # "absent" THEN "on" ELSE hook
        /\ UNCHANGED <<fn, stage, hit, address, raw, called, playing, joined, loading, crossed, moves>>
    BY <1>2 DEF JoinEnablesCombat, scanVars, Switch
  <2>2. HkTypeOK'
    BY <2>1 DEF HookInv, HkTypeOK
  <2>3. StageInv' /\ RawInv' /\ SwitchInv'
    BY <2>1 DEF HookInv, HkTypeOK, StageInv, RawInv, SwitchInv, Inside, Combat
  <2>4. HooksRight'
    BY <2>1 DEF HookInv, HkTypeOK, SwitchInv, HooksRight, OnlyEntries, SwitchedOn, SwitchedOff, Inside,
                Combat
  <2> QED
    BY <2>2, <2>3, <2>4 DEF HookInv
<1>3. CASE JoinResumes
  <2>1. /\ acking = "resume" /\ acking' = "done"
        /\ hook' = IF fn \in (IF playing THEN {"CharacterSpawn"} ELSE {}) /\ hook # "absent"
                   THEN "on" ELSE hook
        /\ UNCHANGED <<fn, stage, hit, address, raw, called, playing, joined, loading, crossed, moves>>
    BY <1>3 DEF JoinResumes, scanVars, Switch
  <2>2. HkTypeOK'
    BY <2>1 DEF HookInv, HkTypeOK
  <2>3. StageInv' /\ RawInv' /\ SwitchInv'
    BY <2>1 DEF HookInv, HkTypeOK, StageInv, RawInv, SwitchInv, Inside, Combat
  <2>4. HooksRight'
    BY <2>1 DEF HookInv, HkTypeOK, SwitchInv, HooksRight, OnlyEntries, SwitchedOn, SwitchedOff, Inside,
                Combat
  <2> QED
    BY <2>2, <2>3, <2>4 DEF HookInv
<1>4. CASE Leave
  <2>1. /\ joined /\ joined' = FALSE /\ loading = "done" /\ crossed' = (acking # "done")
        /\ hook' = IF fn \in Combat /\ hook # "absent" THEN "off" ELSE hook
        /\ UNCHANGED <<fn, stage, hit, address, raw, called, playing, loading, acking, moves>>
    BY <1>4 DEF Leave, Switch, LeaveSwitches, scanVars
  <2>2. HkTypeOK'
    BY <2>1 DEF HookInv, HkTypeOK
  <2>3. StageInv' /\ RawInv' /\ SwitchInv'
    BY <2>1 DEF HookInv, HkTypeOK, StageInv, RawInv, SwitchInv, Combat
  <2>4. HooksRight'
    BY <2>1 DEF HookInv, HkTypeOK, SwitchInv, HooksRight, OnlyEntries, SwitchedOn, SwitchedOff, Inside,
                Combat
  <2> QED
    BY <2>2, <2>3, <2>4 DEF HookInv
<1> QED
  BY <1>1, <1>2, <1>3, <1>4

\* The pointer that is called instead of hooked.
LEMMA HookRaw ==
    ASSUME HookInv, DiscoverFromVTable \/ InjectIntoSquad
    PROVE  HookInv'
<1>1. CASE DiscoverFromVTable
  <2>1. /\ address' \in Walked /\ ~Inside(address') /\ fn = "SquadAddMember" /\ hook = "absent"
        /\ UNCHANGED <<fn, stage, hit, hook, called, playing, joined, loading, acking, crossed, moves>>
    BY <1>1 DEF DiscoverFromVTable, Virtual, Walked, HookInv, StageInv, playVars
  <2>2. raw' \in {"unknown", "valid", "disabled"}
    BY <1>1 DEF DiscoverFromVTable, Validated, HookInv, HkTypeOK
  <2>3. HkTypeOK'
    BY <2>1, <2>2 DEF HookInv, HkTypeOK
  <2> QED
    BY <2>1, <2>3 DEF HookInv, StageInv, RawInv, SwitchInv, HooksRight, OnlyEntries,
                      SwitchedOn, SwitchedOff, Inside
<1>2. CASE InjectIntoSquad
  <2>1. /\ playing /\ loading = "done" /\ fn = "SquadAddMember" /\ address # Nowhere /\ raw # "disabled"
        /\ called' = address /\ raw' \in {raw, "disabled"}
        /\ UNCHANGED <<fn, stage, hit, address, hook, playing, joined, loading, acking, crossed, moves>>
    BY <1>2 DEF InjectIntoSquad, Callable, scanVars, playVars
  <2>2. ~Inside(address)
    BY <2>1 DEF HookInv, RawInv
  <2>3. HkTypeOK'
    BY <2>1 DEF HookInv, HkTypeOK
  <2> QED
    BY <2>1, <2>2, <2>3 DEF HookInv, StageInv, RawInv, SwitchInv, HooksRight, OnlyEntries,
                            SwitchedOn, SwitchedOff, Inside
<1> QED
  BY <1>1, <1>2

\* The invariant of one hook's life.
LEMMA HookInvariant == HkSpec => []HookInv
<1>1. HkInit => HookInv
  <2> SUFFICES ASSUME HkInit PROVE HookInv
    OBVIOUS
  <2>1. {hit, address, called} \subseteq Walked /\ called.at = "none"
    BY DEF HkInit, Walked, Nowhere
  <2>2. moves \in 0 .. SessionBound
    BY SessionBoundIsNat DEF HkInit
  <2>3. HkTypeOK
    BY <2>1, <2>2 DEF HkInit, HkTypeOK
  <2> QED
    BY <2>1, <2>3 DEF HkInit, HookInv, StageInv, RawInv, SwitchInv, HooksRight, OnlyEntries,
                      SwitchedOn, SwitchedOff, Inside
<1>2. HookInv /\ [HkNext]_hkVars => HookInv'
  <2> SUFFICES ASSUME HookInv, [HkNext]_hkVars PROVE HookInv'
    OBVIOUS
  <2>1. CASE UNCHANGED hkVars
    BY <2>1 DEF hkVars, scanVars, playVars, HookInv, HkTypeOK, StageInv, RawInv, SwitchInv, HooksRight,
                OnlyEntries, SwitchedOn, SwitchedOff, Inside
  <2> QED
    BY <2>1, HookScans, HookInstalled, HookLoads, HookConnections, HookRaw DEF HkNext
<1> QED
  BY <1>1, <1>2, PTL DEF HkSpec

\* For any number of loads and connects, in any order and with their handlers
\* interleaved: whatever the scans took for the function, what is patched or
\* called is not a place that .pdata knows to be inside a function, the hooks
\* play needs are on when both handlers are done, and the ones that must not
\* run are off but after a departure in the middle of a handshake
\* (hook_manager.cpp, squad_hooks.cpp, core.h, packet_handler.cpp).
THEOREM HooksAreRight == HkSpec => []HooksRight
<1>1. HookInv => HooksRight
  BY DEF HookInv
<1> QED
  BY <1>1, HookInvariant, PTL

-----------------------------------------------------------------------------
(* The embedded server.                                                    *)

\* Where the server thread is fixes what it holds and what m_state says, and
\* with it what the game thread may be doing.
WorkerInv ==
    /\ ours <=> worker \in {"loading", "running", "saving", "closing", "closed"}
    /\ worker \in {"mapping", "binding", "loading"} => hostState = "Starting"
    /\ worker \in {"running", "saving", "closing", "closed"} => hostState = "Running" /\ inMemory
    /\ unsaved /\ ~saveFailed => worker \in {"running", "saving"}
    /\ worker \in {"none", "exited"} /\ ui # "reaping" => hostState \in {"Stopped", "Failed"}
    /\ ui = "reaping" => hostState = "Starting" /\ worker \in {"none", "exited"}

\* A request to stop that a running server can see is one that somebody waits for.
StopInv ==
    /\ stopAsked /\ worker \notin {"none", "exited"} => ui \in {"stopping", "leaving"}
    /\ worker \in {"saving", "closing", "closed"} => ui \in {"stopping", "leaving"}
    /\ ui = "gone" => worker = "none"

HostInv == EhTypeOK /\ WorkerInv /\ StopInv /\ ~(ours /\ taken)

\* Steps of the game thread.
LEMMA HostGameThread ==
    ASSUME HostInv,
           OnHostClicked \/ HostCommand \/ Launch \/ Stop("stopping") \/ Stop("leaving") \/ JoinReturns
    PROVE  HostInv'
<1> USE DEF HostInv, WorkerInv, StopInv, machine, content, threads
<1>1. CASE OnHostClicked \/ HostCommand
  <2>1. EhTypeOK'
    BY <1>1, HostAssumption DEF OnHostClicked, HostCommand, StartAsync, EhTypeOK
  <2>2. worker \in {"none", "exited"} /\ ~ours /\ (unsaved => saveFailed)
    BY <1>1 DEF OnHostClicked, HostCommand, StartAsync, EhTypeOK
  <2>3. /\ hostState' = "Starting" /\ ui' = "reaping"
        /\ UNCHANGED <<stopAsked, worker, mapped, ours, taken, inMemory, unsaved, saveFailed>>
    BY <1>1 DEF OnHostClicked, HostCommand, StartAsync
  <2> QED
    BY <2>1, <2>2, <2>3
<1>2. CASE Launch
  BY <1>2 DEF Launch, ClearedStop, EhTypeOK
<1>3. CASE Stop("stopping") \/ Stop("leaving")
  <2>1. /\ ui = "free" /\ ui' \in {"stopping", "leaving"} /\ stopAsked' = TRUE
        /\ UNCHANGED <<hostState, worker, mapped, ours, taken, inMemory, unsaved, saveFailed, hosted>>
    BY <1>3 DEF Stop
  <2> QED
    BY <2>1 DEF EhTypeOK
<1>4. CASE JoinReturns
  BY <1>4 DEF JoinReturns, IsActive, EhTypeOK
<1> QED
  BY <1>1, <1>2, <1>3, <1>4

\* Steps of the server thread, and of other programs on the machine.
LEMMA HostServerThread ==
    ASSUME HostInv, WorkerStep \/ UpdateServer(TRUE) \/ UpdateServer(FALSE) \/ PortChanges
    PROVE  HostInv'
<1> USE DEF HostInv, WorkerInv, StopInv, EhTypeOK, machine, content, threads
<1>1. CASE AddMapping
  BY <1>1 DEF AddMapping
<1>2. CASE Bind
  BY <1>2 DEF Bind, AfterBind, BoundState
<1>3. CASE LoadWorld
  BY <1>3 DEF LoadWorld
<1>4. CASE LeaveLoop
  BY <1>4 DEF LeaveLoop
<1>5. CASE SaveWorld
  BY <1>5 DEF SaveWorld, Save
<1>6. CASE CloseServer
  BY <1>6 DEF CloseServer, ClosingState
<1>7. CASE SocketCloses
  BY <1>7 DEF SocketCloses
<1>8. CASE UpdateServer(TRUE) \/ UpdateServer(FALSE)
  <2>1. /\ worker = "running" /\ ~stopAsked /\ unsaved' \in BOOLEAN /\ saveFailed' \in BOOLEAN
        /\ UNCHANGED <<hostState, stopAsked, worker, ui, hosted, mapped, ours, taken, inMemory>>
    BY <1>8 DEF UpdateServer, Save
  <2> QED
    BY <2>1
<1>9. CASE PortChanges
  BY <1>9 DEF PortChanges
<1> QED
  BY <1>1, <1>2, <1>3, <1>4, <1>5, <1>6, <1>7, <1>8, <1>9 DEF WorkerStep

\* The invariant of hosting.
LEMMA HostInvariant == EhInit /\ [][EhNext]_ehVars => []HostInv
<1>1. EhInit => HostInv
  <2> SUFFICES ASSUME EhInit PROVE HostInv
    OBVIOUS
  <2>1. hosted \in 0 .. HostBound
    BY HostAssumption DEF EhInit
  <2>2. EhTypeOK
    BY <2>1 DEF EhInit, EhTypeOK
  <2> QED
    BY <2>2 DEF EhInit, HostInv, WorkerInv, StopInv
<1>2. HostInv /\ [EhNext]_ehVars => HostInv'
  <2> SUFFICES ASSUME HostInv, [EhNext]_ehVars PROVE HostInv'
    OBVIOUS
  <2>1. CASE UNCHANGED ehVars
    BY <2>1 DEF ehVars, HostInv, EhTypeOK, WorkerInv, StopInv
  <2> QED
    BY <2>1, HostGameThread, HostServerThread DEF EhNext
<1> QED
  BY <1>1, <1>2, PTL

\* What m_state tells the game thread is complete, however starts, stops and the
\* server thread interleave: Running means bound and loaded, Stopped and Failed
\* mean that our socket is closed and that nothing was lost unless the last save
\* failed (embedded_server.cpp, server.cpp).
THEOREM HostIsSound == EhSpec => []HostSound
<1>1. HostInv => HostSound
  BY DEF HostInv, EhTypeOK, WorkerInv, StopInv, HostSound, IsActive
<1> QED
  BY <1>1, HostInvariant, PTL DEF EhSpec

-----------------------------------------------------------------------------
(* The loading gate.                                                       *)

\* The gate notes every end of a load, and between the two reads of a test
\* only the loader thread moves: what is pending then was requested meanwhile.
GateInv ==
    /\ LgTypeOK
    /\ doneAge = endAge
    /\ test = "cooldown" => orchLoaded /\ ~inBurst /\ pendingRes \subseteq fresh

\* Reports of the loader thread.
LEMMA GateLoader ==
    ASSUME GateInv, NEW r \in Resources, OnResourceRequested(r) \/ OnResourceLoaded(r)
    PROVE  GateInv'
<1> USE GateAssumption DEF GateInv, LgTypeOK, timer, ages, orch, queue
<1>1. CASE OnResourceRequested(r)
  BY <1>1 DEF OnResourceRequested, Begins
<1>2. CASE OnResourceLoaded(r)
  BY <1>2 DEF OnResourceLoaded, ResourceDone
<1> QED
  BY <1>1, <1>2

\* Reports and ticks of the game thread, which is not in a test then.
LEMMA GateReports ==
    ASSUME GateInv,
           OnBurstDetected \/ OnBurstEnded \/ OnWorldLoaded \/ WorldUnloads
             \/ OnZoneLoadStart \/ OnZoneLoadEnd \/ GateTick
    PROVE  GateInv'
<1> USE GateAssumption DEF GateInv, LgTypeOK, timer, ages, orch, queue, GameThread, Begins
<1>1. CASE OnBurstDetected
  BY <1>1 DEF OnBurstDetected
<1>2. CASE OnBurstEnded
  <2>1. 0 \in 0 .. Cooldown
    OBVIOUS
  <2> QED
    BY <1>2, <2>1 DEF OnBurstEnded, Settled
<1>3. CASE OnWorldLoaded
  BY <1>3 DEF OnWorldLoaded
<1>4. CASE WorldUnloads
  <2>1. begun' \in 0 .. LoadEvents
    BY <1>4 DEF WorldUnloads
  <2> QED
    BY <1>4, <2>1 DEF WorldUnloads
<1>5. CASE OnZoneLoadStart
  BY <1>5 DEF OnZoneLoadStart
<1>6. CASE OnZoneLoadEnd
  BY <1>6 DEF OnZoneLoadEnd
<1>7. CASE GateTick
  BY <1>7 DEF GateTick, BurstTimesOut, Settled
<1> QED
  BY <1>1, <1>2, <1>3, <1>4, <1>5, <1>6, <1>7

\* The test, what follows it, and time.
LEMMA GateTests ==
    ASSUME GateInv,
           TestBegins \/ TestEnds \/ QueueServes(TRUE) \/ QueueServes(FALSE) \/ Blocked
             \/ QueueSpawn \/ Unbind \/ TimePasses
    PROVE  GateInv'
<1> USE GateAssumption DEF GateInv, LgTypeOK, timer, ages, orch, queue, GameThread, Begins
<1>1. CASE TestBegins
  BY <1>1 DEF TestBegins, SafeReads, NoLoadRuns
<1>2. CASE TestEnds
  BY <1>2 DEF TestEnds
<1>3. CASE QueueServes(TRUE) \/ QueueServes(FALSE)
  BY <1>3 DEF QueueServes
<1>4. CASE Blocked
  BY <1>4 DEF Blocked, BlockTimer
<1>5. CASE QueueSpawn
  BY <1>5 DEF QueueSpawn
<1>6. CASE Unbind
  BY <1>6 DEF Unbind
<1>7. CASE TimePasses
  BY <1>7 DEF TimePasses, Older
<1> QED
  BY <1>1, <1>2, <1>3, <1>4, <1>5, <1>6, <1>7

\* The invariant of the gate.
LEMMA GateInvariant == LgInit /\ [][LgNext]_lgVars => []GateInv
<1>1. LgInit => GateInv
  <2> SUFFICES ASSUME LgInit PROVE GateInv
    OBVIOUS
  <2>1. /\ burstAge \in 0 .. BurstTimeout /\ zoneAge \in 0 .. ZoneSettle
        /\ blockAge \in 0 .. ForceAfter /\ begun \in 0 .. LoadEvents
    BY GateAssumption DEF LgInit
  <2>2. doneAge \in 0 .. Cooldown /\ endAge = doneAge
    BY GateAssumption DEF LgInit
  <2> QED
    BY <2>1, <2>2 DEF LgInit, GateInv, LgTypeOK
<1>2. GateInv /\ [LgNext]_lgVars => GateInv'
  <2> SUFFICES ASSUME GateInv, [LgNext]_lgVars PROVE GateInv'
    OBVIOUS
  <2>1. CASE UNCHANGED lgVars
    BY <2>1 DEF lgVars, GateInv, LgTypeOK
  <2> QED
    BY <2>1, GateLoader, GateReports, GateTests DEF LgNext
<1> QED
  BY <1>1, <1>2, PTL

\* The answer "open" is given only by the second read of a test.
LEMMA OpensAtEnd ==
    ASSUME [LgNext]_lgVars, test' = "open", test # "open"
    PROVE  TestEnds
<1> USE DEF timer, ages, orch, queue
<1>1. test' # test
  OBVIOUS
<1>2. ~(\E r \in Resources : OnResourceRequested(r) \/ OnResourceLoaded(r))
  BY <1>1 DEF OnResourceRequested, OnResourceLoaded
<1>3. ~(OnBurstDetected \/ OnBurstEnded \/ OnWorldLoaded \/ WorldUnloads
          \/ OnZoneLoadStart \/ OnZoneLoadEnd \/ GateTick)
  BY <1>1 DEF OnBurstDetected, OnBurstEnded, OnWorldLoaded, WorldUnloads, OnZoneLoadStart,
              OnZoneLoadEnd, GateTick
<1>4. ~(TestBegins \/ QueueServes(TRUE) \/ QueueServes(FALSE) \/ Blocked)
  BY DEF TestBegins, QueueServes, Blocked
<1>5. ~(QueueSpawn \/ Unbind \/ TimePasses)
  BY <1>1 DEF QueueSpawn, Unbind, TimePasses
<1>6. ~UNCHANGED lgVars
  BY <1>1 DEF lgVars
<1> QED
  BY <1>2, <1>3, <1>4, <1>5, <1>6 DEF LgNext

\* The gate answers "open" only when the world is loaded, no burst runs, every
\* resource requested before the test is finished and the whole cooldown has
\* passed, whatever the loader thread reports during the test and for any
\* lengths of the timers (loading_orchestrator.cpp).
THEOREM GateIsHonest == LgSpec => GateHonest
<1>1. GateInv /\ [LgNext]_lgVars =>
        [test' = "open" /\ test # "open" =>
            endAge = Cooldown /\ orchLoaded /\ ~inBurst /\ pendingRes \subseteq fresh]_lgVars
  BY OpensAtEnd DEF GateInv, TestEnds, SafeReads, CooledDown
<1> QED
  BY <1>1, GateInvariant, PTL DEF LgSpec, GateHonest

-----------------------------------------------------------------------------
(* The search for PlayerBase.                                              *)

\* The first candidate that a check accepts is a global that passes it.
LEMMA FirstOfPasses ==
    ASSUME NEW near \in Candidates, NEW m \in [Addresses -> Values], NEW ok
    PROVE  \/ FirstOf(near, m, ok) = None
           \/ /\ FirstOf(near, m, ok) \in Slots
              /\ m[FirstOf(near, m, ok)] \in ok
<1> DEFINE good == {i \in DOMAIN near : m[near[i]] \in ok}
           first == CHOOSE i \in good : \A j \in good : i <= j
<1>1. PICK S \in SUBSET Slots : near \in [1 .. Cardinality(S) -> S]
  BY DEF Candidates, Orders
<1>2. Cardinality(S) \in Nat
  BY ImageIsFinite, FS_Subset, FS_CardinalityType
<1>3. good \subseteq Nat
  BY <1>1, <1>2
<1>4. CASE good = {}
  BY <1>4 DEF FirstOf
<1>5. CASE good # {}
  <2>1. \E i \in good : \A j \in good : i <= j
    BY <1>3, <1>5, LeastExists
  <2>2. first \in good
    BY <2>1
  <2>3. FirstOf(near, m, ok) = near[first]
    BY <1>5 DEF FirstOf
  <2> HIDE DEF first
  <2>4. near[first] \in Slots /\ m[near[first]] \in ok
    BY <1>1, <2>2
  <2> QED
    BY <2>3, <2>4
<1> QED
  BY <1>4, <1>5

\* Code bytes never look like a pointer, and a load is noticed after start-up.
GlobalInv ==
    /\ GpTypeOK /\ GlobalsRight
    /\ mem["code"] = "junk"
    /\ gameLoaded => started

\* A retry ends at an address that passes the strict check, or nowhere; it ends
\* nowhere only if no candidate passes.
LEMMA RetryFinds ==
    ASSUME candidates \in Candidates, mem \in [Addresses -> Values], NEW p \in Addresses \cup {None}
    PROVE  LET again == RetryGlobalDiscovery(p, mem)
           IN  /\ again \in Addresses \cup {None}
               /\ again # None => mem[again] = "object"
               /\ again = None => FirstOf(candidates, mem, Strict) = None
<1>1. \/ FirstOf(candidates, mem, Strict) = None
      \/ /\ FirstOf(candidates, mem, Strict) \in Slots
         /\ mem[FirstOf(candidates, mem, Strict)] \in Strict
  BY FirstOfPasses
<1>2. CASE At(mem, p) \in Strict
  <2>1. p # None
    BY <1>2 DEF At, Strict
  <2>2. RetryGlobalDiscovery(p, mem) = p /\ mem[p] = "object"
    BY <1>2, <2>1 DEF RetryGlobalDiscovery, At, Strict
  <2> QED
    BY <2>1, <2>2
<1>3. CASE At(mem, p) \notin Strict
  <2>1. RetryGlobalDiscovery(p, mem) = FirstOf(candidates, mem, Strict)
    BY <1>3 DEF RetryGlobalDiscovery
  <2> QED
    BY <1>1, <2>1 DEF Strict, Addresses
<1> QED
  BY <1>2, <1>3

\* What OnGameLoaded keeps is alive; it keeps nothing only if nothing is.  The
\* copy goes with it.
LEMMA ReloadedFinds ==
    ASSUME candidates \in Candidates, mem \in [Addresses -> Values], NEW p \in Addresses \cup {None},
           NEW fine \in BOOLEAN, NEW b, p # None => b = p
    PROVE  /\ Reloaded(p, fine) \in Addresses \cup {None}
           /\ Reloaded(p, fine) # None => mem[Reloaded(p, fine)] \in Weak
           /\ Reloaded(p, fine) = None => FirstOf(candidates, mem, Strict) = None
           /\ Copied(p, fine, b) = IF Reloaded(p, fine) = None THEN b ELSE Reloaded(p, fine)
<1> DEFINE again == RetryGlobalDiscovery(p, mem)
<1>1. /\ again \in Addresses \cup {None}
      /\ again # None => mem[again] = "object"
      /\ again = None => FirstOf(candidates, mem, Strict) = None
  BY RetryFinds
<1> HIDE DEF again
<1>2. Reloaded(p, fine) = IF At(mem, p) \in Weak /\ fine THEN p
                          ELSE IF At(mem, again) \in Weak THEN again ELSE None
  BY DEF Reloaded, again
<1>3. CASE At(mem, p) \in Weak /\ fine
  <2>1. p # None
    BY <1>3 DEF At, Weak
  <2>2. Reloaded(p, fine) = p /\ Copied(p, fine, b) = b
    BY <1>2, <1>3 DEF Copied
  <2> QED
    BY <1>3, <2>1, <2>2 DEF At
<1>4. CASE ~(At(mem, p) \in Weak /\ fine)
  <2>1. /\ Reloaded(p, fine) = IF At(mem, again) \in Weak THEN again ELSE None
        /\ Copied(p, fine, b) = IF Reloaded(p, fine) = None THEN b ELSE Reloaded(p, fine)
    BY <1>2, <1>4 DEF Copied, Bridged
  <2> QED
    BY <1>1, <2>1 DEF At, Weak
<1> QED
  BY <1>3, <1>4

\* Start-up: whatever the phases resolved, validation rejects code.
LEMMA GlobalStartUp ==
    ASSUME GlobalInv, InitScanner
    PROVE  GlobalInv'
<1>0. PICK b \in Binaries : /\ resolved' = Run(b, mem)
                            /\ playerBase' = ValidateSingleton(ResolveGameFunctions(b, resolved', mem), mem)
  BY DEF InitScanner
<1>1. /\ mem \in [Addresses -> Values]
      /\ b.rva \in Slots /\ b.near \in Candidates /\ b.wide \in Candidates
  BY DEF GlobalInv, GpTypeOK, Binaries
<1>2. \A ok : /\ FirstOf(b.near, mem, ok) \in Slots \cup {None}
              /\ FirstOf(b.wide, mem, ok) \in Slots \cup {None}
  BY <1>1, FirstOfPasses
<1>3. resolved' \in Addresses \cup {None}
  BY <1>0, <1>1, <1>2 DEF Run, GlobalPhase8, Phase7, GlobalPhase6, GlobalPhase5, Addresses
<1>4. ResolveGameFunctions(b, resolved', mem) \in Addresses \cup {None}
  BY <1>1, <1>2, <1>3 DEF ResolveGameFunctions, Addresses
<1>5. playerBase' \in Addresses \cup {None} /\ playerBase' # "code"
  <2> DEFINE q == ResolveGameFunctions(b, resolved', mem)
  <2>1. playerBase' = IF At(mem, q) \in Singleton THEN q ELSE None
    BY <1>0 DEF ValidateSingleton
  <2> HIDE DEF q
  <2>2. At(mem, "code") \notin Singleton /\ None # "code"
    BY NoneIsNoSlot DEF At, GlobalInv, Singleton
  <2>3. q \in Addresses \cup {None}
    BY <1>4 DEF q
  <2> QED
    BY <2>1, <2>2, <2>3
<1>6. /\ started' = TRUE /\ bridge' = playerBase' /\ gameLoaded = FALSE
      /\ UNCHANGED <<candidates, mem, gameLoaded, list, loads>>
  BY DEF InitScanner, GlobalInv, GpTypeOK
<1>7. GpTypeOK'
  BY <1>3, <1>5, <1>6 DEF GlobalInv, GpTypeOK
<1> QED
  BY <1>5, <1>6, <1>7 DEF GlobalInv, GlobalsRight, NeverCode, BridgeAgrees, Recovered

\* Polls and ticks put the address and its copy to the same live place.
LEMMA GlobalLooks ==
    ASSUME GlobalInv, PollForGameLoad \/ TickNoticesLoad
    PROVE  GlobalInv'
<1>1. /\ candidates \in Candidates /\ mem \in [Addresses -> Values] /\ mem["code"] = "junk"
      /\ playerBase \in Addresses \cup {None} /\ bridge \in Addresses \cup {None} /\ started
      /\ bridge # "code" /\ None \notin Addresses /\ "code" \in Addresses /\ started = TRUE
      /\ playerBase # None => bridge = playerBase
  BY NoneIsNoSlot DEF GlobalInv, GpTypeOK, PollForGameLoad, TickNoticesLoad, GlobalsRight,
                      NeverCode, BridgeAgrees, Addresses
<1>2. UNCHANGED <<candidates, mem, started, resolved, list, loads>>
  BY DEF PollForGameLoad, TickNoticesLoad
<1>3. ASSUME NEW p \in Addresses \cup {None}, NEW b \in Addresses \cup {None}, b # "code",
             p # None => b = p, NEW fine \in BOOLEAN,
             gameLoaded' = TRUE, playerBase' = Reloaded(p, fine), bridge' = Copied(p, fine, b)
      PROVE  GlobalInv'
  <2>1. /\ playerBase' \in Addresses \cup {None}
        /\ playerBase' # None => mem[playerBase'] \in Weak
        /\ playerBase' = None => FirstOf(candidates, mem, Strict) = None
        /\ bridge' = IF playerBase' = None THEN b ELSE playerBase'
    BY <1>1, <1>3, ReloadedFinds
  <2>2. playerBase' # "code" /\ bridge' \in Addresses \cup {None} /\ bridge' # "code"
    BY <1>1, <1>3, <2>1 DEF Weak
  <2>3. GpTypeOK'
    BY <1>2, <1>3, <2>1, <2>2 DEF GlobalInv, GpTypeOK
  <2>4. Recovered'
    BY <1>1, <1>2, <1>3, <2>1 DEF Recovered, At
  <2> QED
    BY <1>1, <1>2, <2>1, <2>2, <2>3, <2>4 DEF GlobalInv, GlobalsRight, NeverCode, BridgeAgrees
<1>4. CASE PollForGameLoad
  <2> DEFINE found == RetryGlobalDiscovery(playerBase, mem)
             seen == IF At(mem, found) \in Weak THEN Bridged(found, bridge) ELSE bridge
  <2>1. /\ found \in Addresses \cup {None} /\ (found # None => mem[found] = "object")
    BY <1>1, RetryFinds
  <2>2. \/ playerBase' = found /\ bridge' = seen /\ UNCHANGED gameLoaded
        \/ /\ gameLoaded' = TRUE
           /\ \E fine \in BOOLEAN : playerBase' = Reloaded(found, fine) /\ bridge' = Copied(found, fine, seen)
    BY <1>4 DEF PollForGameLoad
  <2> HIDE DEF found
  <2>3. /\ found # "code" /\ seen \in Addresses \cup {None} /\ seen # "code"
        /\ (found # None => seen = found)
    BY <1>1, <2>1 DEF At, Weak, Bridged
  <2> HIDE DEF seen
  <2>4. CASE playerBase' = found /\ bridge' = seen /\ UNCHANGED gameLoaded
    <3>1. gameLoaded' = FALSE
      BY <1>4, <2>4 DEF PollForGameLoad, GlobalInv, GpTypeOK
    <3>2. GpTypeOK'
      BY <1>2, <2>1, <2>3, <2>4 DEF GlobalInv, GpTypeOK
    <3> QED
      BY <1>1, <1>2, <2>1, <2>3, <2>4, <3>1, <3>2 DEF GlobalInv, GlobalsRight, NeverCode, BridgeAgrees,
                                           Recovered
  <2> QED
    BY <1>3, <2>1, <2>2, <2>3, <2>4
<1>5. CASE TickNoticesLoad
  <2>1. PICK fine \in BOOLEAN : /\ gameLoaded' = TRUE /\ playerBase' = Reloaded(playerBase, fine)
                                /\ bridge' = Copied(playerBase, fine, bridge)
    BY <1>5 DEF TickNoticesLoad
  <2> QED
    BY <1>1, <1>3, <2>1
<1> QED
  BY <1>4, <1>5

\* The invariant of the search.
LEMMA GlobalInvariant == GpSpec => []GlobalInv
<1>1. GpInit => GlobalInv
  <2> SUFFICES ASSUME GpInit PROVE GlobalInv
    OBVIOUS
  <2>1. loads \in 0 .. LoadBound
    BY ImageIsFinite DEF GpInit
  <2>2. GpTypeOK
    BY <2>1 DEF GpInit, GpTypeOK, MenuMemory
  <2> QED
    BY <2>2 DEF GpInit, GlobalInv, GlobalsRight, NeverCode, BridgeAgrees, Recovered, MenuMemory
<1>2. GlobalInv /\ [GpNext]_gpVars => GlobalInv'
  <2> SUFFICES ASSUME GlobalInv, [GpNext]_gpVars PROVE GlobalInv'
    OBVIOUS
  <2>1. CASE GameLoads
    <3>1. loads' \in 0 .. LoadBound
      BY <2>1, ImageIsFinite DEF GameLoads, GlobalInv, GpTypeOK
    <3>2. mem' \in [Addresses -> Values] /\ mem'["code"] = "junk"
      BY <2>1 DEF GameLoads
    <3>3. gameLoaded' = FALSE /\ UNCHANGED <<candidates, started, resolved, playerBase, bridge, list>>
      BY <2>1 DEF GameLoads
    <3> QED
      BY <3>1, <3>2, <3>3 DEF GlobalInv, GpTypeOK, GlobalsRight, NeverCode, BridgeAgrees, Recovered
  <2>2. CASE IteratorReset
    BY <2>2 DEF IteratorReset, Walkable, GlobalInv, GpTypeOK, GlobalsRight, NeverCode,
                BridgeAgrees, Recovered, At
  <2>3. CASE UNCHANGED gpVars
    BY <2>3 DEF gpVars, GlobalInv, GpTypeOK, GlobalsRight, NeverCode, BridgeAgrees, Recovered, At
  <2> QED
    BY <2>1, <2>2, <2>3, GlobalStartUp, GlobalLooks DEF GpNext
<1> QED
  BY <1>1, <1>2, PTL DEF GpSpec

\* For any image, any contents of memory and any number of loads: PlayerBase and
\* its copy never name code, never differ, and are alive once a load is noticed
\* if any candidate is (core.cpp InitScanner, PollForGameLoad, OnGameLoaded).
THEOREM GlobalsAreRight == GpSpec => []GlobalsRight
<1>1. GlobalInv => GlobalsRight
  BY DEF GlobalInv
<1> QED
  BY <1>1, GlobalInvariant, PTL

-----------------------------------------------------------------------------
(* The public server list.                                                 *)

MasterMail == {"register", "heartbeat", "deregister"}

ListEntry == [peer : Links, silence : 0 .. (SilenceLimit + 1)]

HeartbeatsFrom(n, q) == \A i \in n .. Len(q) : q[i] = "heartbeat"

\* The server is filed under its present link, and a heartbeat that is missing
\* is due or under way.
Filed(s) ==
    /\ filedAs[s] \in DOMAIN listed
    /\ listed[filedAs[s]].peer = peerOf[s]
    /\ listed[filedAs[s]].silence \in {0, 1}
    /\ listed[filedAs[s]].silence = 1 => s \in due \/ mail[peerOf[s]] # <<>>

\* On a link that is alive the registration comes first, then only heartbeats;
\* what came of it stays, unless another server stands in the way.
RegisteredOrAboutTo(s) ==
    \/ /\ mail[peerOf[s]] # <<>> /\ Head(mail[peerOf[s]]) = "register"
       /\ HeartbeatsFrom(2, mail[peerOf[s]])
    \/ (s \in displaced \/ Filed(s)) /\ HeartbeatsFrom(1, mail[peerOf[s]])

MasterTypes ==
    /\ MlTypeOK
    /\ Len(sender) <= LinkBound
    /\ mail \in [Links -> Seq(MasterMail)]
    /\ \A k \in DOMAIN listed : listed[k] \in ListEntry

\* A server's link is one it opened, and its older links are silent.
LinkInv ==
    /\ \A s \in GameServers : peerOf[s] # NoLink =>
          s \in running /\ peerOf[s] \in 1 .. Len(sender) /\ sender[peerOf[s]] = s
    /\ \A s \in GameServers : upAt[s] => peerOf[s] # NoLink
    /\ \A l \in 1 .. Len(sender) :
          peerOf[sender[l]] \notin {NoLink, l} => mail[l] = <<>>

MasterInv ==
    /\ MasterTypes /\ LinkInv /\ NoOrphans
    /\ \A s \in GameServers : LiveLink(s) => RegisteredOrAboutTo(s)

\* The properties the run checks follow.
LEMMA MasterMeaning == MasterInv => ListingRight
<1> SUFFICES ASSUME MasterInv PROVE ListingRight
  OBVIOUS
<1>1. LiveListed
  BY DEF MasterInv, RegisteredOrAboutTo, Filed, LiveListed
<1> QED
  BY <1>1 DEF MasterInv, ListingRight

\* A heartbeat joins the queue; the head leaves it.
LEMMA HeartbeatQueue ==
    ASSUME NEW q \in Seq(MasterMail)
    PROVE  /\ \A n \in {1, 2} : HeartbeatsFrom(n, q) => HeartbeatsFrom(n, Append(q, "heartbeat"))
           /\ q # <<>> => Head(Append(q, "heartbeat")) = Head(q)
           /\ Append(q, "heartbeat") # <<>> /\ Append(q, "deregister") # <<>>
           /\ \A m \in MasterMail : Append(q, m) \in Seq(MasterMail)
           /\ q # <<>> => /\ Tail(q) \in Seq(MasterMail) /\ Head(q) \in MasterMail
                          /\ HeartbeatsFrom(2, q) => HeartbeatsFrom(1, Tail(q))
                          /\ HeartbeatsFrom(1, q) => Head(q) = "heartbeat" /\ HeartbeatsFrom(2, q)
<1>1. \A n \in {1, 2} : HeartbeatsFrom(n, q) => HeartbeatsFrom(n, Append(q, "heartbeat"))
  <2> DEFINE r == Append(q, "heartbeat")
  <2>1. Len(r) = Len(q) + 1 /\ r[Len(q) + 1] = "heartbeat" /\ \A i \in 1 .. Len(q) : r[i] = q[i]
    OBVIOUS
  <2> HIDE DEF r
  <2>2. \A n \in {1, 2} : \A i \in n .. Len(r) : i = Len(q) + 1 \/ i \in n .. Len(q)
    BY <2>1
  <2>3. \A n \in {1, 2} : \A i \in n .. Len(q) : i \in 1 .. Len(q)
    OBVIOUS
  <2> QED
    BY <2>1, <2>2, <2>3 DEF HeartbeatsFrom, r
<1>2. /\ q # <<>> => Head(Append(q, "heartbeat")) = Head(q)
      /\ Append(q, "heartbeat") # <<>> /\ Append(q, "deregister") # <<>>
      /\ \A m \in MasterMail : Append(q, m) \in Seq(MasterMail)
  OBVIOUS
<1>3. ASSUME q # <<>>
      PROVE  /\ Tail(q) \in Seq(MasterMail) /\ Head(q) \in MasterMail
             /\ HeartbeatsFrom(2, q) => HeartbeatsFrom(1, Tail(q))
             /\ HeartbeatsFrom(1, q) => Head(q) = "heartbeat" /\ HeartbeatsFrom(2, q)
  <2>1. /\ Tail(q) \in Seq(MasterMail) /\ Head(q) \in MasterMail /\ Head(q) = q[1]
        /\ Len(Tail(q)) = Len(q) - 1 /\ Len(q) \in Nat \ {0}
        /\ \A i \in 1 .. Len(q) - 1 : Tail(q)[i] = q[i + 1]
    BY <1>3
  <2>2. HeartbeatsFrom(2, q) => HeartbeatsFrom(1, Tail(q))
    BY <2>1 DEF HeartbeatsFrom
  <2> QED
    BY <2>1, <2>2 DEF HeartbeatsFrom
<1> QED
  BY <1>1, <1>2, <1>3

\* Two servers never share a link.
LEMMA LinksDiffer ==
    ASSUME LinkInv, NEW s \in GameServers, NEW t \in GameServers, s # t, peerOf[s] # NoLink
    PROVE  peerOf[s] # peerOf[t]
BY DEF LinkInv

\* A server opens a link: at the start or when it reconnects.
LEMMA MasterOpens ==
    ASSUME MasterInv, NEW s \in GameServers, ConnectToMaster(s) \/ Reconnect(s)
    PROVE  MasterInv'
<1> DEFINE n == Len(sender) + 1
<1>1. /\ sender \in Seq(GameServers) /\ Len(sender) < LinkBound /\ n \in Links /\ n # NoLink
      /\ peerOf[s] = NoLink /\ ~upAt[s]
      /\ \A l \in 1 .. Len(sender) : sender[l] = s => mail[l] = <<>>
  BY LinkBoundIsNat, NoLinkIsNone DEF MasterInv, MasterTypes, MlTypeOK, LinkInv, ConnectToMaster, Reconnect,
                                      OpenLink, Links
<1>2. /\ sender' = Append(sender, s) /\ peerOf' = [peerOf EXCEPT ![s] = n]
      /\ UNCHANGED <<open, mail, listed, displaced>>
      /\ running' = running \cup {s} /\ masterHost' = masterHost \cup {s} /\ due' \in {due, due \ {s}}
      /\ filedAs' \in [GameServers -> Keys] /\ \A t \in GameServers \ {s} : filedAs'[t] = filedAs[t]
  <2>1. running \subseteq GameServers /\ masterHost \subseteq running /\ filedAs \in [GameServers -> Keys]
    BY DEF MasterInv, MasterTypes, MlTypeOK
  <2>2. CASE ConnectToMaster(s)
    <3>1. PICK k \in {PeerKey[s], OuterKey[s]} : filedAs' = [filedAs EXCEPT ![s] = k]
      BY <2>2 DEF ConnectToMaster
    <3>2. k \in Keys
      BY KeysOfServers
    <3>3. filedAs' \in [GameServers -> Keys] /\ \A t \in GameServers \ {s} : filedAs'[t] = filedAs[t]
      BY <2>1, <3>1, <3>2
    <3> QED
      BY <2>2, <3>3 DEF ConnectToMaster, OpenLink
  <2>3. CASE Reconnect(s)
    BY <2>1, <2>3 DEF Reconnect, OpenLink, atStart
  <2> QED
    BY <2>2, <2>3
<1>3. upAt' = [upAt EXCEPT ![s] = FALSE] /\ upAt \in [GameServers -> BOOLEAN]
  BY <1>1 DEF ConnectToMaster, Reconnect, MasterInv, MasterTypes, MlTypeOK
<1>4. delay' \in [GameServers -> FirstDelay .. MaxDelay]
  <2>1. delay \in [GameServers -> FirstDelay .. MaxDelay]
    BY DEF MasterInv, MasterTypes, MlTypeOK
  <2>2. \A d \in FirstDelay .. MaxDelay : NextDelay(d) \in FirstDelay .. MaxDelay
    BY DEF NextDelay, FirstDelay, MaxDelay
  <2>3. FirstDelay \in FirstDelay .. MaxDelay
    BY DEF FirstDelay, MaxDelay
  <2> QED
    BY <2>1, <2>2, <2>3 DEF ConnectToMaster, Reconnect
<1>5. /\ sender' \in Seq(GameServers) /\ Len(sender') = n /\ sender'[n] = s
      /\ \A l \in 1 .. Len(sender) : sender'[l] = sender[l] /\ sender[l] \in GameServers
  BY <1>1, <1>2
<1>6. peerOf'[s] = n /\ \A t \in GameServers \ {s} : peerOf'[t] = peerOf[t]
  BY <1>2 DEF MasterInv, MasterTypes, MlTypeOK
<1>7. upAt'[s] = FALSE /\ \A t \in GameServers \ {s} : upAt'[t] = upAt[t]
  BY <1>3
<1> HIDE DEF n
<1>8. n = Len(sender) + 1 /\ Len(sender) \in Nat
  BY <1>1 DEF n
<1>9. MasterTypes'
  <2>1. open' \subseteq 1 .. Len(sender')
    BY <1>2, <1>5, <1>8 DEF MasterInv, MasterTypes, MlTypeOK
  <2>2. peerOf' \in [GameServers -> Links \cup {NoLink}] /\ upAt' \in [GameServers -> BOOLEAN]
    BY <1>1, <1>2, <1>3 DEF MasterInv, MasterTypes, MlTypeOK
  <2>3. Len(sender') <= LinkBound
    BY <1>1, <1>5, <1>8, LinkBoundIsNat
  <2> QED
    BY <1>2, <1>4, <1>5, <2>1, <2>2, <2>3 DEF MasterInv, MasterTypes, MlTypeOK
<1>10. LinkInv'
  <2>1. \A t \in GameServers : peerOf'[t] # NoLink =>
           t \in running' /\ peerOf'[t] \in 1 .. Len(sender') /\ sender'[peerOf'[t]] = t
    BY <1>1, <1>2, <1>5, <1>6, <1>8 DEF MasterInv, LinkInv
  <2>2. \A t \in GameServers : upAt'[t] => peerOf'[t] # NoLink
    BY <1>6, <1>7 DEF MasterInv, LinkInv
  <2>3. ASSUME NEW l \in 1 .. Len(sender'), peerOf'[sender'[l]] \notin {NoLink, l}
        PROVE  mail'[l] = <<>>
    <3>1. l # n
      BY <2>3, <1>5, <1>6
    <3>2. l \in 1 .. Len(sender) /\ sender'[l] = sender[l] /\ sender[l] \in GameServers
      BY <3>1, <1>5, <1>8
    <3> QED
      BY <1>1, <1>2, <1>6, <2>3, <3>2 DEF MasterInv, LinkInv
  <2> QED
    BY <2>1, <2>2, <2>3 DEF LinkInv
<1>11. ASSUME NEW t \in GameServers, LiveLink(t)' PROVE RegisteredOrAboutTo(t)'
  <2>1. t # s /\ LiveLink(t) /\ peerOf'[t] = peerOf[t]
    BY <1>2, <1>6, <1>7, <1>11 DEF LiveLink
  <2>2. t \in due' <=> t \in due
    BY <1>2, <2>1
  <2>3. RegisteredOrAboutTo(t) /\ filedAs'[t] = filedAs[t]
    BY <1>2, <2>1 DEF MasterInv
  <2> QED
    BY <1>2, <2>1, <2>2, <2>3 DEF RegisteredOrAboutTo, Filed
<1> QED
  BY <1>2, <1>9, <1>10, <1>11 DEF MasterInv, NoOrphans

\* A server that found no host only runs.
LEMMA MasterWithoutHost ==
    ASSUME MasterInv, NEW s \in GameServers, ConnectFails(s)
    PROVE  MasterInv'
BY DEF ConnectFails, MasterInv, MasterTypes, MlTypeOK, LinkInv, NoOrphans, LiveLink,
       RegisteredOrAboutTo, Filed

\* The link comes up: the registration is sent.
LEMMA MasterLinkUp ==
    ASSUME MasterInv, NEW s \in GameServers, LinkOpens(s)
    PROVE  MasterInv'
<1> DEFINE l == peerOf[s]
<1>1. /\ l # NoLink /\ l \in 1 .. Len(sender) /\ sender[l] = s /\ l \in Links
      /\ sender \in Seq(GameServers) /\ mail \in [Links -> Seq(MasterMail)]
      /\ upAt \in [GameServers -> BOOLEAN] /\ delay \in [GameServers -> FirstDelay .. MaxDelay]
      /\ peerOf \in [GameServers -> Links \cup {NoLink}]
  BY DEF LinkOpens, MasterInv, MasterTypes, MlTypeOK, LinkInv
<1>2. /\ upAt' = [upAt EXCEPT ![s] = TRUE] /\ delay' = [delay EXCEPT ![s] = FirstDelay]
      /\ open' = open \cup {l} /\ mail' = [mail EXCEPT ![l] = <<"register">>]
      /\ UNCHANGED <<running, masterHost, filedAs, peerOf, due, sender, listed, displaced>>
  BY DEF LinkOpens, atStart
<1> HIDE DEF l
<1>3. FirstDelay \in FirstDelay .. MaxDelay /\ <<"register">> \in Seq(MasterMail)
  BY DEF FirstDelay, MaxDelay, MasterMail
<1>4. /\ mail' \in [Links -> Seq(MasterMail)] /\ mail'[l] = <<"register">>
      /\ \A k \in Links \ {l} : mail'[k] = mail[k]
  BY <1>1, <1>2, <1>3
<1>5. MasterTypes'
  BY <1>1, <1>2, <1>3, <1>4 DEF MasterInv, MasterTypes, MlTypeOK
<1>6. LinkInv'
  <2>1. ASSUME NEW k \in 1 .. Len(sender), peerOf[sender[k]] \notin {NoLink, k}
        PROVE  mail'[k] = <<>>
    <3>1. k # l /\ k \in Links
      BY <1>1, <2>1, LinkBoundIsNat DEF l, MasterInv, MasterTypes, Links
    <3> QED
      BY <1>4, <2>1, <3>1 DEF MasterInv, LinkInv
  <2>2. \A t \in GameServers : upAt'[t] => peerOf[t] # NoLink
    BY <1>1, <1>2 DEF MasterInv, LinkInv, l
  <2> QED
    BY <1>2, <2>1, <2>2 DEF MasterInv, LinkInv
<1>7. ASSUME NEW t \in GameServers, LiveLink(t)' PROVE RegisteredOrAboutTo(t)'
  <2>1. CASE t = s
    <3>1. mail'[peerOf'[t]] = <<"register">>
      BY <1>2, <1>4, <2>1 DEF l
    <3>2. HeartbeatsFrom(2, <<"register">>) /\ <<"register">> # <<>> /\ Head(<<"register">>) = "register"
      BY DEF HeartbeatsFrom
    <3> QED
      BY <3>1, <3>2 DEF RegisteredOrAboutTo
  <2>2. CASE t # s
    <3>1. peerOf[t] # l /\ upAt'[t] = upAt[t]
      BY <1>1, <1>2, <2>2, LinksDiffer DEF l, MasterInv
    <3>2. LiveLink(t) /\ peerOf[t] \in Links
      BY <1>1, <1>2, <1>7, <3>1 DEF LiveLink, MasterInv, LinkInv
    <3>3. RegisteredOrAboutTo(t) /\ mail'[peerOf[t]] = mail[peerOf[t]]
      BY <1>4, <3>1, <3>2 DEF MasterInv
    <3> QED
      BY <1>2, <3>3 DEF RegisteredOrAboutTo, Filed
  <2> QED
    BY <2>1, <2>2
<1> QED
  BY <1>2, <1>5, <1>6, <1>7 DEF MasterInv, NoOrphans

\* A server loses its link, stops or dies: its live link, if any, is no longer one.
LEMMA MasterLinkDown ==
    ASSUME MasterInv, NEW s \in GameServers, LinkLost(s) \/ StopServer(s) \/ CrashServer(s)
    PROVE  MasterInv'
<1>1. /\ peerOf' = [peerOf EXCEPT ![s] = NoLink] /\ upAt' = [upAt EXCEPT ![s] = FALSE]
      /\ running' \subseteq running /\ running \subseteq running' \cup {s}
      /\ masterHost' \subseteq running' /\ masterHost' \subseteq masterHost
      /\ UNCHANGED <<filedAs, delay, due, sender, open, listed, displaced>>
  BY DEF LinkLost, StopServer, CrashServer, atStart, MasterInv, MasterTypes, MlTypeOK
<1>2. /\ peerOf'[s] = NoLink /\ \A t \in GameServers \ {s} : peerOf'[t] = peerOf[t]
      /\ ~upAt'[s] /\ \A t \in GameServers \ {s} : upAt'[t] = upAt[t]
      /\ peerOf' \in [GameServers -> Links \cup {NoLink}] /\ upAt' \in [GameServers -> BOOLEAN]
      /\ sender \in Seq(GameServers)
  BY <1>1 DEF MasterInv, MasterTypes, MlTypeOK
<1>3. \/ mail' = mail
      \/ peerOf[s] \in open /\ mail' = [mail EXCEPT ![peerOf[s]] = Append(@, "deregister")]
  BY DEF LinkLost, StopServer, CrashServer, Posted
<1>4. open \subseteq Links /\ open \subseteq 1 .. Len(sender)
  BY LinkBoundIsNat DEF MasterInv, MasterTypes, MlTypeOK, Links
<1>5. mail' \in [Links -> Seq(MasterMail)] /\ \A k \in Links \ {peerOf[s]} : mail'[k] = mail[k]
  <2>1. mail \in [Links -> Seq(MasterMail)]
    BY DEF MasterInv, MasterTypes
  <2>2. "deregister" \in MasterMail
    BY DEF MasterMail
  <2>3. peerOf[s] \in open => Append(mail[peerOf[s]], "deregister") \in Seq(MasterMail)
    BY <1>4, <2>1, <2>2, HeartbeatQueue
  <2> QED
    BY <1>3, <1>4, <2>1, <2>3
<1>6. MasterTypes'
  BY <1>1, <1>2, <1>5 DEF MasterInv, MasterTypes, MlTypeOK
<1>7. LinkInv'
  <2>1. ASSUME NEW k \in 1 .. Len(sender), peerOf'[sender[k]] \notin {NoLink, k}
        PROVE  mail'[k] = <<>>
    <3>1. sender[k] \in GameServers /\ sender[k] # s /\ peerOf[sender[k]] \notin {NoLink, k}
      BY <1>2, <2>1
    <3>2. mail[k] = <<>> /\ k \in Links
      BY <3>1, LinkBoundIsNat DEF MasterInv, LinkInv, MasterTypes, Links
    <3>3. k # peerOf[s]
      BY <3>1, <1>2, NoLinkIsNone DEF MasterInv, LinkInv
    <3> QED
      BY <1>5, <3>2, <3>3
  <2>2. \A t \in GameServers : peerOf'[t] # NoLink =>
          t \in running' /\ peerOf'[t] \in 1 .. Len(sender) /\ sender[peerOf'[t]] = t
    BY <1>1, <1>2 DEF MasterInv, LinkInv
  <2>3. \A t \in GameServers : upAt'[t] => peerOf'[t] # NoLink
    BY <1>2 DEF MasterInv, LinkInv
  <2> QED
    BY <1>1, <2>1, <2>2, <2>3 DEF LinkInv
<1>8. ASSUME NEW t \in GameServers, LiveLink(t)' PROVE RegisteredOrAboutTo(t)'
  <2>1. t # s /\ LiveLink(t) /\ peerOf'[t] = peerOf[t] /\ peerOf[t] \in Links
    BY <1>1, <1>2, <1>4, <1>8 DEF LiveLink
  <2>2. peerOf[t] # peerOf[s]
    BY <2>1, LinksDiffer DEF MasterInv, LinkInv, LiveLink
  <2>3. RegisteredOrAboutTo(t) /\ mail'[peerOf[t]] = mail[peerOf[t]]
    BY <1>5, <2>1, <2>2 DEF MasterInv
  <2> QED
    BY <1>1, <2>1, <2>3 DEF RegisteredOrAboutTo, Filed
<1> QED
  BY <1>1, <1>6, <1>7, <1>8 DEF MasterInv, NoOrphans

\* A heartbeat that is due is sent.
LEMMA MasterHeartbeat ==
    ASSUME MasterInv, NEW s \in GameServers, SendMasterHeartbeat(s)
    PROVE  MasterInv'
<1> DEFINE l == peerOf[s]
<1>1. /\ upAt[s] /\ l \in 1 .. Len(sender) /\ sender[l] = s /\ l \in Links /\ l # NoLink
      /\ mail \in [Links -> Seq(MasterMail)] /\ sender \in Seq(GameServers)
      /\ peerOf \in [GameServers -> Links \cup {NoLink}]
  BY DEF SendMasterHeartbeat, MasterInv, MasterTypes, MlTypeOK, LinkInv
<1>2. /\ due' = due \ {s} /\ UNCHANGED <<running, masterHost, filedAs, peerOf, upAt, delay, sender, open, listed, displaced>>
      /\ mail' = IF l \in open THEN [mail EXCEPT ![l] = Append(@, "heartbeat")] ELSE mail
  BY DEF SendMasterHeartbeat, Posted, atStart
<1> HIDE DEF l
<1>3. /\ mail' \in [Links -> Seq(MasterMail)]
      /\ mail'[l] = (IF l \in open THEN Append(mail[l], "heartbeat") ELSE mail[l])
      /\ \A k \in Links \ {l} : mail'[k] = mail[k]
  <2>1. Append(mail[l], "heartbeat") \in Seq(MasterMail)
    BY <1>1, HeartbeatQueue DEF MasterMail
  <2> QED
    BY <1>1, <1>2, <2>1
<1>4. MasterTypes'
  BY <1>2, <1>3 DEF MasterInv, MasterTypes, MlTypeOK
<1>5. LinkInv'
  <2>1. ASSUME NEW k \in 1 .. Len(sender), peerOf[sender[k]] \notin {NoLink, k}
        PROVE  mail'[k] = <<>>
    <3>1. k # l /\ k \in Links
      BY <1>1, <2>1, LinkBoundIsNat DEF l, MasterInv, MasterTypes, Links
    <3> QED
      BY <1>3, <2>1, <3>1 DEF MasterInv, LinkInv
  <2> QED
    BY <1>2, <2>1 DEF MasterInv, LinkInv
<1>6. ASSUME NEW t \in GameServers, LiveLink(t)' PROVE RegisteredOrAboutTo(t)'
  <2>1. LiveLink(t) /\ RegisteredOrAboutTo(t) /\ peerOf'[t] = peerOf[t] /\ listed' = listed
    BY <1>2, <1>6 DEF LiveLink, MasterInv
  <2>2. CASE t = s
    <3>1. mail'[l] = Append(mail[l], "heartbeat") /\ mail[l] \in Seq(MasterMail) /\ peerOf[t] = l
      BY <1>1, <1>3, <2>1, <2>2 DEF LiveLink, l
    <3>2. CASE mail[l] # <<>> /\ Head(mail[l]) = "register" /\ HeartbeatsFrom(2, mail[l])
      BY <2>1, <3>1, <3>2, HeartbeatQueue DEF RegisteredOrAboutTo
    <3>3. CASE (t \in displaced \/ Filed(t)) /\ HeartbeatsFrom(1, mail[l])
      <4>1. HeartbeatsFrom(1, mail'[l]) /\ mail'[l] # <<>>
        BY <3>1, <3>3, HeartbeatQueue
      <4>2. Filed(t) => Filed(t)'
        BY <1>2, <2>1, <3>1, <4>1 DEF Filed
      <4>3. t \in displaced' \/ Filed(t)'
        BY <1>2, <3>3, <4>2
      <4> QED
        BY <2>1, <3>1, <4>1, <4>3 DEF RegisteredOrAboutTo
    <3> QED
      BY <2>1, <3>1, <3>2, <3>3 DEF RegisteredOrAboutTo
  <2>3. CASE t # s
    <3>1. peerOf[t] # l /\ peerOf[t] \in Links
      BY <1>1, <2>1, <2>3, LinksDiffer DEF l, MasterInv, LinkInv, LiveLink
    <3> QED
      BY <1>2, <1>3, <2>1, <2>3, <3>1 DEF RegisteredOrAboutTo, Filed
  <2> QED
    BY <2>2, <2>3
<1> QED
  BY <1>2, <1>4, <1>5, <1>6 DEF MasterInv, NoOrphans

\* The master's steps leave the servers alone, and no queue grows.
MasterStep ==
    /\ UNCHANGED <<running, masterHost, filedAs, peerOf, upAt, delay, sender>> /\ displaced' \subseteq GameServers
    /\ open' \subseteq open
    /\ mail' \in [Links -> Seq(MasterMail)]
    /\ \A l \in Links : mail[l] = <<>> => mail'[l] = <<>>

\* Every key is one, every entry too, and its link is one the master holds.
ListIsSound ==
    \A k \in DOMAIN listed :
        /\ listed[k] \in ListEntry
        /\ listed[k].peer \in open
        /\ k \in Keys

\* What such a step still has to show: the list, and the servers that live.
LEMMA MasterSide ==
    ASSUME MasterInv, MasterStep, ListIsSound',
           \A t \in GameServers :
               LiveLink(t) /\ peerOf[t] \in open' /\ RegisteredOrAboutTo(t) => RegisteredOrAboutTo(t)'
    PROVE  MasterInv'
<1>1. DOMAIN listed' \subseteq Keys
  BY DEF ListIsSound
<1>2. \A k \in DOMAIN listed' : listed'[k].peer \in Links /\ listed'[k].silence \in 0 .. (SilenceLimit + 1)
  BY DEF ListIsSound, ListEntry
<1>3. MasterTypes'
  BY <1>1, <1>2 DEF MasterInv, MasterTypes, MlTypeOK, MasterStep, ListIsSound
<1>4. LinkInv'
  <2>1. 1 .. Len(sender) \subseteq Links
    BY LinkBoundIsNat DEF MasterInv, MasterTypes, MlTypeOK, Links
  <2> QED
    BY <2>1 DEF MasterInv, MasterStep, LinkInv
<1>5. ASSUME NEW t \in GameServers, LiveLink(t)' PROVE RegisteredOrAboutTo(t)'
  <2>1. LiveLink(t) /\ peerOf[t] \in open'
    BY <1>5 DEF MasterStep, LiveLink
  <2> QED
    BY <2>1 DEF MasterInv
<1> QED
  BY <1>3, <1>4, <1>5 DEF MasterInv, NoOrphans, ListIsSound

\* A list that only loses entries stays sound while their links are held.
LEMMA ListShrinks ==
    ASSUME MasterInv, NEW K, listed' = WithoutEntries(K),
           \A k \in DOMAIN listed \ K : listed[k].peer \in open'
    PROVE  ListIsSound'
BY DEF MasterInv, MasterTypes, MlTypeOK, ListIsSound, WithoutEntries

\* The queue of the link a message is taken from, and the others.
LEMMA PacketTaken ==
    ASSUME MasterInv, NEW l \in Links, HandleMasterPacket(l)
    PROVE  /\ MasterStep /\ UNCHANGED <<due, open>>
           /\ l \in open /\ l \in 1 .. Len(sender) /\ sender[l] \in GameServers
           /\ mail[l] \in Seq(MasterMail) /\ mail[l] # <<>> /\ mail'[l] = Tail(mail[l])
           /\ \A k \in Links \ {l} : mail'[k] = mail[k]
           /\ peerOf[sender[l]] \in {NoLink, l}
<1>1. /\ l \in open /\ mail[l] # <<>> /\ mail' = [mail EXCEPT ![l] = Tail(@)]
      /\ UNCHANGED <<running, masterHost, filedAs, peerOf, upAt, delay, due, sender, open>>
  BY DEF HandleMasterPacket, atStart
<1>2. mail \in [Links -> Seq(MasterMail)] /\ l \in 1 .. Len(sender) /\ sender \in Seq(GameServers)
  BY <1>1 DEF MasterInv, MasterTypes, MlTypeOK
<1>3. mail[l] \in Seq(MasterMail) /\ Tail(mail[l]) \in Seq(MasterMail) /\ sender[l] \in GameServers
  BY <1>1, <1>2, HeartbeatQueue
<1>4. peerOf[sender[l]] \in {NoLink, l}
  BY <1>1, <1>2 DEF MasterInv, LinkInv
<1>5. /\ mail' \in [Links -> Seq(MasterMail)] /\ mail'[l] = Tail(mail[l])
      /\ \A k \in Links \ {l} : mail'[k] = mail[k]
  BY <1>1, <1>2, <1>3
<1>6. displaced' \subseteq GameServers
  <2>0. \A i \in DOMAIN listed : listed[i].peer \in 1 .. Len(sender)
    BY DEF MasterInv, MasterTypes, MlTypeOK, NoOrphans
  <2>1. displaced \subseteq GameServers /\ \A k \in Keys : HolderOf(k) \subseteq GameServers
    BY <1>2, <2>0 DEF MasterInv, MasterTypes, MlTypeOK, HolderOf
  <2>2. filedAs[sender[l]] \in Keys
    BY <1>3 DEF MasterInv, MasterTypes, MlTypeOK
  <2> QED
    BY <1>3, <2>1, <2>2 DEF HandleMasterPacket, HandleRegister, HandleHeartbeat, HandleDeregister
<1> QED
  BY <1>1, <1>2, <1>3, <1>4, <1>5, <1>6 DEF MasterStep

\* A server that did not send the message keeps its queue, and its entry or is
\* displaced.
LEMMA OthersUndisturbed ==
    ASSUME MasterInv, NEW l \in Links, HandleMasterPacket(l),
           NEW t \in GameServers, LiveLink(t), t # sender[l], RegisteredOrAboutTo(t),
           t \in displaced => t \in displaced',
           t \notin displaced' /\ filedAs[t] \in DOMAIN listed /\ listed[filedAs[t]].peer = peerOf[t] =>
               /\ filedAs[t] \in DOMAIN listed' /\ listed'[filedAs[t]].peer = peerOf[t]
               /\ listed'[filedAs[t]].silence \in {0, listed[filedAs[t]].silence}
    PROVE  RegisteredOrAboutTo(t)'
<1>1. peerOf[t] # l /\ peerOf[t] \in Links
  BY DEF MasterInv, LinkInv, LiveLink, MasterTypes, MlTypeOK
<1>2. mail'[peerOf[t]] = mail[peerOf[t]] /\ peerOf' = peerOf /\ due' = due /\ filedAs' = filedAs
  BY <1>1, PacketTaken DEF MasterStep
<1>3. CASE Filed(t)
  BY <1>2, <1>3 DEF RegisteredOrAboutTo, Filed
<1>4. CASE ~Filed(t)
  BY <1>2, <1>4 DEF RegisteredOrAboutTo
<1> QED
  BY <1>3, <1>4

\* A registration files the server under this link.
LEMMA MasterRegisters ==
    ASSUME MasterInv, NEW l \in Links, HandleMasterPacket(l),
           Head(mail[l]) = "register", HandleRegister(l)
    PROVE  MasterInv'
<1> DEFINE s == sender[l]
<1>1. s \in GameServers /\ l \in open /\ open' = open
  BY PacketTaken
<1>2. /\ DOMAIN listed' = DOMAIN listed \cup {filedAs[s]}
      /\ listed'[filedAs[s]] = [peer |-> l, silence |-> 0]
      /\ \A k \in DOMAIN listed \ {filedAs[s]} : listed'[k] = listed[k]
      /\ displaced' = (displaced \cup HolderOf(filedAs[s])) \ {s}
  BY DEF HandleRegister
<1>3. [peer |-> l, silence |-> 0] \in ListEntry
  BY DEF ListEntry, SilenceLimit
<1> HIDE DEF s
<1>4. ListIsSound'
  BY <1>1, <1>2, <1>3 DEF ListIsSound, MasterInv, MasterTypes, MlTypeOK, NoOrphans
<1>5. ASSUME NEW t \in GameServers, LiveLink(t), RegisteredOrAboutTo(t)
      PROVE  RegisteredOrAboutTo(t)'
  <2>1. CASE t = s
    <3>1. peerOf[t] = l /\ peerOf' = peerOf /\ filedAs' = filedAs
      BY <1>5, <2>1, PacketTaken DEF s, LiveLink, MasterInv, LinkInv, MasterStep
    <3>2. HeartbeatsFrom(1, mail'[l])
      BY <1>5, <3>1, PacketTaken, HeartbeatQueue DEF RegisteredOrAboutTo
    <3>3. Filed(t)'
      BY <1>2, <2>1, <3>1 DEF Filed
    <3> QED
      BY <3>1, <3>2, <3>3 DEF RegisteredOrAboutTo
  <2>2. CASE t # s
    <3>1. ASSUME filedAs[t] \in DOMAIN listed, listed[filedAs[t]].peer = peerOf[t], t \notin displaced'
          PROVE  filedAs[t] # filedAs[s]
      <4>1. sender[peerOf[t]] = t
        BY <1>5 DEF LiveLink, MasterInv, LinkInv
      <4>2. t \in HolderOf(filedAs[t])
        BY <3>1, <4>1 DEF HolderOf
      <4> QED
        BY <1>2, <2>2, <3>1, <4>2
    <3>2. listed[filedAs[t]].silence \in {0, listed[filedAs[t]].silence}
      OBVIOUS
    <3> QED
      BY <1>2, <1>5, <2>2, <3>1, <3>2, OthersUndisturbed DEF s
  <2> QED
    BY <2>1, <2>2
<1> QED
  BY <1>4, <1>5, MasterSide, PacketTaken

\* A heartbeat refreshes the sender's entry, or the sender is displaced.
LEMMA MasterHearsHeartbeat ==
    ASSUME MasterInv, NEW l \in Links, HandleMasterPacket(l),
           Head(mail[l]) = "heartbeat", HandleHeartbeat(l)
    PROVE  MasterInv'
<1> DEFINE s == sender[l]
<1>1. s \in GameServers /\ open' = open
  BY PacketTaken
<1> DEFINE Heard(e) == [e EXCEPT !.silence = 0]
<1>2. /\ DOMAIN listed' = DOMAIN listed
      /\ \A k \in DOMAIN listed \ HeartbeatKeys(l) : listed'[k] = listed[k]
      /\ \A k \in DOMAIN listed \cap HeartbeatKeys(l) : listed'[k] = Heard(listed[k])
      /\ displaced' = displaced \cup {t \in {s} : filedAs[t] \notin HeartbeatKeys(l)}
  BY DEF HandleHeartbeat
<1>3. \A k \in DOMAIN listed : listed[k] \in ListEntry /\ listed[k].peer \in open
  BY DEF MasterInv, MasterTypes, NoOrphans
<1>4. \A e \in ListEntry : Heard(e) \in ListEntry /\ Heard(e).peer = e.peer /\ Heard(e).silence = 0
  BY DEF ListEntry, SilenceLimit
<1> HIDE DEF Heard
<1>5. \A k \in DOMAIN listed : /\ listed'[k] \in ListEntry /\ listed'[k].peer = listed[k].peer
                               /\ k \in HeartbeatKeys(l) => listed'[k].silence = 0
  BY <1>2, <1>3, <1>4
<1>6. ListIsSound'
  BY <1>1, <1>2, <1>3, <1>5 DEF ListIsSound, MasterInv, MasterTypes, MlTypeOK
<1> HIDE DEF s
<1>7. ASSUME NEW t \in GameServers, LiveLink(t), RegisteredOrAboutTo(t)
      PROVE  RegisteredOrAboutTo(t)'
  <2>1. CASE t = s
    <3>1. peerOf[t] = l /\ peerOf' = peerOf /\ filedAs' = filedAs
      BY <1>7, <2>1, PacketTaken DEF s, LiveLink, MasterInv, LinkInv, MasterStep
    <3>2. (t \in displaced \/ Filed(t)) /\ HeartbeatsFrom(1, mail[l])
      BY <1>7, <3>1 DEF RegisteredOrAboutTo
    <3>3. HeartbeatsFrom(1, mail'[l])
      BY <3>2, PacketTaken, HeartbeatQueue
    <3>4. t \in displaced' \/ Filed(t)'
      <4>1. CASE filedAs[t] \notin HeartbeatKeys(l)
        BY <1>2, <2>1, <4>1
      <4>2. CASE t \in displaced
        BY <1>2, <4>2
      <4>3. CASE Filed(t) /\ filedAs[t] \in HeartbeatKeys(l)
        BY <1>2, <1>5, <3>1, <4>3 DEF Filed
      <4> QED
        BY <3>2, <4>1, <4>2, <4>3
    <3> QED
      BY <3>1, <3>3, <3>4 DEF RegisteredOrAboutTo
  <2>2. CASE t # s
    <3>1. \A k \in DOMAIN listed : listed'[k].silence \in {0, listed[k].silence}
      BY <1>2, <1>5
    <3> QED
      BY <1>2, <1>5, <1>7, <2>2, <3>1, OthersUndisturbed DEF s
  <2> QED
    BY <2>1, <2>2
<1> QED
  BY <1>6, <1>7, MasterSide, PacketTaken

\* A goodbye comes over a link that no server uses any more.
LEMMA MasterDeregisters ==
    ASSUME MasterInv, NEW l \in Links, HandleMasterPacket(l),
           Head(mail[l]) = "deregister", HandleDeregister(l)
    PROVE  MasterInv'
<1>1. /\ DOMAIN listed' = DOMAIN listed \ KeysOfPeer(l)
      /\ \A k \in DOMAIN listed \ KeysOfPeer(l) : listed'[k] = listed[k]
      /\ displaced' = displaced
  BY DEF HandleDeregister, WithoutEntries
<1>2. ListIsSound'
  BY ListShrinks, PacketTaken DEF HandleDeregister, MasterInv, NoOrphans
<1>3. ASSUME NEW t \in GameServers, LiveLink(t), RegisteredOrAboutTo(t)
      PROVE  RegisteredOrAboutTo(t)'
  <2>1. t # sender[l]
    <3>1. SUFFICES ASSUME t = sender[l] PROVE FALSE
      OBVIOUS
    <3>2. peerOf[t] = l
      BY <1>3, <3>1, PacketTaken DEF LiveLink, MasterInv, LinkInv
    <3>3. Head(mail[l]) \in {"register", "heartbeat"}
      BY <1>3, <3>2, PacketTaken, HeartbeatQueue DEF RegisteredOrAboutTo
    <3> QED
      BY <3>3
  <2>2. peerOf[t] # l
    BY <1>3, <2>1 DEF MasterInv, LinkInv, LiveLink
  <2> QED
    BY <1>1, <1>3, <2>1, <2>2, OthersUndisturbed DEF KeysOfPeer
<1> QED
  BY <1>2, <1>3, MasterSide, PacketTaken

\* The end of a link, the loss of mail, pruning and the restart take nothing
\* from a server that lives.
LEMMA MasterForgets ==
    ASSUME MasterInv,
           \/ \E l \in Links : PeerGone(l) \/ MailLost(l)
           \/ PruneStaleServers \/ MasterRestarts
    PROVE  MasterInv'
<1>0. mail \in [Links -> Seq(MasterMail)] /\ <<>> \in Seq(MasterMail)
  BY DEF MasterInv, MasterTypes
<1>1. ASSUME NEW l \in Links, PeerGone(l) PROVE MasterInv'
  <2>1. /\ open' = open \ {l} /\ mail' = [mail EXCEPT ![l] = <<>>]
        /\ listed' = WithoutEntries(KeysOfPeer(l))
        /\ UNCHANGED <<running, masterHost, filedAs, peerOf, upAt, delay, due, sender, displaced>>
    BY <1>1 DEF PeerGone, EntriesOfLink, atStart
  <2>2. /\ mail' \in [Links -> Seq(MasterMail)] /\ mail'[l] = <<>>
        /\ \A k \in Links \ {l} : mail'[k] = mail[k]
    BY <1>0, <2>1
  <2>3. MasterStep
    BY <2>1, <2>2 DEF MasterStep, MasterInv, MasterTypes, MlTypeOK
  <2>4. ListIsSound'
    BY <2>1, ListShrinks DEF MasterInv, NoOrphans, KeysOfPeer
  <2>5. ASSUME NEW t \in GameServers, LiveLink(t), peerOf[t] \in open', RegisteredOrAboutTo(t)
        PROVE  RegisteredOrAboutTo(t)'
    <3>1. peerOf[t] # l /\ peerOf[t] \in Links
      BY <2>1, <2>5 DEF LiveLink, MasterInv, LinkInv, MasterTypes, MlTypeOK
    <3>2. mail'[peerOf[t]] = mail[peerOf[t]]
      BY <2>2, <3>1
    <3>3. Filed(t) => Filed(t)'
      BY <2>1, <3>1, <3>2 DEF Filed, WithoutEntries, KeysOfPeer
    <3> QED
      BY <2>1, <2>5, <3>2, <3>3 DEF RegisteredOrAboutTo
  <2> QED
    BY <2>3, <2>4, <2>5, MasterSide
<1>2. ASSUME NEW l \in Links, MailLost(l) PROVE MasterInv'
  <2>1. /\ mail' = [mail EXCEPT ![l] = <<>>] /\ \A s \in GameServers : peerOf[s] # l
        /\ UNCHANGED <<running, masterHost, filedAs, peerOf, upAt, delay, due, sender, open, listed, displaced>>
    BY <1>2 DEF MailLost, atStart
  <2>2. /\ mail' \in [Links -> Seq(MasterMail)] /\ mail'[l] = <<>>
        /\ \A k \in Links \ {l} : mail'[k] = mail[k]
    BY <1>0, <2>1
  <2>3. MasterStep
    BY <2>1, <2>2 DEF MasterStep, MasterInv, MasterTypes, MlTypeOK
  <2>4. ListIsSound'
    BY <2>1 DEF MasterInv, NoOrphans, MasterTypes, MlTypeOK, ListIsSound
  <2>5. ASSUME NEW t \in GameServers, LiveLink(t), RegisteredOrAboutTo(t)
        PROVE  RegisteredOrAboutTo(t)'
    <3>1. mail'[peerOf[t]] = mail[peerOf[t]]
      BY <2>1, <2>2, <2>5 DEF LiveLink, MasterInv, LinkInv, MasterTypes, MlTypeOK
    <3> QED
      BY <2>1, <2>5, <3>1 DEF RegisteredOrAboutTo, Filed
  <2> QED
    BY <2>3, <2>4, <2>5, MasterSide
<1>3. ASSUME PruneStaleServers PROVE MasterInv'
  <2> DEFINE K == {k \in DOMAIN listed : listed[k].silence > SilenceLimit}
  <2>1. /\ listed' = WithoutEntries(K)
        /\ UNCHANGED <<running, masterHost, filedAs, peerOf, upAt, delay, due, sender, open, mail, displaced>>
    BY <1>3 DEF PruneStaleServers, atStart
  <2>2. \A k \in DOMAIN listed : listed[k].silence \in {0, 1} => k \notin K
    BY DEF SilenceLimit
  <2> HIDE DEF K
  <2>3. MasterStep
    BY <1>0, <2>1 DEF MasterStep, MasterInv, MasterTypes, MlTypeOK
  <2>4. ListIsSound'
    BY <2>1, ListShrinks DEF MasterInv, NoOrphans
  <2>5. ASSUME NEW t \in GameServers, LiveLink(t), RegisteredOrAboutTo(t)
        PROVE  RegisteredOrAboutTo(t)'
    <3>1. Filed(t) => Filed(t)'
      BY <2>1, <2>2 DEF Filed, WithoutEntries
    <3> QED
      BY <2>1, <2>5, <3>1 DEF RegisteredOrAboutTo
  <2> QED
    BY <2>3, <2>4, <2>5, MasterSide
<1>4. ASSUME MasterRestarts PROVE MasterInv'
  <2>1. /\ open' = {} /\ mail' = [l \in Links |-> <<>>] /\ listed' = <<>>
        /\ UNCHANGED <<running, masterHost, filedAs, peerOf, upAt, delay, due, sender, displaced>>
    BY <1>4 DEF MasterRestarts, atStart
  <2>2. DOMAIN listed' = {}
    BY <2>1
  <2>3. MasterStep
    BY <1>0, <2>1 DEF MasterStep, MasterInv, MasterTypes, MlTypeOK
  <2> QED
    BY <2>1, <2>2, <2>3, MasterSide DEF ListIsSound
<1> QED
  BY <1>1, <1>2, <1>3, <1>4

\* An interval passes: a live server's entry has been silent for none, and its
\* next heartbeat is due.
LEMMA MasterInterval ==
    ASSUME MasterInv, Interval
    PROVE  MasterInv'
<1>1. /\ \A s \in GameServers : LiveLink(s) => s \notin due /\ mail[peerOf[s]] = <<>>
      /\ due' = {s \in running : upAt[s]}
      /\ UNCHANGED <<running, masterHost, filedAs, peerOf, upAt, delay, sender, open, mail, displaced>>
  BY DEF Interval, atStart
<1> DEFINE Later(n) == IF n > SilenceLimit THEN n ELSE n + 1
<1> DEFINE Aged(e) == [e EXCEPT !.silence = Later(@)]
<1>2. /\ DOMAIN listed' = DOMAIN listed
      /\ \A k \in DOMAIN listed : listed'[k] = Aged(listed[k])
  BY DEF Interval
<1>3. \A n \in 0 .. (SilenceLimit + 1) : Later(n) \in 0 .. (SilenceLimit + 1) /\ (n = 0 => Later(n) = 1)
  BY DEF SilenceLimit
<1> HIDE DEF Later
<1>4. \A e \in ListEntry :
         Aged(e) \in ListEntry /\ Aged(e).peer = e.peer /\ (e.silence = 0 => Aged(e).silence = 1)
  BY <1>3 DEF ListEntry
<1> HIDE DEF Aged
<1>5. \A k \in DOMAIN listed : /\ listed'[k] \in ListEntry /\ listed'[k].peer = listed[k].peer
                               /\ listed[k].silence = 0 => listed'[k].silence = 1
  BY <1>2, <1>4 DEF MasterInv, MasterTypes
<1>6. MasterStep
  BY <1>1 DEF MasterStep, MasterInv, MasterTypes, MlTypeOK
<1>7. ListIsSound'
  BY <1>1, <1>2, <1>5 DEF MasterInv, NoOrphans, MasterTypes, MlTypeOK, ListIsSound
<1>8. ASSUME NEW t \in GameServers, LiveLink(t), RegisteredOrAboutTo(t)
      PROVE  RegisteredOrAboutTo(t)'
  <2>1. /\ t \notin due /\ mail[peerOf[t]] = <<>> /\ upAt[t]
        /\ t \in running /\ t \in due'
    BY <1>1, <1>8 DEF LiveLink, MasterInv, LinkInv
  <2>2. /\ t \in displaced \/ (Filed(t) /\ listed[filedAs[t]].silence = 0)
        /\ HeartbeatsFrom(1, mail[peerOf[t]])
    BY <1>8, <2>1 DEF RegisteredOrAboutTo, Filed
  <2>3. t \in displaced' \/ Filed(t)'
    BY <1>1, <1>2, <1>5, <2>1, <2>2 DEF Filed
  <2> QED
    BY <1>1, <2>2, <2>3 DEF RegisteredOrAboutTo
<1> QED
  BY <1>6, <1>7, <1>8, MasterSide

LEMMA MasterInvariant == MlInit /\ [][MlNext]_mlVars => []MasterInv
<1>1. MlInit => MasterInv
  <2> SUFFICES ASSUME MlInit PROVE MasterInv
    OBVIOUS
  <2>1. FirstDelay \in FirstDelay .. MaxDelay /\ 0 <= LinkBound
    BY LinkBoundIsNat DEF FirstDelay, MaxDelay
  <2>2. Len(sender) = 0 /\ sender \in Seq(GameServers) /\ DOMAIN listed = {} /\ Len(sender) <= LinkBound
    BY <2>1 DEF MlInit
  <2>3. MlTypeOK
    BY <2>1, <2>2, KeysOfServers DEF MlInit, MlTypeOK
  <2>4. mail \in [Links -> Seq(MasterMail)]
    BY DEF MlInit
  <2>5. MasterTypes /\ NoOrphans
    BY <2>2, <2>3, <2>4 DEF MasterTypes, NoOrphans
  <2>6. LinkInv
    BY <2>2 DEF MlInit, LinkInv
  <2> QED
    BY <2>5, <2>6 DEF MlInit, MasterInv, LiveLink
<1>2. MasterInv /\ [MlNext]_mlVars => MasterInv'
  <2> SUFFICES ASSUME MasterInv, [MlNext]_mlVars PROVE MasterInv'
    OBVIOUS
  <2>1. ASSUME NEW s \in GameServers, MlServerStep(s) PROVE MasterInv'
    BY <2>1, MasterOpens, MasterWithoutHost, MasterLinkUp, MasterLinkDown, MasterHeartbeat DEF MlServerStep
  <2>2. ASSUME NEW l \in Links, HandleMasterPacket(l) PROVE MasterInv'
    BY <2>2, MasterRegisters, MasterHearsHeartbeat, MasterDeregisters DEF HandleMasterPacket
  <2>3. CASE UNCHANGED mlVars
    BY <2>3 DEF mlVars, atStart, MasterInv, MasterTypes, MlTypeOK, LinkInv, NoOrphans, LiveLink,
                RegisteredOrAboutTo, Filed
  <2> QED
    BY <2>1, <2>2, <2>3, MasterForgets, MasterInterval DEF MlNext
<1> QED
  BY <1>1, <1>2, PTL

\* The master's list holds the servers that live, but for one whose address another
\* server has given since, and no entry of a closed link (main.cpp, server.cpp).
THEOREM ListingIsRight == MlSpec => [](MlTypeOK /\ ListingRight)
<1>1. MasterInv => MlTypeOK /\ ListingRight
  BY MasterMeaning DEF MasterInv, MasterTypes
<1> QED
  BY <1>1, MasterInvariant, PTL DEF MlSpec

-----------------------------------------------------------------------------
(* The server browser.                                                     *)

\* A query is asked once: its press of REFRESH is one of the past.
AskedInv ==
    /\ \A q \in DOMAIN conn : q[2] <= asked
    /\ \A r \in rows : r.query[2] <= asked

BrowserInv == SbTypeOK /\ OneRowPerQuery /\ AskedInv

\* The sources and the queries are finitely many, so connections can be counted.
LEMMA QueriesAreFinite ==
    ASSUME NEW S \in SUBSET Queries
    PROVE  IsFiniteSet(Queried) /\ IsFiniteSet(S) /\ Cardinality(S) \in Nat
<1>1. IsFiniteSet(Queried)
  BY BrowserAssumption, FS_AddElement DEF Queried
<1>2. IsFiniteSet(1 .. RefreshBound)
  <2>1. 1 \in Int /\ RefreshBound \in Int
    BY BrowserAssumption
  <2> QED
    BY <2>1, FS_Interval
<1>3. IsFiniteSet(Queries)
  BY <1>1, <1>2, FS_Product DEF Queries
<1>4. IsFiniteSet(S)
  BY <1>3, FS_Subset
<1> QED
  BY <1>1, <1>4, FS_CardinalityType

\* A refresh never asks for more connections than there are peers.
LEMMA PeersSuffice ==
    ASSUME SbTypeOK, NEW kept \in SUBSET DOMAIN conn, NEW asking \in SUBSET Queried, NEW n \in Nat,
           Cardinality(asking) = IF FreePeers(kept) < Cardinality(Queried)
                                 THEN FreePeers(kept) ELSE Cardinality(Queried)
    PROVE  Cardinality(kept \cup (asking \X {n})) <= PeerLimit
<1>1. /\ IsFiniteSet(kept) /\ Cardinality(kept) \in Nat
      /\ IsFiniteSet(Queried) /\ Cardinality(Queried) \in Nat
  BY QueriesAreFinite, FS_CardinalityType DEF SbTypeOK
<1>2. IsFiniteSet(asking) /\ Cardinality(asking) \in Nat
  BY <1>1, FS_Subset, FS_CardinalityType
<1>3. IsFiniteSet(asking \X {n}) /\ Cardinality(asking \X {n}) = Cardinality(asking)
  <2>1. IsFiniteSet({n}) /\ Cardinality({n}) = 1
    BY FS_Singleton
  <2>2. /\ IsFiniteSet(asking \X {n})
        /\ Cardinality(asking \X {n}) = Cardinality(asking) * Cardinality({n})
    BY <1>2, <2>1, FS_Product
  <2> QED
    BY <1>2, <2>1, <2>2
<1>4. Cardinality(kept \cup (asking \X {n})) =
        Cardinality(kept) + Cardinality(asking \X {n}) - Cardinality(kept \cap (asking \X {n}))
  BY <1>1, <1>3, FS_Union
<1>5. Cardinality(kept \cap (asking \X {n})) \in Nat
  <2>1. IsFiniteSet(kept \cap (asking \X {n}))
    BY <1>1, FS_Subset
  <2> QED
    BY <2>1, FS_CardinalityType
<1>6. Cardinality(asking) <= PeerLimit - Cardinality(kept)
  BY <1>1, <1>2, BrowserAssumption DEF FreePeers
<1> QED
  BY <1>1, <1>2, <1>3, <1>4, <1>5, <1>6, BrowserAssumption

\* A row is its query and its answer.
LEMMA RowFields ==
    ASSUME NEW q
    PROVE  /\ ResultRow(q, TRUE).query = q /\ ResultRow(q, FALSE).query = q
           /\ q \in Queries => /\ ResultRow(q, TRUE) \in [query : Queries, online : BOOLEAN]
                              /\ ResultRow(q, FALSE) \in [query : Queries, online : BOOLEAN]
BY DEF ResultRow

\* REFRESH: the new queries are of a press that nothing else belongs to.
LEMMA RefreshInv ==
    ASSUME BrowserInv, OnRefreshServersClicked
    PROVE  BrowserInv'
<1>1. asked < RefreshBound /\ asked' = asked + 1 /\ asked \in Nat /\ asked + 1 \in 1 .. RefreshBound
  BY BrowserAssumption DEF OnRefreshServersClicked, BrowserInv, SbTypeOK
<1>2. PICK kept \in SUBSET DOMAIN conn, shown \in SUBSET rows, asking \in SUBSET Queried :
        /\ IF active THEN kept = DOMAIN conn /\ shown = rows ELSE ClearQueries(kept, shown)
        /\ Cardinality(asking) = IF FreePeers(kept) < Cardinality(Queried)
                                 THEN FreePeers(kept) ELSE Cardinality(Queried)
        /\ LET new == asking \X {asked + 1} IN
              /\ conn' = [q \in kept \cup new |-> IF q \in new THEN "connecting" ELSE conn[q]]
              /\ waiting' = (waiting \cap kept) \cup new
              /\ active' = (active \/ new # {})
        /\ rows' = shown \cup {ResultRow(<<f, asked + 1>>, FALSE) : f \in Favourites \ asking}
  BY DEF OnRefreshServersClicked
<1> DEFINE new == asking \X {asked + 1}
           missed == {ResultRow(<<f, asked + 1>>, FALSE) : f \in Favourites \ asking}
<1>3. /\ new \subseteq Queries /\ \A q \in new : q[2] = asked + 1
      /\ \A q \in new : q[1] \in asking
  BY <1>1 DEF Queries
<1>4. /\ missed \subseteq [query : Queries, online : BOOLEAN]
      /\ \A r \in missed : r.query[2] = asked + 1 /\ r.query[1] \notin asking
      /\ \A r, t \in missed : r.query = t.query => r = t
  <2>1. \A r \in missed : \E f \in Favourites \ asking : r = ResultRow(<<f, asked + 1>>, FALSE)
    OBVIOUS
  <2>2. \A f \in Favourites \ asking :
          /\ <<f, asked + 1>> \in Queries /\ <<f, asked + 1>>[1] = f /\ <<f, asked + 1>>[2] = asked + 1
    BY <1>1 DEF Queries, Queried
  <2> HIDE DEF missed
  <2>3. ASSUME NEW r \in missed
        PROVE  /\ r \in [query : Queries, online : BOOLEAN]
               /\ r.query[2] = asked + 1 /\ r.query[1] \notin asking
               /\ r = ResultRow(r.query, FALSE)
    <3>1. PICK f \in Favourites \ asking : r = ResultRow(<<f, asked + 1>>, FALSE)
      BY <2>1
    <3>2. r.query = <<f, asked + 1>>
      BY <3>1, RowFields
    <3>3. r \in [query : Queries, online : BOOLEAN]
      BY <2>2, <3>1, RowFields
    <3> QED
      BY <2>2, <3>1, <3>2, <3>3
  <2> QED
    BY <2>3
<1>5. /\ DOMAIN conn' = kept \cup new
      /\ \A q \in DOMAIN conn' : conn'[q] = IF q \in new THEN "connecting" ELSE conn[q]
      /\ waiting' = (waiting \cap kept) \cup new /\ rows' = shown \cup missed
      /\ active' \in BOOLEAN
  BY <1>2 DEF BrowserInv, SbTypeOK
<1>6. Cardinality(DOMAIN conn') <= PeerLimit
  <2>1. asked + 1 \in Nat
    BY <1>1
  <2> QED
    BY <1>2, <1>5, <2>1, PeersSuffice DEF BrowserInv
<1>7. \A q \in DOMAIN conn : q[2] < asked + 1 /\ q[2] \in Nat
  BY <1>1 DEF BrowserInv, AskedInv, SbTypeOK, Queries
<1>8. \A r \in rows : r.query[2] < asked + 1 /\ r.query[2] \in Nat
  BY <1>1 DEF BrowserInv, AskedInv, SbTypeOK, Queries
<1> HIDE DEF new, missed
<1>9. SbTypeOK'
  <2>1. asked' \in 0 .. RefreshBound
    BY <1>1
  <2>2. \A q \in DOMAIN conn' : conn'[q] \in Stages
    BY <1>5 DEF BrowserInv, SbTypeOK, Stages
  <2> QED
    BY <1>3, <1>4, <1>5, <1>6, <2>1, <2>2 DEF BrowserInv, SbTypeOK
<1>10. OneRowPerQuery'
  <2>1. ASSUME NEW r \in rows' PROVE r.query \notin waiting'
    <3>1. CASE r \in shown
      <4>1. r \in rows /\ r.query \notin waiting /\ r.query[2] # asked + 1
        BY <1>1, <1>8, <3>1 DEF BrowserInv, OneRowPerQuery
      <4> QED
        BY <1>3, <1>5, <4>1
    <3>2. CASE r \in missed
      <4>1. r.query \notin kept
        BY <1>1, <1>4, <1>7, <3>2
      <4> QED
        BY <1>3, <1>4, <1>5, <3>2, <4>1
    <3> QED
      BY <1>5, <2>1, <3>1, <3>2
  <2>2. ASSUME NEW r \in rows', NEW t \in rows', t.query = r.query PROVE t = r
    <3>1. CASE r \in shown /\ t \in shown
      BY <2>2, <3>1 DEF BrowserInv, OneRowPerQuery
    <3>2. CASE r \in missed /\ t \in missed
      BY <1>4, <2>2, <3>2
    <3>3. \A u \in shown : \A v \in missed : u.query # v.query
      BY <1>1, <1>4, <1>8
    <3> QED
      BY <1>5, <2>2, <3>1, <3>2, <3>3
  <2> QED
    BY <2>1, <2>2 DEF OneRowPerQuery
<1>11. AskedInv'
  <2>1. \A q \in DOMAIN conn' : q[2] <= asked + 1
    BY <1>1, <1>3, <1>5, <1>7
  <2>2. \A r \in rows' : r.query[2] <= asked + 1
    BY <1>1, <1>4, <1>5, <1>8
  <2> QED
    BY <1>1, <2>1, <2>2 DEF AskedInv
<1> QED
  BY <1>9, <1>10, <1>11 DEF BrowserInv

\* The network moves one connection to its next stage.
LEMMA ReachesInv ==
    ASSUME BrowserInv, NEW q, NEW from, NEW to \in Stages, Reaches(q, from, to)
    PROVE  BrowserInv'
<1>1. DOMAIN conn' = DOMAIN conn /\ \A p \in DOMAIN conn : conn'[p] \in Stages
  BY DEF Reaches, BrowserInv, SbTypeOK
<1>2. UNCHANGED <<waiting, active, rows, asked>>
  BY DEF Reaches
<1> QED
  BY <1>1, <1>2 DEF BrowserInv, SbTypeOK, OneRowPerQuery, AskedInv

\* Update takes each pending query off once, with one row.
LEMMA UpdateBrowserInv ==
    ASSUME BrowserInv, Update
    PROVE  BrowserInv'
<1>1. PICK late \in SUBSET Expirable :
         /\ conn' = [q \in DOMAIN conn \ (Ends \cup late) |-> Served(conn[q])]
         /\ waiting' = waiting \ (Answers \cup Ends \cup late)
         /\ rows' = rows \cup {ResultRow(q, TRUE) : q \in Answers \cap waiting}
                         \cup {ResultRow(q, FALSE) : q \in late}
         /\ active' = (waiting' # {})
  BY DEF Update
<1> DEFINE online == {ResultRow(q, TRUE) : q \in Answers \cap waiting}
           offline == {ResultRow(q, FALSE) : q \in late}
<1>2. \A r \in online : r.query \in Answers \cap waiting /\ r = ResultRow(r.query, TRUE)
  BY RowFields
<1>3. \A r \in offline : r.query \in late /\ r = ResultRow(r.query, FALSE)
  BY RowFields
<1>4. late \subseteq waiting /\ late \cap Answers = {} /\ waiting \subseteq DOMAIN conn
  BY DEF Expirable, BrowserInv, SbTypeOK
<1>5. online \cup offline \subseteq [query : Queries, online : BOOLEAN]
  <2>1. waiting \subseteq Queries
    BY <1>4 DEF BrowserInv, SbTypeOK
  <2> HIDE DEF online, offline
  <2>2. ASSUME NEW r \in online PROVE r \in [query : Queries, online : BOOLEAN]
    BY <1>2, <1>4, <2>1, RowFields
  <2>3. ASSUME NEW r \in offline PROVE r \in [query : Queries, online : BOOLEAN]
    BY <1>3, <1>4, <2>1, RowFields
  <2> QED
    BY <2>2, <2>3
<1>6. /\ rows' = rows \cup (online \cup offline) /\ active' \in BOOLEAN /\ asked' = asked
      /\ DOMAIN conn' = DOMAIN conn \ (Ends \cup late)
      /\ \A q \in DOMAIN conn' : conn'[q] = Served(conn[q])
  BY <1>1 DEF Update
<1> HIDE DEF online, offline
<1>7. SbTypeOK'
  <2>1. Cardinality(DOMAIN conn') <= PeerLimit
    <3>1. IsFiniteSet(DOMAIN conn) /\ Cardinality(DOMAIN conn) \in Nat
      BY QueriesAreFinite DEF BrowserInv, SbTypeOK
    <3>2. DOMAIN conn' \in SUBSET DOMAIN conn
      BY <1>6
    <3>3. IsFiniteSet(DOMAIN conn') /\ Cardinality(DOMAIN conn') <= Cardinality(DOMAIN conn)
      BY <3>1, <3>2, FS_Subset
    <3>4. Cardinality(DOMAIN conn') \in Nat
      BY <3>3, FS_CardinalityType
    <3> QED
      BY <3>1, <3>3, <3>4, BrowserAssumption DEF BrowserInv, SbTypeOK
  <2>2. \A q \in DOMAIN conn' : conn'[q] \in Stages
    BY <1>6 DEF BrowserInv, SbTypeOK, Stages, Served
  <2>3. waiting' \subseteq DOMAIN conn'
    BY <1>1, <1>4, <1>6
  <2> QED
    BY <1>5, <1>6, <2>1, <2>2, <2>3 DEF BrowserInv, SbTypeOK
<1>8. OneRowPerQuery'
  <2>1. \A r \in online \cup offline : r.query \in waiting /\ r.query \notin waiting'
    BY <1>1, <1>2, <1>3, <1>4
  <2>2. \A r, t \in online \cup offline : r.query = t.query => r = t
    BY <1>2, <1>3, <1>4
  <2>3. \A r \in rows : r.query \notin waiting /\ \A t \in rows : t.query = r.query => t = r
    BY DEF BrowserInv, OneRowPerQuery
  <2>4. waiting' \subseteq waiting
    BY <1>1
  <2> QED
    BY <1>6, <2>1, <2>2, <2>3, <2>4 DEF OneRowPerQuery
<1>9. AskedInv'
  BY <1>2, <1>3, <1>4, <1>6 DEF AskedInv, BrowserInv
<1> QED
  BY <1>7, <1>8, <1>9 DEF BrowserInv

LEMMA BrowserInvariant == SbInit /\ [][SbNext]_sbVars => []BrowserInv
<1>1. SbInit => BrowserInv
  <2> SUFFICES ASSUME SbInit PROVE BrowserInv
    OBVIOUS
  <2>0. asked \in 0 .. RefreshBound
    BY BrowserAssumption DEF SbInit
  <2>1. DOMAIN conn = {}
    BY DEF SbInit
  <2>2. Cardinality(DOMAIN conn) <= PeerLimit
    BY <2>1, FS_EmptySet, BrowserAssumption
  <2>3. active \in BOOLEAN
    BY DEF SbInit
  <2>4. waiting = {} /\ rows = {}
    BY DEF SbInit
  <2> QED
    BY <2>0, <2>1, <2>2, <2>3, <2>4 DEF BrowserInv, SbTypeOK, OneRowPerQuery, AskedInv
<1>2. BrowserInv /\ [SbNext]_sbVars => BrowserInv'
  <2> SUFFICES ASSUME BrowserInv, [SbNext]_sbVars PROVE BrowserInv'
    OBVIOUS
  <2>1. ASSUME NEW q \in Queries,
               \/ ConnectionOpens(q) \/ HandleServerQuery(q) \/ HandleQueryList(q)
               \/ FarEndCloses(q) \/ ConnectionLost(q)
        PROVE  BrowserInv'
    <3>1. {"connected", "answered", "closed", "ended"} \subseteq Stages
      BY DEF Stages
    <3>2. ASSUME NEW from, Reaches(q, from, "ended") PROVE BrowserInv'
      BY <3>1, <3>2, ReachesInv
    <3>3. CASE ConnectionOpens(q) \/ HandleServerQuery(q) \/ HandleQueryList(q) \/ FarEndCloses(q)
      BY <3>1, <3>2, <3>3, ReachesInv DEF ConnectionOpens, HandleServerQuery, HandleQueryList, FarEndCloses
    <3> QED
      BY <2>1, <3>2, <3>3 DEF ConnectionLost
  <2>2. CASE UNCHANGED sbVars
    BY <2>2 DEF sbVars, BrowserInv, SbTypeOK, OneRowPerQuery, AskedInv
  <2> QED
    BY <2>1, <2>2, RefreshInv, UpdateBrowserInv DEF SbNext
<1> QED
  BY <1>1, <1>2, PTL

-----------------------------------------------------------------------------
(* All the parts together, as the run checks them.                         *)

\* A step of the composition is a step of one part and a stutter of the others.
LEMMA PartSteps ==
    ASSUME [MCNext]_vars
    PROVE  /\ [Call]_registry /\ [HsNext]_hsVars /\ [HkNext]_hkVars /\ [GpNext]_gpVars
           /\ [MlNext]_mlVars /\ [SbNext]_sbVars /\ [LgNext]_lgVars /\ [EhNext]_ehVars
<1>1. CASE UNCHANGED vars
  BY <1>1 DEF vars
<1>2. CASE MCNext
  BY <1>2 DEF MCNext
<1> QED
  BY <1>1, <1>2

\* Every part keeps its invariant in the composition.
LEMMA PlatformInvariant ==
    MCSpec => /\ []RegistryInv /\ []StubInv /\ []HookInv /\ []GlobalInv
              /\ []MasterInv /\ []BrowserInv /\ []GateInv /\ []HostInv
<1>1. MCInit => Init /\ HsInit /\ HkInit /\ GpInit /\ MlInit /\ SbInit /\ LgInit /\ EhInit
  BY DEF MCInit
<1>2. [MCNext]_vars => /\ [Call]_registry /\ [HsNext]_hsVars /\ [HkNext]_hkVars /\ [GpNext]_gpVars
                       /\ [MlNext]_mlVars /\ [SbNext]_sbVars /\ [LgNext]_lgVars /\ [EhNext]_ehVars
  BY PartSteps
<1>3. MCSpec => /\ Spec /\ HsSpec /\ HkSpec /\ GpSpec
                /\ MlInit /\ [][MlNext]_mlVars /\ SbInit /\ [][SbNext]_sbVars
                /\ LgInit /\ [][LgNext]_lgVars /\ EhInit /\ [][EhNext]_ehVars
  BY <1>1, <1>2, PTL DEF MCSpec, Spec, HsSpec, HkSpec, GpSpec
<1> QED
  BY <1>3, RegistryInvariant, StubInvariant, HookInvariant, GlobalInvariant, MasterInvariant,
     BrowserInvariant, GateInvariant, HostInvariant, PTL

\* Types and bounds of all parts: nesting depth of a hook, the reconnect delay,
\* the peers of the query host, for every value of the constants.
THEOREM PlatformTypes == MCSpec => []PlatformTypeOK
<1>1. RegistryInv /\ StubInv /\ HookInv /\ GlobalInv /\ MasterInv /\ BrowserInv /\ GateInv /\ HostInv
        => PlatformTypeOK
  BY DEF PlatformTypeOK, RegistryInv, StubInv, HookInv, GlobalInv, MasterInv, MasterTypes,
         BrowserInv, GateInv, HostInv
<1> QED
  BY <1>1, PlatformInvariant, PTL

\* The lists a player sees are right: the master's holds every server that
\* lives and was not displaced, and none whose link is closed, and the browser shows every query once.
THEOREM ListsAreRight == MCSpec => []ListsRight
<1>1. MasterInv /\ BrowserInv => ListsRight
  BY MasterMeaning DEF BrowserInv, ListsRight
<1> QED
  BY <1>1, PlatformInvariant, PTL
=============================================================================
