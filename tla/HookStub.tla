------------------------------ MODULE HookStub ------------------------------
(***************************************************************************)
(* A hook on a game function that begins with `mov rax, rsp`.  HookManager *)
(* patches the function to jump to a generated naked detour; the detour    *)
(* notes the stack pointer and the return address in the hook's page, runs *)
(* the C++ hook, puts the return address back and returns.  The hook runs  *)
(* the original through a generated wrapper that returns to the stack of   *)
(* the noted call, so the page serves one call at a time: a nested call, or *)
(* any call while the hook is bypassed, goes straight to the trampoline.   *)
(*                                                                         *)
(* One thread of the game calls the function, nested up to CallBound deep; *)
(* call n has its own stack word, which holds n, the place to return to.   *)
(* Another thread may enable or disable the hook at any time.              *)
(***************************************************************************)
EXTENDS Naturals, Sequences

CONSTANT CallBound      \* nesting depth of the game's calls

ASSUME CallBoundIsNat == CallBound \in Nat \ {0}

VARIABLES
    entry,        \* the HookManager's record: "absent", "arming", "off" or "on"
    page,         \* the page of stubs is allocated
    patched,      \* the function jumps to the page
    bypass,       \* the page's bypass flag
    depth,        \* the page's nesting counter
    captured,     \* captured_rsp: the call whose stack was noted
    savedRet,     \* saved_game_ret
    stubRsp,      \* stub_rsp: the call whose C++ hook waits for the original
    stack,        \* the calls in progress
    word,         \* the return word of each call, as it is on the stack
    failed,       \* HookHealth::trampolineFailed
    went          \* the last call that returned, and where it returned to

pageVars == <<entry, page, patched, bypass>>
hsVars == <<pageVars, depth, captured, savedRet, stubRsp, stack, word, failed, went>>

ReturnPoint == 0        \* the wrapper's own return point

Top == Len(stack)

\* Calls whose C++ hook is running.
Hooked == {n \in 1 .. Top : stack[n] # "raw"}

HsInit ==
    /\ entry = "absent" /\ page = FALSE /\ patched = FALSE /\ bypass = FALSE
    /\ depth = 0 /\ captured = 0 /\ savedRet = 0 /\ stubRsp = 0
    /\ stack = <<>>
    /\ word = [n \in 1 .. CallBound |-> n]
    /\ failed = FALSE
    /\ went = <<1, 1>>

-----------------------------------------------------------------------------
(* HookManager                                                             *)

\* Mutant of Cleanup: a failed installation leaves the page behind.
CleanupForgetsPage == patched' = FALSE /\ page' = TRUE /\ entry' = "absent"

\* What InstallRaw leaves when MH_CreateHook, the trampoline check, the
\* generator or MH_EnableHook fails.
Cleanup == patched' = FALSE /\ page' = FALSE /\ entry' = "absent"

\* InstallRaw, up to MH_EnableHook; the slots of the new page are zero, and so
\* is its flag: a call can come before the hook is bypassed.
Install ==
    /\ entry = "absent" /\ Hooked = {}
    /\ \/ Cleanup /\ UNCHANGED <<bypass, depth>>
       \/ /\ page' = TRUE /\ patched' = TRUE /\ entry' = "arming"
          /\ bypass' = FALSE /\ depth' = 0
    /\ UNCHANGED <<captured, savedRet, stubRsp, stack, word, failed, went>>

\* The flag is set and the hook recorded.
StartBypassed ==
    /\ entry = "arming"
    /\ bypass' = TRUE /\ entry' = "off"
    /\ UNCHANGED <<page, patched, depth, captured, savedRet, stubRsp, stack, word, failed, went>>

\* Enable and Disable only flip the page's flag.
Enable ==
    /\ entry = "off"
    /\ bypass' = FALSE /\ entry' = "on"
    /\ UNCHANGED <<page, patched, depth, captured, savedRet, stubRsp, stack, word, failed, went>>

Disable ==
    /\ entry = "on"
    /\ bypass' = TRUE /\ entry' = "off"
    /\ UNCHANGED <<page, patched, depth, captured, savedRet, stubRsp, stack, word, failed, went>>

\* Shutdown and Remove restore the function before they free the page.  The
\* game thread that runs them is not inside the hook.
Remove ==
    /\ entry \in {"off", "on"} /\ Hooked = {}
    /\ patched' = FALSE /\ page' = FALSE /\ entry' = "absent"
    /\ UNCHANGED <<bypass, depth, captured, savedRet, stubRsp, stack, word, failed, went>>

-----------------------------------------------------------------------------
(* The generated code                                                      *)

\* Mutant of Capture: the noted stack is that of an earlier call.
CaptureStale(n) == UNCHANGED captured /\ savedRet' = word'[n]

\* The stores of the detour's normal path for call n.
Capture(n) == captured' = n /\ savedRet' = word'[n]

Reentrant(d) == d # 1

\* Mutant of RawDepth: the bypass jumps to the tail of the nested path.
RawDepthShared == IF patched THEN (IF bypass THEN depth - 1 ELSE depth + 1 - 1) ELSE depth

\* A nested call counts itself in and out again; a bypassed one never counts.
RawDepth == IF patched /\ ~bypass THEN depth + 1 - 1 ELSE depth

\* The game, or the hook itself, calls the function; the naked detour decides.
GameCalls ==
    /\ Top < CallBound
    /\ LET n == Top + 1
           normal == patched /\ ~bypass /\ ~Reentrant(depth + 1)
       IN  /\ word' = [word EXCEPT ![n] = n]
           /\ stack' = Append(stack, IF normal THEN "hook" ELSE "raw")
           /\ IF normal THEN Capture(n) /\ depth' = depth + 1
                        ELSE depth' = RawDepth /\ UNCHANGED <<captured, savedRet>>
    /\ UNCHANGED <<pageVars, stubRsp, failed, went>>

\* The C++ hook calls the original through SafeCall and the wrapper.
CallOriginal ==
    /\ Top > 0 /\ stack[Top] = "hook" /\ ~failed
    /\ stubRsp' = Top
    /\ word' = [word EXCEPT ![captured] = ReturnPoint]
    /\ stack' = [stack EXCEPT ![Top] = "original"]
    /\ UNCHANGED <<pageVars, depth, captured, savedRet, failed, went>>

\* The original pops the word at the noted stack; at the return point the
\* stack of the waiting hook is restored.
OriginalReturns ==
    /\ Top > 0 /\ stack[Top] = "original"
    /\ word[Top] = ReturnPoint /\ stubRsp = Top
    /\ stack' = [stack EXCEPT ![Top] = "after"]
    /\ UNCHANGED <<pageVars, depth, captured, savedRet, stubRsp, word, failed, went>>

\* A fault below the hook ends at SafeCall's handler: the calls nested in the
\* original are gone and the trampoline is never used again.
OriginalFaults ==
    /\ \E n \in Hooked :
         /\ stack[n] = "original"
         /\ stack' = Append(SubSeq(stack, 1, n - 1), "after")
    /\ failed' = TRUE
    /\ UNCHANGED <<pageVars, depth, captured, savedRet, stubRsp, word, went>>

\* Mutant of Restored: the detour returns through whatever the word holds.
RestoredNot(n) == word[n]

\* The word of call n when the detour returns.
Restored(n) == savedRet

\* Mutant of LeaveDepth: the counter is not taken down again.
LeaveDepthStays == depth

LeaveDepth == depth - 1

\* The C++ hook returns to the detour, with or without the original.
HookReturns ==
    /\ Top > 0
    /\ stack[Top] = "after" \/ (stack[Top] = "hook" /\ failed)
    /\ went' = <<Top, Restored(Top)>>
    /\ word' = [word EXCEPT ![Top] = Restored(Top)]
    /\ depth' = LeaveDepth
    /\ stack' = SubSeq(stack, 1, Top - 1)
    /\ UNCHANGED <<pageVars, captured, savedRet, stubRsp, failed>>

\* A call that went straight to the trampoline returns.
RawReturns ==
    /\ Top > 0 /\ stack[Top] = "raw"
    /\ went' = <<Top, word[Top]>>
    /\ stack' = SubSeq(stack, 1, Top - 1)
    /\ UNCHANGED <<pageVars, depth, captured, savedRet, stubRsp, word, failed>>

HsNext ==
    \/ Install \/ StartBypassed \/ Enable \/ Disable \/ Remove
    \/ GameCalls \/ CallOriginal \/ OriginalReturns \/ OriginalFaults
    \/ HookReturns \/ RawReturns

HsSpec == HsInit /\ [][HsNext]_hsVars

-----------------------------------------------------------------------------
HsTypeOK ==
    /\ entry \in {"absent", "arming", "off", "on"}
    /\ {page, patched, bypass, failed} \subseteq BOOLEAN
    /\ depth \in 0 .. CallBound
    /\ {captured, savedRet, stubRsp} \subseteq 0 .. CallBound
    /\ stack \in Seq({"raw", "hook", "original", "after"}) /\ Top <= CallBound
    /\ word \in [1 .. CallBound -> 0 .. CallBound]
    /\ went \in (1 .. CallBound) \X (0 .. CallBound)

\* Every call returns to its own caller, however calls are nested, whenever
\* the hook is switched and whether or not the original faulted.
ReturnsHome == went[1] = went[2]

\* The counter is the number of calls inside the C++ hook, never more than
\* one: switching the hook during a call, or a fault in the original, leaves
\* no count behind that would silence the hook for good.
DepthBalanced == page => depth = (IF Hooked = {} THEN 0 ELSE 1)

\* The stack noted in the page is that of the call inside the hook, and a
\* waiting hook waits for that call's original.
OneGuest ==
    \A n \in Hooked : captured = n /\ (stack[n] = "original" => stubRsp = n)

\* The function jumps into memory that exists, and a page exists only for a
\* recorded hook, whichever step of an installation failed.
NoStrayPage == (patched => page) /\ (page <=> entry # "absent")

\* The generated code is transparent: every call comes home, nothing is left
\* behind in the page, and there is a page wherever the function jumps.
StubSafe == ReturnsHome /\ DepthBalanced /\ OneGuest /\ NoStrayPage
=============================================================================
