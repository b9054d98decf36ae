--------------------------- MODULE ContextLifecycle ---------------------------
(***************************************************************************)
(* There may be one Context at a time: its constructor claims an atomic    *)
(* flag and, if the program chooses an SSL backend, builds a CURLSetup,    *)
(* which claims a flag of its own and initialises libcurl.  Threads create *)
(* and destroy Contexts as they please, every constructor may throw half   *)
(* way, and the destructors undo the two claims one after the other.       *)
(*                                                                         *)
(* pc[t] is what thread t does:                                            *)
(*   out        it has no Context                                          *)
(*   setup      in Context's constructor, before CURLSetup's               *)
(*   backend, init   in CURLSetup's, before sslset and before global_init  *)
(*   cache      in Context's constructor, before the cache directory       *)
(*   alive      it has a Context                                           *)
(*   cleanup, release   in the destructor of CURLSetup, after that of      *)
(*              Context                                                    *)
(*   unwind, unclaim    in the destructor of CURLSetup, because Context's  *)
(*              constructor threw                                          *)
(*   refused    the exception of a constructor is on its way               *)
(*                                                                         *)
(* A definition named Broken... is a faulty variant of the one after it.   *)
(* Nothing uses it: it serves to show that a property can fail.            *)
(***************************************************************************)
CONSTANT Threads

VARIABLES
  isContextAlive, isCurlSetupAlive,   \* the two atomic flags
  pc,
  initialised,   \* threads whose CURLSetup has initialised libcurl
  leftContext,   \* history: a constructor threw and left isContextAlive set
  leftSetup      \* history: a constructor threw and left isCurlSetupAlive set

contextVars == <<isContextAlive, isCurlSetupAlive, pc, initialised, leftContext, leftSetup>>

Phases == {"out", "setup", "backend", "init", "cache", "alive", "cleanup", "release",
           "unwind", "unclaim", "refused"}

ContextInit ==
  /\ isContextAlive = FALSE /\ isCurlSetupAlive = FALSE
  /\ pc = [t \in Threads |-> "out"]
  /\ initialised = {}
  /\ leftContext = FALSE /\ leftSetup = FALSE

At(t, place) == pc[t] = place
Goto(t, place) == pc' = [pc EXCEPT ![t] = place]

-----------------------------------------------------------------------------
\* Context::Context.  The caller may choose an SSL backend or not.
BrokenClaimContext(t) ==
  /\ At(t, "out")
  /\ isContextAlive' = TRUE
  /\ Goto(t, "setup") \/ Goto(t, "cache")
  /\ UNCHANGED <<isCurlSetupAlive, initialised, leftContext, leftSetup>>
ClaimContext(t) ==
  /\ At(t, "out") /\ ~isContextAlive
  /\ isContextAlive' = TRUE
  /\ Goto(t, "setup") \/ Goto(t, "cache")
  /\ UNCHANGED <<isCurlSetupAlive, initialised, leftContext, leftSetup>>

ContextRefused(t) ==
  /\ At(t, "out") /\ isContextAlive
  /\ Goto(t, "refused")
  /\ UNCHANGED <<isContextAlive, isCurlSetupAlive, initialised, leftContext, leftSetup>>

\* CURLSetup::CURLSetup.
BrokenClaimSetup(t) ==
  /\ At(t, "setup")
  /\ isCurlSetupAlive' = TRUE
  /\ Goto(t, "backend")
  /\ UNCHANGED <<isContextAlive, initialised, leftContext, leftSetup>>
ClaimSetup(t) ==
  /\ At(t, "setup") /\ ~isCurlSetupAlive
  /\ isCurlSetupAlive' = TRUE
  /\ Goto(t, "backend")
  /\ UNCHANGED <<isContextAlive, initialised, leftContext, leftSetup>>

\* An object whose constructor throws has no destructor run: the flags that
\* the constructor had claimed stay set.
SetupRefused(t) ==
  /\ At(t, "setup") /\ isCurlSetupAlive
  /\ Goto(t, "refused")
  /\ leftContext' = TRUE
  /\ UNCHANGED <<isContextAlive, isCurlSetupAlive, initialised, leftSetup>>

BackendSet(t) ==
  /\ At(t, "backend")
  /\ Goto(t, "init")
  /\ UNCHANGED <<isContextAlive, isCurlSetupAlive, initialised, leftContext, leftSetup>>

CurlInitialised(t) ==
  /\ At(t, "init")
  /\ initialised' = initialised \cup {t}
  /\ Goto(t, "cache")
  /\ UNCHANGED <<isContextAlive, isCurlSetupAlive, leftContext, leftSetup>>

\* The backend is unknown, absent or chosen too late, or libcurl does not start.
SetupThrows(t) ==
  /\ At(t, "backend") \/ At(t, "init")
  /\ Goto(t, "refused")
  /\ leftContext' = TRUE /\ leftSetup' = TRUE
  /\ UNCHANGED <<isContextAlive, isCurlSetupAlive, initialised>>

ContextCreated(t) ==
  /\ At(t, "cache")
  /\ Goto(t, "alive")
  /\ UNCHANGED <<isContextAlive, isCurlSetupAlive, initialised, leftContext, leftSetup>>

\* The cache directory cannot be created: impl is destroyed, and CURLSetup with it.
CacheThrows(t) ==
  /\ At(t, "cache")
  /\ Goto(t, IF t \in initialised THEN "unwind" ELSE "refused")
  /\ leftContext' = TRUE
  /\ UNCHANGED <<isContextAlive, isCurlSetupAlive, initialised, leftSetup>>

-----------------------------------------------------------------------------
\* Context::~Context: its body clears the flag, then its members go.
DestroyContext(t) ==
  /\ At(t, "alive")
  /\ isContextAlive' = FALSE
  /\ Goto(t, IF t \in initialised THEN "cleanup" ELSE "out")
  /\ UNCHANGED <<isCurlSetupAlive, initialised, leftContext, leftSetup>>

\* CURLSetup::~CURLSetup, in either case.
CleanupCurl(t) ==
  /\ At(t, "cleanup") \/ At(t, "unwind")
  /\ initialised' = initialised \ {t}
  /\ Goto(t, IF At(t, "cleanup") THEN "release" ELSE "unclaim")
  /\ UNCHANGED <<isContextAlive, isCurlSetupAlive, leftContext, leftSetup>>

ReleaseSetup(t) ==
  /\ At(t, "release") \/ At(t, "unclaim")
  /\ isCurlSetupAlive' = FALSE
  /\ Goto(t, IF At(t, "release") THEN "out" ELSE "refused")
  /\ UNCHANGED <<isContextAlive, initialised, leftContext, leftSetup>>

\* The program catches the exception, and may try again.
Caught(t) ==
  /\ At(t, "refused")
  /\ Goto(t, "out")
  /\ UNCHANGED <<isContextAlive, isCurlSetupAlive, initialised, leftContext, leftSetup>>

ContextNext ==
  \E t \in Threads :
    \/ ClaimContext(t) \/ ContextRefused(t) \/ ClaimSetup(t) \/ SetupRefused(t)
    \/ BackendSet(t) \/ CurlInitialised(t) \/ SetupThrows(t)
    \/ ContextCreated(t) \/ CacheThrows(t)
    \/ DestroyContext(t) \/ CleanupCurl(t) \/ ReleaseSetup(t) \/ Caught(t)

ContextSpec == ContextInit /\ [][ContextNext]_contextVars

-----------------------------------------------------------------------------
\* Properties.

\* Every variable keeps its type.
ContextTypeOK ==
  /\ isContextAlive \in BOOLEAN /\ isCurlSetupAlive \in BOOLEAN
  /\ pc \in [Threads -> Phases]
  /\ initialised \subseteq Threads
  /\ leftContext \in BOOLEAN /\ leftSetup \in BOOLEAN

\* A thread is inside Context, from the claim to the release of its flag.
HoldsContext(t) == pc[t] \in {"setup", "backend", "init", "cache", "alive"}

\* A thread has a CURLSetup, from the claim to the release of its flag.
HoldsSetup(t) == pc[t] \in {"backend", "init", "cleanup", "release", "unwind", "unclaim"}
                   \/ t \in initialised

\* However constructions, failures and destructions of several threads
\* interleave, two threads never have a CURLSetup at once: libcurl is never
\* configured or cleaned up by one under another (curl_internal.hpp:11).
OneCurlSetup == \A t, u \in Threads : HoldsSetup(t) /\ HoldsSetup(u) => t = u

\* Two Contexts whose destructor has not begun never exist at once.
OneContextHeld == \A t, u \in Threads : HoldsContext(t) /\ HoldsContext(u) => t = u

\* A flag is set exactly as long as a thread is inside what it guards, or
\* because a constructor that threw left it behind; nothing else loses one.
FlagsExplained ==
  /\ isContextAlive <=> leftContext \/ \E t \in Threads : HoldsContext(t)
  /\ isCurlSetupAlive <=> leftSetup \/ \E t \in Threads : HoldsSetup(t)

\* What makes the flags enough: one that a constructor left behind keeps every
\* thread out, for ever, and a CURLSetup stays with the thread that built it
\* until its destructor has cleaned up.
ContextInv ==
  /\ ContextTypeOK
  /\ OneCurlSetup /\ OneContextHeld /\ FlagsExplained
  /\ leftContext => \A t \in Threads : ~HoldsContext(t)
  /\ leftSetup => \A t \in Threads : ~HoldsSetup(t)
  /\ \A t \in initialised : pc[t] \in {"cache", "alive", "cleanup", "unwind"}
=============================================================================
