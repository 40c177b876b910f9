------------------------- MODULE AuthenticityPanel -------------------------
(***************************************************************************)
(* The build verifier (components/AuthenticityPanel.tsx): every asset is   *)
(* fetched and hashed, and fetched again past the cache when it differs;   *)
(* the verdict folds the assets' states in a fixed precedence.             *)
(*                                                                         *)
(* The world: what the edge cache and the origin serve for each asset,     *)
(* either this build's bytes or others; both may change meanwhile.         *)
(***************************************************************************)
EXTENDS Integers, FiniteSets

CONSTANTS
  Assets,     \* AUTH_ASSETS
  MaxRuns     \* bound: verifications in a behaviour

VARIABLE ui

AssetStates == {"pass", "stale", "mismatch", "fetchfail", "recheckfail"}

\* pc[a]: where asset a's check is: "plain" or "busted" while a fetch is out, then
\* its result; states: what the table shows; good and bad: the assets for which a
\* fetch of this run got this build's bytes, or others (history).
Init == \E can \in BOOLEAN :
  ui = [mounted |-> TRUE, supported |-> can, running |-> FALSE, runs |-> 0,
        pc |-> [a \in Assets |-> "idle"], states |-> [a \in Assets |-> "idle"],
        overall |-> "", core |-> "out", sig |-> "checking", good |-> {}, bad |-> {}]

View == [button  |-> IF ui.running THEN "verifying" ELSE IF ui.overall # "" THEN "again" ELSE "verify",
         enabled |-> ~ui.running /\ ui.supported,
         verdict |-> ui.overall,
         staleCount |-> Cardinality({a \in Assets : ui.states[a] = "stale"}),
         table   |-> ui.states,
         sig     |-> ui.sig,
         core    |-> IF ui.core = "build" THEN "build" ELSE "unavailable"]

\* The two lookups of the mount effect.
OnCore == /\ ui.core = "out"
          /\ \E ok \in BOOLEAN :
               ui' = [ui EXCEPT !.core = IF ok /\ ui.mounted THEN "build" ELSE "none"]
OnSig == /\ ui.mounted /\ ui.sig = "checking"
         /\ \E ok \in BOOLEAN : ui' = [ui EXCEPT !.sig = IF ok THEN "signed" ELSE "unsigned"]

verify == IF ui.running \/ ~ui.supported THEN UNCHANGED ui
          ELSE ui' = [ui EXCEPT !.running = TRUE, !.overall = "", !.runs = @ + 1,
                        !.states = [a \in Assets |-> "hashing"],
                        !.pc = [a \in Assets |-> "plain"], !.good = {}, !.bad = {}]
Click == ui.mounted /\ View.enabled /\ ui.runs < MaxRuns /\ verify

\* Stage 1: the bytes as served.  Only they can make an asset green.
OnPlain == \E a \in Assets, got \in {"match", "other", "failed"} :
  /\ ui.running /\ ui.pc[a] = "plain"
  /\ ui' = [ui EXCEPT !.pc[a] = CASE got = "match" -> "pass" [] got = "other" -> "busted"
                                  [] OTHER -> "fetchfail",
                      !.bad = IF got = "other" THEN @ \cup {a} ELSE @]
\* Stage 2: the bytes of the origin now.
OnBusted == \E a \in Assets, got \in {"match", "other", "failed"} :
  /\ ui.running /\ ui.pc[a] = "busted"
  /\ ui' = [ui EXCEPT !.pc[a] = CASE got = "match" -> "stale" [] got = "other" -> "mismatch"
                                  [] OTHER -> "recheckfail",
                      !.good = IF got = "match" THEN @ \cup {a} ELSE @]

Met(v) == \E a \in Assets : ui.pc[a] = v
Verdict == IF Met("mismatch") THEN "mismatch"
           ELSE IF Met("fetchfail") \/ Met("recheckfail") THEN "inconclusive"
           ELSE IF Met("stale") THEN "stale" ELSE "pass"
OnAll == /\ ui.running /\ \A a \in Assets : ui.pc[a] \in AssetStates
         /\ ui' = IF ~ui.mounted THEN [ui EXCEPT !.running = FALSE]
                  ELSE [ui EXCEPT !.running = FALSE, !.states = ui.pc, !.overall = Verdict]

\* Every fetch out is aborted, and fails at the stage it is in.
Unmount ==
  /\ ui.mounted
  /\ ui' = [ui EXCEPT !.mounted = FALSE, !.core = IF @ = "out" THEN "none" ELSE @,
              !.pc = [a \in Assets |-> CASE ui.pc[a] = "plain" -> "fetchfail"
                                         [] ui.pc[a] = "busted" -> "recheckfail"
                                         [] OTHER -> ui.pc[a]]]

Answered == OnCore \/ OnSig \/ OnPlain \/ OnBusted \/ OnAll
Next == Answered \/ Click \/ Unmount

\* Green means that every asset's own bytes matched; amber, that the origin has
\* this build's bytes of every asset that differed; red, that an asset differed.
\* Nothing is announced while a check is out.
ShownIsCurrent ==
  /\ ui.overall = "pass" => ui.bad = {}
  /\ ui.overall = "stale" => ui.bad # {} /\ ui.bad \subseteq ui.good
  /\ ui.overall = "mismatch" => ui.bad # {}
  /\ ui.running /\ ui.mounted => ui.overall = ""
BusyMatches == ui.mounted => ui.running = (\E a \in Assets : ui.states[a] = "hashing")
Idle == ~ui.running /\ ui.core # "out" /\ (ui.mounted => ui.sig # "checking")
=============================================================================
