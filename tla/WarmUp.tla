------------------------------ MODULE WarmUp ------------------------------
(***************************************************************************)
(* A flow rule that warms up and rejects (flow/tc_warm_up.go,              *)
(* tc_default.go): the longer a resource has been idle, the more tokens    *)
(* are stored, and the more tokens are stored, the less may pass.  Once a  *)
(* second the first request refills them and takes what has passed since;  *)
(* nothing but one compare-and-swap keeps others from doing it again.      *)
(*                                                                         *)
(* A step is one access to an atomic field.  Time goes by in buckets of    *)
(* half a second, and is kept as ages: a run has no end.  A limit of       *)
(* 1 / (above * slope + 1 / threshold) is compared without dividing.       *)
(***************************************************************************)
EXTENDS Integers

CONSTANTS Requests,
          Threshold, WarmUpPeriodSec, ColdFactor,  \* of the rule
          MaxAge,    \* bound: ages from which on the tokens are full anyway
          MaxSlow    \* bound: seconds that end within a call

VARIABLES
  stored,   \* storedTokens
  filled,   \* the age of lastFilledTime, in seconds
  window,   \* what has passed in this half second and in the two before
  half,     \* which half of the second it is
  pc, req,  \* where a request is, and its local variables
  refused,  \* one was refused in this half second
  slow

vars == <<stored, filled, window, half, pc, req, refused, slow>>

Least(a, b) == IF a < b THEN a ELSE b
Most(a, b) == IF a > b THEN a ELSE b

warningToken == (WarmUpPeriodSec * Threshold) \div (ColdFactor - 1)
maxToken == warningToken + (2 * WarmUpPeriodSec * Threshold) \div (1 + ColdFactor)

Local == [lag |-> 0, pass |-> 0, old |-> 0, new |-> 0, rest |-> 0]

(* A new calculator (whose lastFilledTime is 0), or one that nobody has     *)
(* asked for long, whatever it has stored.                                 *)
Init ==
  /\ stored \in 0..maxToken /\ filled = MaxAge
  /\ window = <<0, 0, 0>> /\ half = 0
  /\ pc = [r \in Requests |-> "idle"] /\ req = [r \in Requests |-> Local]
  /\ refused = FALSE /\ slow = 0

At(r, l) == pc[r] = l
Goto(r, l) == pc' = [pc EXCEPT ![r] = l]
Keep(r, f, v) == req' = [req EXCEPT ![r][f] = v]
Drop(r, l) == Goto(r, l) /\ req' = [req EXCEPT ![r] = Local]

statistic == <<window, half, refused, slow>>

(* Callers come for all they may pass: until one is refused.               *)
(* Reads the clock, and by it GetPreviousQPS, the window of a second that  *)
(* ended with the last bucket.                                             *)
Begin(r) ==
  /\ At(r, "idle")
  /\ ~refused
  /\ Keep(r, "pass", window[2] + window[3])
  /\ Goto(r, "filled")
  /\ UNCHANGED <<stored, filled, statistic>>

LoadFilled(r) ==
  /\ At(r, "filled")
  /\ IF req[r].lag >= filled THEN Drop(r, "rest") ELSE Goto(r, "old") /\ UNCHANGED req
  /\ UNCHANGED <<stored, filled, statistic>>

LoadOld(r) ==
  /\ At(r, "old")
  /\ Keep(r, "old", stored)
  /\ Goto(r, "cool")
  /\ UNCHANGED <<stored, filled, statistic>>

(* Mutation: the demand is not looked at.                                  *)
FillsAnyway(pass) == stored # warningToken

(* coolDownTokens loads the tokens again.  With exactly as many as the     *)
(* warning line it does not fill.                                          *)
Fills(pass) ==
  \/ stored < warningToken
  \/ stored > warningToken /\ pass < Threshold \div ColdFactor

CoolDown(r) ==
  /\ At(r, "cool")
  /\ Keep(r, "new", Least(stored, maxToken))
  /\ Goto(r, IF Fills(req[r].pass) THEN "since" ELSE "cas")
  /\ UNCHANGED <<stored, filled, statistic>>

(* Another request may have stored a later time than this one's by now:    *)
(* below the warning line the difference is a negative number, above it is *)
(* one of 64 bits without a sign.                                          *)
Filled(value, since) ==
  IF since < 0 /\ value > warningToken THEN maxToken ELSE Least(value + since * Threshold, maxToken)

LoadSince(r) ==
  /\ At(r, "since")
  /\ Keep(r, "new", Filled(req[r].new, filled - req[r].lag))
  /\ Goto(r, "cas")
  /\ UNCHANGED <<stored, filled, statistic>>

CompareAndSwap(r) ==
  /\ At(r, "cas")
  /\ IF stored = req[r].old
       THEN /\ stored' = req[r].new
            /\ req' = [req EXCEPT ![r].old = 0, ![r].new = 0]
            /\ Goto(r, "add")
       ELSE Drop(r, "rest") /\ UNCHANGED stored
  /\ UNCHANGED <<filled, statistic>>

Add(r) ==
  /\ At(r, "add")
  /\ stored' = stored - req[r].pass
  /\ Keep(r, "pass", 0)
  /\ Goto(r, IF stored' < 0 THEN "zero" ELSE "store")
  /\ UNCHANGED <<filled, statistic>>

StoreZero(r) ==
  /\ At(r, "zero")
  /\ stored' = 0
  /\ Goto(r, "store")
  /\ UNCHANGED <<filled, req, statistic>>

StoreFilled(r) ==
  /\ At(r, "store")
  /\ filled' = req[r].lag
  /\ Drop(r, "rest")
  /\ UNCHANGED <<stored, statistic>>

LoadRest(r) ==
  /\ At(r, "rest")
  /\ Keep(r, "rest", Most(stored, 0))
  /\ Goto(r, "check")
  /\ UNCHANGED <<stored, filled, statistic>>

(* The limit is Threshold up to the warning line, and Threshold divided by *)
(* ColdFactor at maxToken.  When maxToken is warningToken the slope is     *)
(* infinite and the limit not a number, above which nothing is.            *)
Allowed(count, rest) ==
  LET above == rest - warningToken
      room == maxToken - warningToken
  IN IF above >= 0 THEN count * (above * (ColdFactor - 1) + room) <= Threshold * room
                   ELSE count <= Threshold

(* RejectTrafficShapingChecker.DoCheck                                     *)
DoCheck(r) ==
  /\ At(r, "check")
  /\ IF Allowed(window[1] + window[2] + 1, req[r].rest)
       THEN Drop(r, "record") /\ UNCHANGED refused
       ELSE Drop(r, "idle") /\ refused' = TRUE
  /\ UNCHANGED <<stored, filled, window, half, slow>>

(* The statistics slot, after all the rules have been asked.               *)
Record(r) ==
  /\ At(r, "record")
  /\ window' = [window EXCEPT ![1] = @ + 1]
  /\ refused' = FALSE
  /\ Drop(r, "idle")
  /\ UNCHANGED <<stored, filled, half, slow>>

Step(r) ==
  \/ LoadFilled(r) \/ LoadOld(r) \/ CoolDown(r) \/ LoadSince(r) \/ CompareAndSwap(r)
  \/ Add(r) \/ StoreZero(r) \/ StoreFilled(r) \/ LoadRest(r) \/ DoCheck(r) \/ Record(r)

(* What a request has read of the clock grows old with its second.         *)
Calling(r) == pc[r] \in {"filled", "old", "cool", "since", "cas", "add", "zero", "store"}

Tick ==
  /\ refused
  /\ slow' = IF half = 1 /\ \E r \in Requests : Calling(r) THEN slow + 1 ELSE slow
  /\ slow' <= MaxSlow
  /\ half' = 1 - half
  /\ window' = <<0, window[1], window[2]>>
  /\ refused' = FALSE
  /\ filled' = IF half = 1 THEN Least(filled + 1, MaxAge) ELSE filled
  /\ req' = [r \in Requests |->
               IF half = 1 /\ Calling(r) THEN [req[r] EXCEPT !.lag = @ + 1] ELSE req[r]]
  /\ UNCHANGED <<stored, pc>>

Next == Tick \/ \E r \in Requests : Begin(r) \/ Step(r)

(* Calls end, time goes by, and callers come.                              *)
Fairness == WF_vars(Tick) /\ \A r \in Requests : WF_vars(Begin(r) \/ Step(r))

Spec == Init /\ [][Next]_vars /\ Fairness

-----------------------------------------------------------------------------
(* Callers who come for all they may pass are let up to Threshold after a  *)
(* while, and stay so: what they pass uses up the tokens faster than the   *)
(* seconds bring new ones, whatever the requests that refill at once do to *)
(* each other.  (ColdFactor is at most Threshold: a cold resource whose    *)
(* limit is below one lets nothing pass, and never becomes warm.)          *)
WarmsUp == <>[]((\A r \in Requests : ~At(r, "add")) => stored <= warningToken)

=============================================================================
