--------------------------- MODULE EditPagesProofs ---------------------------
(***************************************************************************)
(* What TLAPS proves about the edit page: every property that its run      *)
(* checks and that is no question of liveness.  The page is its parts side *)
(* by side, so each part is proved on its own: the optimisation client,    *)
(* the geocoding requests, the session and its save points, the imported   *)
(* table, the vehicles, the addresses.                                     *)
(***************************************************************************)
EXTENDS EditPages, ListFacts

\* The page is its parts side by side: each of them moves by its own next-state
\* relation or not at all, so what holds of a part holds on the page.
LEMMA PartsKeepToTheirs ==
  Spec => /\ Client!Spec /\ Addresses!Spec /\ Vehicles!Spec
          /\ Table!Spec /\ Session!Spec /\ Entry!Spec
<1>1. Init => /\ Client!Init /\ Addresses!Init /\ Vehicles!Init
              /\ Table!Init /\ Session!Init /\ Entry!Init
  BY DEF Init
<1>2. [Next]_vars => [Client!Next]_Client!clientVars
  BY DEF Next, vars, optimizeVars, Client!clientVars, Client!hookVars
<1>3. [Next]_vars => [Addresses!Next]_Addresses!addressVars
  BY DEF Next, vars, addressesVars, Addresses!addressVars
<1>4. [Next]_vars => [Vehicles!Next]_Vehicles!vehicleVars
  BY DEF Next, vars, vehiclesVars, Vehicles!vehicleVars
<1>5. [Next]_vars => [Table!Next]_Table!csvVars
  BY DEF Next, vars, importVars, Table!csvVars, Table!overlayVars
<1>6. [Next]_vars => [Session!Next]_Session!sessionVars
  BY DEF Next, vars, sessionVars, Session!sessionVars, Session!storage, Session!uploadPage,
     Session!editPage
<1>7. [Next]_vars => [Entry!Next]_Entry!entryVars
  BY DEF Next, vars, entryVars, Entry!entryVars, Entry!clock, Entry!overlay
<1> QED
  BY <1>1, <1>2, <1>3, <1>4, <1>5, <1>6, <1>7, PTL
  DEF Spec, Client!Spec, Addresses!Spec, Vehicles!Spec, Table!Spec, Session!Spec, Entry!Spec

-----------------------------------------------------------------------------
\* The lists without the bound of the model on their edits.
AnyLists == [version : Nat, complete : BOOLEAN, over : BOOLEAN]

Resting == {"idle", "done"}
OnTheWay == {"depot", "addresses", "submit", "poll", "sleep", "result"}

RunStates == [pc : Resting \cup OnTheWay, visit : Nat, lists : AnyLists, polls : Nat]

\* The values the variables of the argument take.
ClientTypeOK ==
  /\ oVisit \in Nat /\ oLists \in AnyLists /\ oDraft \in AnyLists
  /\ oApproved \in BOOLEAN /\ oActive \in Runs \cup {NoRun}
  /\ oRun \in [Runs -> RunStates]

\* A run that is in flight on the page that started it is the one of its hook ...
FlightIsActive == \A r \in Runs : Client!InFlight(r) /\ Client!Mounted(r) => oActive = r

\* ... which asks no question meanwhile ...
OneDialog == oPrompt # "none" => oActive = NoRun

\* ... and still shows the lists the run closed over.
ListsKept == \A r \in Runs : Client!InFlight(r) /\ Client!Mounted(r) => oRun[r].lists = oLists

\* No run knows a mount of the page that is yet to come.
VisitsPast == \A r \in Runs : oRun[r].visit <= oVisit

ClientIInv ==
  /\ ClientTypeOK /\ FlightIsActive /\ OneDialog /\ ListsKept /\ VisitsPast
  /\ Client!ConsentPerRun

-----------------------------------------------------------------------------
(* One run moves *)

\* A run goes on to its next await: only its place changes.
GoesOn(r) ==
  /\ oRun[r].pc \in OnTheWay
  /\ \E pc \in OnTheWay, polls \in Nat :
       oRun' = [oRun EXCEPT ![r].pc = pc, ![r].polls = polls]
  /\ oDraft' \in AnyLists
  /\ UNCHANGED <<oPage, oVisit, oLists, oPrompt, oApproved, oActive>>

\* A run ends, by its own finally block.
Ends(r) ==
  /\ oRun[r].pc \in OnTheWay
  /\ \E failed \in BOOLEAN : Client!Finish(r, failed)
  /\ UNCHANGED <<oPage, oVisit, oLists, oDraft>>

LEMMA RunStepKinds ==
  ASSUME ClientTypeOK, NEW r \in Runs, Client!RunStep(r)
  PROVE  GoesOn(r) \/ Ends(r) \/ Client!ResultArrives(r)
<1>0. oRun[r] \in RunStates /\ oRun[r].lists \in AnyLists /\ oRun[r].polls \in Nat
  BY DEF ClientTypeOK, RunStates
<1>1. ASSUME Client!Fails(r) \/ Client!PollFailed(r) \/ Client!GiveUp(r) PROVE Ends(r)
  BY <1>1 DEF Client!Fails, Client!PollFailed, Client!GiveUp, Ends, OnTheWay
<1>2. ASSUME NEW pc \in OnTheWay, Client!Goto(r, pc)
      PROVE  \E p \in OnTheWay, polls \in Nat :
               oRun' = [oRun EXCEPT ![r].pc = p, ![r].polls = polls]
  <2>1. oRun' = [oRun EXCEPT ![r].pc = pc, ![r].polls = oRun[r].polls]
    BY <1>0, <1>2 DEF Client!Goto, ClientTypeOK, RunStates
  <2> QED BY <1>0, <2>1
<1>3. ASSUME Client!DepotLocated(r) PROVE GoesOn(r)
  <2>1. Client!Goto(r, "addresses") /\ "addresses" \in OnTheWay
    BY <1>3 DEF Client!DepotLocated, OnTheWay
  <2> QED BY <1>0, <1>2, <1>3, <2>1 DEF Client!DepotLocated, GoesOn, OnTheWay, Client!hookVars
<1>4. ASSUME Client!AddressesLocated(r) PROVE GoesOn(r)
  <2>1. Client!Goto(r, "submit") /\ "submit" \in OnTheWay
    BY <1>4 DEF Client!AddressesLocated, OnTheWay
  <2> QED BY <1>2, <1>4, <2>1 DEF Client!AddressesLocated, GoesOn, OnTheWay,
                                  Client!hookVars, ClientTypeOK
<1>5. ASSUME Client!Submitted(r) PROVE GoesOn(r)
  <2>1. Client!Goto(r, "poll") /\ "poll" \in OnTheWay
    BY <1>5 DEF Client!Submitted, OnTheWay
  <2> QED BY <1>2, <1>5, <2>1 DEF Client!Submitted, GoesOn, OnTheWay, Client!hookVars,
                                  ClientTypeOK
<1>6. ASSUME Client!PollUnfinished(r) PROVE GoesOn(r)
  <2>1. Client!Goto(r, "sleep") /\ "sleep" \in OnTheWay
    BY <1>6 DEF Client!PollUnfinished, OnTheWay
  <2> QED BY <1>2, <1>6, <2>1 DEF Client!PollUnfinished, GoesOn, OnTheWay, Client!hookVars,
                                  ClientTypeOK
<1>7. ASSUME Client!PollSucceeded(r) PROVE GoesOn(r)
  <2>1. Client!Goto(r, "result") /\ "result" \in OnTheWay
    BY <1>7 DEF Client!PollSucceeded, OnTheWay
  <2> QED BY <1>2, <1>7, <2>1 DEF Client!PollSucceeded, GoesOn, OnTheWay, Client!hookVars,
                                  ClientTypeOK
<1>8. ASSUME Client!PollAgain(r) PROVE GoesOn(r)
  <2>1. /\ oRun' = [oRun EXCEPT ![r].pc = "poll", ![r].polls = oRun[r].polls + 1]
        /\ oRun[r].polls + 1 \in Nat /\ "poll" \in OnTheWay /\ oRun[r].pc \in OnTheWay
    BY <1>0, <1>8 DEF Client!PollAgain, OnTheWay
  <2> QED BY <1>8, <2>1 DEF Client!PollAgain, GoesOn, Client!hookVars, ClientTypeOK
<1> QED
  BY <1>1, <1>3, <1>4, <1>5, <1>6, <1>7, <1>8 DEF Client!RunStep

LEMMA GoesOnKeeps ==
  ASSUME ClientIInv, NEW r \in Runs, GoesOn(r)
  PROVE  ClientIInv'
<1> USE DEF ClientIInv
<1>1. PICK p \in OnTheWay, polls \in Nat :
        oRun' = [oRun EXCEPT ![r].pc = p, ![r].polls = polls]
  BY DEF GoesOn
<1>2. \A s \in Runs : /\ oRun'[s].visit = oRun[s].visit /\ oRun'[s].lists = oRun[s].lists
                      /\ s # r => oRun'[s] = oRun[s]
  BY <1>1 DEF ClientTypeOK, RunStates
<1>3. oRun[r].pc \in OnTheWay /\ oRun'[r].pc = p
  BY <1>1 DEF GoesOn, ClientTypeOK, RunStates
<1>4. \A s \in Runs : /\ Client!InFlight(s)' <=> Client!InFlight(s)
                      /\ Client!Mounted(s)' <=> Client!Mounted(s)
  BY <1>2, <1>3 DEF Client!InFlight, Client!Mounted, OnTheWay, GoesOn
<1>5. ClientTypeOK'
  <2>1. oRun[r] \in RunStates
    BY DEF ClientTypeOK
  <2>2. [oRun[r] EXCEPT !.pc = p, !.polls = polls] \in RunStates
    BY <2>1 DEF RunStates
  <2>3. oRun' = [oRun EXCEPT ![r] = [oRun[r] EXCEPT !.pc = p, !.polls = polls]]
    BY <1>1
  <2>4. oRun' \in [Runs -> RunStates]
    BY <2>2, <2>3 DEF ClientTypeOK
  <2> QED BY <2>4 DEF ClientTypeOK, GoesOn
<1> QED
  BY <1>2, <1>4, <1>5
  DEF GoesOn, FlightIsActive, OneDialog, ListsKept, VisitsPast, Client!ConsentPerRun

LEMMA EndsKeeps ==
  ASSUME ClientIInv, NEW r \in Runs, Ends(r)
  PROVE  ClientIInv'
<1> USE DEF ClientIInv
<1>1. /\ oRun' = [oRun EXCEPT ![r] = Client!NotRunning("done")]
      /\ UNCHANGED <<oPage, oVisit, oLists, oDraft>> /\ oPrompt' = oPrompt
      /\ IF Client!Mounted(r) THEN oApproved' = FALSE /\ oActive' = NoRun
                       ELSE oApproved' = oApproved /\ oActive' = oActive
  BY DEF Ends, Client!Finish, Client!SetPartialApproval, Client!NextPartialApproval,
     Client!hookVars
<1>2. /\ Client!NotRunning("done") \in RunStates
      /\ Client!NotRunning("done").pc = "done" /\ Client!NotRunning("done").visit = 0
  BY DEF Client!NotRunning, RunStates, AnyLists, Client!Empty, Resting
<1>3. /\ \A s \in Runs \ {r} : oRun'[s] = oRun[s]
      /\ oRun'[r] = Client!NotRunning("done")
  BY <1>1 DEF ClientTypeOK
<1>4. ClientTypeOK' /\ VisitsPast'
  <2>1. oRun' \in [Runs -> RunStates]
    BY <1>1, <1>2 DEF ClientTypeOK
  <2>2. oApproved' \in BOOLEAN /\ oActive' \in Runs \cup {NoRun}
    BY <1>1 DEF ClientTypeOK
  <2>3. ClientTypeOK'
    BY <1>1, <2>1, <2>2 DEF ClientTypeOK
  <2>4. oVisit \in Nat /\ oVisit' = oVisit
    BY <1>1 DEF ClientTypeOK
  <2> QED BY <1>2, <1>3, <2>3, <2>4 DEF VisitsPast
<1>5. /\ ~Client!InFlight(r)'
      /\ \A s \in Runs \ {r} : /\ Client!InFlight(s)' <=> Client!InFlight(s)
                               /\ Client!Mounted(s)' <=> Client!Mounted(s)
  BY <1>1, <1>2, <1>3 DEF Client!InFlight, Client!Mounted
<1>6. Client!Mounted(r) => \A s \in Runs \ {r} : ~(Client!InFlight(s) /\ Client!Mounted(s))
  <2>1. Client!InFlight(r)
    BY DEF Ends, Client!InFlight, OnTheWay
  <2> QED BY <2>1 DEF FlightIsActive
<1> QED
  BY <1>1, <1>3, <1>4, <1>5, <1>6
  DEF FlightIsActive, OneDialog, ListsKept, Client!ConsentPerRun

-----------------------------------------------------------------------------
(* The page and the prompts *)

\* When the hook has no run, no run is in flight on its page.
LEMMA NobodyFlies ==
  ASSUME ClientIInv, oActive = NoRun, NEW r \in Runs
  PROVE  ~(Client!InFlight(r) /\ Client!Mounted(r))
BY ClientAssumed DEF ClientIInv, FlightIsActive, Client!ClientAssumption

LEMMA UserStepKeeps ==
  ASSUME ClientIInv, Client!UserStep
  PROVE  ClientIInv'
<1> USE DEF ClientIInv
<1>1. CASE Client!Edit
  <2>1. oLists' \in AnyLists
    BY <1>1 DEF Client!Edit, ClientTypeOK, AnyLists
  <2>2. /\ oActive = NoRun
        /\ UNCHANGED <<oPage, oVisit, oDraft, oPrompt, oApproved, oActive, oRun>>
    BY <1>1 DEF Client!Edit, Client!CanEdit, Client!hookVars
  <2>3. \A r \in Runs : ~(Client!InFlight(r) /\ Client!Mounted(r))'
    BY <2>2, NobodyFlies DEF Client!InFlight, Client!Mounted
  <2> QED
    BY <2>1, <2>2, <2>3
    DEF ClientTypeOK, FlightIsActive, OneDialog, ListsKept, VisitsPast, Client!ConsentPerRun
<1>2. CASE Client!Leave \/ Client!Return
  <2>1. /\ oRun' = oRun /\ oPrompt' = "none" /\ oApproved' = FALSE /\ oActive' = NoRun
        /\ oLists' \in AnyLists /\ oDraft' = oDraft /\ oVisit' \in Nat /\ oVisit <= oVisit'
        /\ oPage' # "edit" \/ oVisit' = oVisit + 1
    BY <1>2 DEF Client!Leave, Client!Return, Client!ResetHook, ClientTypeOK
  <2>2. VisitsPast'
    BY <2>1 DEF VisitsPast, ClientTypeOK, RunStates
  <2>3. \A r \in Runs : ~Client!Mounted(r)'
    <3> SUFFICES ASSUME NEW r \in Runs PROVE ~Client!Mounted(r)'
      OBVIOUS
    <3>1. oRun[r].visit \in Nat /\ oRun[r].visit <= oVisit /\ oVisit \in Nat
      BY DEF ClientTypeOK, RunStates, VisitsPast
    <3> QED BY <2>1, <3>1 DEF Client!Mounted
  <2> QED
    BY <2>1, <2>2, <2>3 DEF ClientTypeOK, FlightIsActive, OneDialog, ListsKept,
                            Client!ConsentPerRun
<1>3. CASE Client!StartOptimize \/ Client!Dismiss
  <2>1. /\ oActive = NoRun /\ oApproved' = FALSE
        /\ UNCHANGED <<oPage, oVisit, oLists, oDraft, oActive, oRun>>
    BY <1>3 DEF Client!StartOptimize, Client!Dismiss, OneDialog, Client!SetPartialApproval,
                Client!NextPartialApproval
  <2>2. \A r \in Runs : ~(Client!InFlight(r) /\ Client!Mounted(r))'
    BY <2>1, NobodyFlies DEF Client!InFlight, Client!Mounted
  <2> QED
    BY <2>1, <2>2
    DEF ClientTypeOK, FlightIsActive, OneDialog, ListsKept, VisitsPast, Client!ConsentPerRun
<1>4. CASE Client!OptimizeAnyway
  <2>1. /\ oActive = NoRun /\ oApproved' = TRUE /\ oPrompt' = "depot"
        /\ UNCHANGED <<oPage, oVisit, oLists, oDraft, oActive, oRun>>
    BY <1>4 DEF Client!OptimizeAnyway, OneDialog, Client!SetPartialApproval,
                Client!NextPartialApproval
  <2>2. \A r \in Runs : ~(Client!InFlight(r) /\ Client!Mounted(r))'
    BY <2>1, NobodyFlies DEF Client!InFlight, Client!Mounted
  <2> QED
    BY <2>1, <2>2
    DEF ClientTypeOK, FlightIsActive, OneDialog, ListsKept, VisitsPast, Client!ConsentPerRun
<1>5. CASE Client!ClearError
  <2>1. UNCHANGED <<oPage, oVisit, oLists, oDraft, oPrompt, oApproved, oActive, oRun>>
    BY <1>5 DEF Client!ClearError
  <2> QED
    BY <2>1 DEF ClientTypeOK, FlightIsActive, OneDialog, ListsKept, VisitsPast,
                Client!ConsentPerRun,
                Client!InFlight, Client!Mounted
<1>6. ASSUME NEW r \in Runs, Client!Optimize(r) PROVE ClientIInv'
  <2>1. oActive = NoRun /\ UNCHANGED <<oPage, oVisit, oLists, oDraft>>
    BY <1>6 DEF Client!Optimize
  <2>2. CASE oActive' = oActive /\ oRun' = oRun /\ oApproved' \in BOOLEAN /\ ~oApproved'
    <3>1. \A s \in Runs : ~(Client!InFlight(s) /\ Client!Mounted(s))'
      BY <2>1, <2>2, NobodyFlies DEF Client!InFlight, Client!Mounted
    <3> QED
      BY <2>1, <2>2, <3>1
      DEF ClientTypeOK, FlightIsActive, OneDialog, ListsKept, VisitsPast, Client!ConsentPerRun
  <2>3. CASE /\ oPrompt' = "none" /\ oActive' = r /\ oApproved' = oApproved
             /\ oLists.over => oApproved
             /\ oRun' = [oRun EXCEPT ![r] = [pc |-> "depot", visit |-> oVisit, lists |-> oLists,
                                           polls |-> 0]]
    <3>1. /\ oRun'[r] = [pc |-> "depot", visit |-> oVisit, lists |-> oLists, polls |-> 0]
          /\ \A s \in Runs \ {r} : oRun'[s] = oRun[s]
      BY <2>3 DEF ClientTypeOK
    <3>2. ClientTypeOK' /\ VisitsPast'
      BY <2>1, <2>3, <3>1 DEF ClientTypeOK, RunStates, OnTheWay, VisitsPast
    <3>3. \A s \in Runs \ {r} : ~(Client!InFlight(s) /\ Client!Mounted(s))'
      BY <2>1, <3>1, NobodyFlies DEF Client!InFlight, Client!Mounted
    <3> QED
      BY <2>1, <2>3, <3>1, <3>2, <3>3, ClientAssumed
      DEF FlightIsActive, OneDialog, ListsKept, Client!ConsentPerRun, Client!ClientAssumption
  <2> QED
    BY <1>6, <2>2, <2>3
    DEF Client!Optimize, Client!ShouldWarn, Client!SetPartialApproval,
        Client!NextPartialApproval, ClientTypeOK
<1> QED BY <1>1, <1>2, <1>3, <1>4, <1>5, <1>6 DEF Client!UserStep

-----------------------------------------------------------------------------
(* The theorems *)

LEMMA ClientStepKeeps ==
  ASSUME ClientIInv, [Client!Next]_Client!clientVars
  PROVE  ClientIInv'
<1> USE DEF ClientIInv
<1>1. ASSUME NEW r \in Runs, Client!RunStep(r) PROVE ClientIInv'
  <2>1. CASE Client!ResultArrives(r)
    <3>1. /\ oPage' # "edit" /\ UNCHANGED <<oVisit, oLists, oDraft>>
          /\ oRun' = [oRun EXCEPT ![r] = Client!NotRunning("done")]
          /\ oPrompt' = "none" /\ oApproved' = FALSE /\ oActive' = NoRun
      BY <2>1 DEF Client!ResultArrives, Client!ResetHook
    <3>2. Client!NotRunning("done") \in RunStates /\ Client!NotRunning("done").visit = 0
      BY DEF Client!NotRunning, RunStates, AnyLists, Client!Empty, Resting
    <3>3. ClientTypeOK' /\ VisitsPast'
      <4>1. oRun' \in [Runs -> RunStates]
        BY <3>1, <3>2 DEF ClientTypeOK
      <4>2. ClientTypeOK'
        BY <3>1, <4>1 DEF ClientTypeOK
      <4>3. oVisit \in Nat /\ oVisit' = oVisit
        BY <3>1 DEF ClientTypeOK
      <4>4. /\ oRun'[r].visit = 0
            /\ \A s \in Runs \ {r} : oRun'[s] = oRun[s]
        BY <3>1, <3>2 DEF ClientTypeOK
      <4> QED BY <4>2, <4>3, <4>4 DEF VisitsPast
    <3>4. \A s \in Runs : ~Client!Mounted(s)'
      BY <3>1 DEF Client!Mounted
    <3> QED
      BY <3>1, <3>3, <3>4 DEF FlightIsActive, OneDialog, ListsKept, Client!ConsentPerRun
  <2> QED BY <1>1, <2>1, RunStepKinds, GoesOnKeeps, EndsKeeps
<1>2. ASSUME \/ Client!SaveDraft
             \/ \E r \in Runs : Client!JobStep(r)
             \/ UNCHANGED Client!clientVars
      PROVE  ClientIInv'
  <2>1. /\ UNCHANGED <<oPage, oVisit, oLists, oPrompt, oApproved, oActive, oRun>>
        /\ oDraft' \in AnyLists
    BY <1>2 DEF Client!SaveDraft, Client!JobStep, Client!clientVars, Client!hookVars,
                ClientTypeOK
  <2> QED
    BY <2>1 DEF ClientTypeOK, FlightIsActive, OneDialog, ListsKept, VisitsPast,
                Client!ConsentPerRun,
                Client!InFlight, Client!Mounted
<1> QED BY <1>1, <1>2, UserStepKeeps DEF Client!Next

LEMMA ClientInvariance == Client!Spec => []ClientIInv
<1>1. Client!Init => ClientIInv
  <2> SUFFICES ASSUME Client!Init PROVE ClientIInv
    OBVIOUS
  <2>1. /\ Client!NotRunning("idle") \in RunStates
        /\ Client!NotRunning("idle").pc = "idle" /\ Client!NotRunning("idle").visit = 0
    BY DEF Client!NotRunning, RunStates, AnyLists, Client!Empty, Resting
  <2>2. oVisit = 1 /\ oLists \in AnyLists /\ oDraft = oLists
    BY DEF Client!Init, Client!Lists, AnyLists
  <2>3. \A r \in Runs : oRun[r] = Client!NotRunning("idle")
    BY DEF Client!Init
  <2>4. ClientTypeOK
    <3>1. oRun \in [Runs -> RunStates]
      <4>1. oRun = [r \in Runs |-> Client!NotRunning("idle")]
        BY DEF Client!Init
      <4> QED BY <2>1, <4>1
    <3>2. oApproved \in BOOLEAN /\ oActive \in Runs \cup {NoRun}
      BY DEF Client!Init
    <3> QED BY <2>2, <3>1, <3>2 DEF ClientTypeOK
  <2>5. VisitsPast /\ \A r \in Runs : ~Client!InFlight(r)
    BY <2>1, <2>2, <2>3 DEF VisitsPast, Client!InFlight
  <2> QED
    BY <2>4, <2>5
    DEF Client!Init, ClientIInv, FlightIsActive, OneDialog, ListsKept, Client!ConsentPerRun
<1>2. ClientIInv /\ [Client!Next]_Client!clientVars => ClientIInv'
  BY ClientStepKeeps
<1> QED BY <1>1, <1>2, PTL DEF Client!Spec

\* However often the page is left and opened again, and however many runs it has
\* left behind: an approval of a partial route serves one prompt and one run, and
\* no run of lists over capacity flies on its page without one.
THEOREM ConsentIsPerRun == Spec => []ConsentPerRun
<1>1. ClientIInv => ConsentPerRun
  BY DEF ClientIInv, ConsentPerRun
<1> QED BY <1>1, ClientInvariance, PartsKeepToTheirs, PTL

\* Routes that arrive on the page that asked for them are those of the lists it
\* shows, although edits, saves and returns are possible while other runs fly.
THEOREM RoutesOfTheLists == Spec => RoutesMatchLists
<1>1. ClientIInv => [\A r \in Runs : oResults' = r /\ Client!InFlight(r) /\ Client!Mounted(r)
                       => oRun[r].lists = oLists]_Client!clientVars
  BY DEF ClientIInv, ListsKept
<1> QED BY <1>1, ClientInvariance, PartsKeepToTheirs, PTL DEF RoutesMatchLists,
    Client!RoutesMatchLists
-----------------------------------------------------------------------------
(* An address as it is typed: the clock of nominatim.ts *)

CallStates == [kind : {"free", "geocode", "autocomplete"}, step : {"free", "wait", "fetch"},
               wake : Nat, mount : Nat, alone : BOOLEAN]

EntryTypeOK ==
  /\ eNow \in Nat /\ eLastRequestAt \in Nat /\ eMount \in Nat
  /\ eCalls \in [Slots -> CallStates]

\* The clock tells when the last request was sent ...
ClockIsTrue == eSentAt = eLastRequestAt

\* ... so that a call that waits alone counts from it: whoever could move the clock
\* while it waits has taken the mark from it.
LoneCallCounts ==
  \A s \in Slots : eCalls[s].step = "wait" /\ eCalls[s].alone =>
    /\ Entry!Waiting = {s}
    /\ eCalls[s].wake = eLastRequestAt + Interval

EntryIInv == EntryTypeOK /\ ClockIsTrue /\ LoneCallCounts

LEMMA EntryFacts ==
  /\ Interval \in Nat /\ Interval > 0
  /\ Entry!Free \in CallStates /\ Entry!Free.step = "free"
BY EntryAssumed DEF Entry!EntryAssumption, Entry!Free, CallStates

\* A new call: it sends at once or waits, and no call waits alone beside it.
LEMMA BeginKeeps ==
  ASSUME EntryIInv, NEW kind \in {"geocode", "autocomplete"}, Entry!Begin(kind),
         UNCHANGED <<eNow, eMount>>
  PROVE  EntryIInv'
<1> USE EntryFacts DEF EntryIInv
<1> DEFINE late == eNow - eLastRequestAt >= Interval
           new == [kind |-> kind, step |-> IF late THEN "fetch" ELSE "wait", mount |-> eMount,
                   wake |-> IF late THEN 0 ELSE eLastRequestAt + Interval,
                   alone |-> Entry!Waiting = {}]
<1>1. PICK s \in Slots :
        /\ eCalls[s] = Entry!Free
        /\ eCalls' = [t \in Slots |->
             IF t = s THEN new
             ELSE IF t \in Entry!Waiting THEN [eCalls[t] EXCEPT !.alone = FALSE]
             ELSE eCalls[t]]
  BY DEF Entry!Begin
<1>2. /\ eLastRequestAt' = IF late THEN eNow ELSE eLastRequestAt
      /\ eSentAt' = IF late THEN eNow ELSE eSentAt
  BY DEF Entry!Begin
<1>3. EntryTypeOK'
  <2>1. new \in CallStates
    BY DEF EntryTypeOK, CallStates
  <2>2. \A t \in Slots : /\ eCalls[t] \in CallStates
                         /\ [eCalls[t] EXCEPT !.alone = FALSE] \in CallStates
    BY DEF EntryTypeOK, CallStates
  <2>3. eCalls' \in [Slots -> CallStates]
    BY <1>1, <2>1, <2>2
  <2> QED BY <1>2, <2>3 DEF EntryTypeOK
<1>4. \A t \in Slots \ {s} : eCalls'[t].step = eCalls[t].step
                             /\ (eCalls'[t].step = "wait" => ~eCalls'[t].alone)
  BY <1>1 DEF Entry!Waiting, EntryTypeOK, CallStates
<1>5. LoneCallCounts'
  <2> SUFFICES ASSUME NEW t \in Slots, eCalls'[t].step = "wait", eCalls'[t].alone
               PROVE  /\ Entry!Waiting' = {t}
                      /\ eCalls'[t].wake = eLastRequestAt' + Interval
    BY DEF LoneCallCounts
  <2>1. t = s /\ eCalls'[s] = new
    BY <1>1, <1>4
  <2>2. ~late /\ Entry!Waiting = {}
    <3>1. new.step = "wait" /\ new.alone
      BY <2>1
    <3>2. new.step = (IF late THEN "fetch" ELSE "wait") /\ new.alone = (Entry!Waiting = {})
      OBVIOUS
    <3>3. ~late
      BY <3>1, <3>2
    <3>4. Entry!Waiting = {}
      BY <3>1, <3>2, Zenon
    <3> QED BY <3>3, <3>4
  <2>3. Entry!Waiting' = {s}
    <3>1. \A u \in Slots \ {s} : eCalls'[u].step # "wait"
      BY <1>4, <2>2 DEF Entry!Waiting
    <3>2. eCalls'[s].step = "wait"
      BY <2>1
    <3>3. \A u \in Slots : eCalls'[u].step = "wait" <=> u = s
      BY <3>1, <3>2
    <3> QED BY <3>3 DEF Entry!Waiting
  <2> QED BY <1>2, <2>1, <2>2, <2>3
<1> QED BY <1>2, <1>3, <1>5 DEF ClockIsTrue

\* The pause of a call is over: it was the only lone one, if there was one.
LEMMA RequestKeeps ==
  ASSUME EntryIInv, NEW s \in Slots, Entry!Request(s)
  PROVE  EntryIInv'
<1> USE EntryFacts DEF EntryIInv
<1>1. /\ eCalls[s].step = "wait"
      /\ eCalls' = [eCalls EXCEPT ![s].step = "fetch", ![s].wake = 0]
      /\ eLastRequestAt' = eNow /\ eSentAt' = eNow /\ UNCHANGED <<eNow, eMount>>
  BY DEF Entry!Request, Entry!overlay
<1>2. EntryTypeOK'
  <2>1. [eCalls[s] EXCEPT !.step = "fetch", !.wake = 0] \in CallStates
    BY DEF EntryTypeOK, CallStates
  <2>2. eCalls' = [eCalls EXCEPT ![s] = [eCalls[s] EXCEPT !.step = "fetch", !.wake = 0]]
    BY <1>1
  <2>3. eCalls' \in [Slots -> CallStates]
    BY <2>1, <2>2 DEF EntryTypeOK
  <2> QED BY <1>1, <2>3 DEF EntryTypeOK
<1>3. /\ \A t \in Slots \ {s} : eCalls'[t] = eCalls[t]
      /\ eCalls'[s].step = "fetch"
  BY <1>1 DEF EntryTypeOK, CallStates
<1>4. \A t \in Slots \ {s} : eCalls[t].step = "wait" => ~eCalls[t].alone
  BY <1>1 DEF LoneCallCounts, Entry!Waiting, EntryTypeOK, CallStates
<1> QED BY <1>1, <1>2, <1>3, <1>4 DEF ClockIsTrue, LoneCallCounts

\* A call ends, or does nothing to the clock.
LEMMA AnswerKeeps ==
  ASSUME EntryIInv, NEW s \in Slots, eCalls[s].step = "fetch",
         eCalls' = [eCalls EXCEPT ![s] = Entry!Free],
         UNCHANGED <<eNow, eLastRequestAt, eSentAt, eMount>>
  PROVE  EntryIInv'
<1> USE EntryFacts DEF EntryIInv
<1>1. EntryTypeOK'
  BY DEF EntryTypeOK
<1>2. /\ \A t \in Slots \ {s} : eCalls'[t] = eCalls[t]
      /\ eCalls'[s].step = "free"
  BY DEF EntryTypeOK
<1>3. Entry!Waiting' = Entry!Waiting
  BY <1>2 DEF Entry!Waiting
<1> QED BY <1>1, <1>2, <1>3 DEF ClockIsTrue, LoneCallCounts

LEMMA EntryStepKeeps ==
  ASSUME EntryIInv, [Entry!Next]_Entry!entryVars
  PROVE  EntryIInv'
<1>1. CASE /\ eCalls' = eCalls /\ eLastRequestAt' = eLastRequestAt /\ eSentAt' = eSentAt
           /\ eNow' \in Nat /\ eMount' \in Nat
  BY <1>1 DEF EntryIInv, EntryTypeOK, ClockIsTrue, LoneCallCounts, Entry!Waiting
<1>2. CASE Entry!Geocode
  BY <1>2, BeginKeeps DEF Entry!Geocode, Entry!overlay
<1>3. CASE Entry!Ask
  <2>1. CASE eDebounce = Entry!Short
    BY <1>1, <1>3, <2>1 DEF Entry!Ask, EntryIInv, EntryTypeOK
  <2> QED BY <1>3, <2>1, BeginKeeps DEF Entry!Ask
<1>4. ASSUME NEW s \in Slots, Entry!Request(s) PROVE EntryIInv'
  BY <1>4, RequestKeeps
<1>5. ASSUME NEW s \in Slots, Entry!GeocodeAnswered(s) \/ Entry!Suggest(s) PROVE EntryIInv'
  BY <1>5, AnswerKeeps DEF Entry!GeocodeAnswered, Entry!Suggest, Entry!clock, Entry!overlay
<1>6. eMount \in Nat /\ eMount + 1 \in Nat /\ eNow \in Nat /\ eNow + 1 \in Nat
  BY DEF EntryIInv, EntryTypeOK
<1>7. CASE Entry!Open \/ Entry!CloseOverlay \/ Entry!Type \/ Entry!Fill \/ Entry!Move
           \/ Entry!Select \/ Entry!Blur \/ Entry!ClearSuggestions \/ Entry!Save \/ Entry!Tick
           \/ UNCHANGED Entry!entryVars
  BY <1>1, <1>6, <1>7
  DEF Entry!Open, Entry!CloseOverlay, Entry!Close, Entry!Type, Entry!Fill, Entry!Move,
      Entry!Select, Entry!Blur, Entry!ClearSuggestions, Entry!Save, Entry!Tick,
      Entry!entryVars, Entry!clock, Entry!overlay
<1> QED BY <1>2, <1>3, <1>4, <1>5, <1>7 DEF Entry!Next

LEMMA EntryInvariance == Entry!Spec => []EntryIInv
<1>1. Entry!Init => EntryIInv
  BY EntryFacts
  DEF Entry!Init, EntryIInv, EntryTypeOK, ClockIsTrue, LoneCallCounts
<1>2. EntryIInv /\ [Entry!Next]_Entry!entryVars => EntryIInv'
  BY EntryStepKeeps
<1> QED BY <1>1, <1>2, PTL DEF Entry!Spec

\* Whatever else is typed, asked and answered meanwhile: a request that waited for
\* the clock alone is an interval away from the one that was sent before it.
THEOREM LoneRequestsAreSpaced == Spec => SpacedWhenAlone
<1>1. EntryIInv /\ [Entry!Next]_Entry!entryVars =>
        [\A s \in Slots : Entry!Sends(s) /\ eCalls'[s].alone => eNow - eSentAt >= Interval
        ]_Entry!entryVars
  <2> SUFFICES ASSUME EntryIInv, Entry!Next, NEW s \in Slots,
                      Entry!Sends(s), eCalls'[s].alone
               PROVE  eNow - eSentAt >= Interval
    OBVIOUS
  <2> USE EntryFacts DEF EntryIInv
  <2>0. eCalls[s].step # "fetch" /\ eCalls'[s].step = "fetch" /\ eCalls' # eCalls
    BY DEF Entry!Sends
  <2>1. ASSUME NEW kind, Entry!Begin(kind) PROVE eNow - eSentAt >= Interval
    <3>1. CASE eNow - eLastRequestAt >= Interval
      BY <3>1 DEF ClockIsTrue
    <3>2. CASE ~(eNow - eLastRequestAt >= Interval)
      BY <2>0, <2>1, <3>2 DEF Entry!Begin, EntryTypeOK, CallStates
    <3> QED BY <3>1, <3>2
  <2>2. ASSUME NEW t \in Slots, Entry!Request(t) PROVE eNow - eSentAt >= Interval
    <3>1. t = s
      BY <2>0, <2>2 DEF Entry!Request, EntryTypeOK, CallStates
    <3>2. eCalls'[s].alone = eCalls[s].alone
      BY <2>2, <3>1 DEF Entry!Request, EntryTypeOK, CallStates
    <3>3. eNow >= eCalls[s].wake /\ eCalls[s].wake = eLastRequestAt + Interval
      BY <2>2, <3>1, <3>2 DEF Entry!Request, LoneCallCounts
    <3> QED BY <3>3 DEF ClockIsTrue, EntryTypeOK
  <2>3. ASSUME NEW t \in Slots, eCalls' = [eCalls EXCEPT ![t] = Entry!Free] PROVE FALSE
    BY <2>0, <2>3 DEF EntryTypeOK
  <2>4. CASE Entry!Geocode \/ Entry!Ask
    BY <2>0, <2>1, <2>4 DEF Entry!Geocode, Entry!Ask
  <2>5. ASSUME NEW t \in Slots, Entry!GeocodeAnswered(t) \/ Entry!Suggest(t) PROVE FALSE
    BY <2>3, <2>5 DEF Entry!GeocodeAnswered, Entry!Suggest
  <2>6. CASE Entry!Open \/ Entry!CloseOverlay \/ Entry!Type \/ Entry!Fill \/ Entry!Move
             \/ Entry!Select \/ Entry!Blur \/ Entry!ClearSuggestions \/ Entry!Save
             \/ Entry!Tick
    BY <2>0, <2>6
    DEF Entry!Open, Entry!CloseOverlay, Entry!Type, Entry!Fill, Entry!Move,
        Entry!Select, Entry!Blur, Entry!ClearSuggestions, Entry!Save, Entry!Tick
  <2> QED BY <2>2, <2>4, <2>5, <2>6 DEF Entry!Next
<1> QED
  BY <1>1, EntryInvariance, PartsKeepToTheirs, PTL
  DEF SpacedWhenAlone, Entry!SpacedWhenAlone, Entry!Spec
-----------------------------------------------------------------------------
(* How work gets into the edit page and stays there: the saved draft *)

Kinds == FileKinds \cup {"none"}
Contents == [serial : Nat, version : Nat]
HandedFiles == [kind : Kinds, serial : Nat]
Readings == [kind : Kinds, serial : Nat \ {0}, again : BOOLEAN]

SessionTypeOK ==
  /\ sUploads \in Nat /\ sOperation \in Nat /\ sVisit \in Nat
  /\ sDraft \in Contents /\ sLists \in Contents /\ sSavePoint \in HandedFiles
  /\ sLoads \subseteq [visit : Nat, file : HandedFiles]
  /\ sChosen \in Kinds
  /\ sReads \subseteq Readings
  /\ sHydrated \in BOOLEAN /\ sSaving \in BOOLEAN

\* A page that was left has no operation and no timer; the timer waits for the lists.
PagesAreAlone ==
  /\ sPage # "upload" => sOperation = 0
  /\ sPage # "edit" => ~sHydrated
  /\ sSaving => sHydrated

\* Files are numbered as they are handed over.
SerialsPast ==
  /\ sDraft.serial <= sUploads /\ sLists.serial <= sUploads
  /\ sSavePoint.serial <= sUploads /\ sOperation <= sUploads

\* A save point that is stored, or about to be, was uploaded after the draft; while one
\* is stored the page shows none.
UploadsAreNewer ==
  /\ sSavePoint # Session!NoFile => sSavePoint.serial > sDraft.serial /\ sLists.serial = 0
  /\ sOperation # 0 => sOperation > sDraft.serial

\* What the page is still loading is the stored save point, until its lists are there.
LoadsOfThePage ==
  \A l \in sLoads :
    /\ l.visit <= sVisit
    /\ l.visit = sVisit /\ sPage = "edit" =>
         ~sHydrated /\ l.file = sSavePoint /\ sSavePoint # Session!NoFile

IsAhead(content, other) ==
  \/ content.serial > other.serial
  \/ content.serial = other.serial /\ content.version >= other.version

\* Lists that come from the draft or from a save point are never behind the draft.
ListsAreAhead ==
  sHydrated /\ sSource \notin {"failed", "table"} => IsAhead(sLists, sDraft)

SessionIInv ==
  /\ SessionTypeOK /\ PagesAreAlone /\ SerialsPast /\ UploadsAreNewer /\ LoadsOfThePage
  /\ ListsAreAhead

LEMMA SessionFacts ==
  /\ Session!Empty \in Contents /\ Session!Empty.serial = 0
  /\ Session!NoFile \in HandedFiles /\ Session!NoFile.serial = 0
  /\ FileKinds \subseteq Kinds /\ "none" \in Kinds
BY DEF Kinds, Contents, HandedFiles, Session!Empty, Session!NoFile

\* The edit page is mounted, with the draft as it is or with a new one.
LEMMA MountKeeps ==
  ASSUME SessionIInv, Session!Mount, sDraft' \in {sDraft, Session!Empty},
         UNCHANGED <<sSavePoint, sReads, sUploads>>
  PROVE  SessionIInv'
<1> USE SessionFacts DEF SessionIInv
<1>1. /\ sPage' = "edit" /\ sVisit' = sVisit + 1 /\ sChosen' = "none" /\ sOperation' = 0
  BY DEF Session!Mount, Session!BlankUpload
<1>2. /\ sDraft' \in Contents /\ sDraft'.serial <= sUploads
      /\ sDraft'.serial <= sDraft.serial
  BY DEF SessionTypeOK, SerialsPast, Contents
<1>3. CASE sSavePoint # Session!NoFile
  <2>1. /\ sLoads' = sLoads \cup {[visit |-> sVisit', file |-> sSavePoint]}
        /\ sLists' = Session!Empty /\ ~sHydrated' /\ ~sSaving'
        /\ sHydrated' \in BOOLEAN /\ sSaving' \in BOOLEAN
    BY <1>3 DEF Session!Mount
  <2>2. sLoads' \subseteq [visit : Nat, file : HandedFiles]
    BY <1>1, <2>1 DEF SessionTypeOK
  <2>3. SessionTypeOK'
    BY <1>1, <1>2, <2>1, <2>2 DEF SessionTypeOK
  <2>4. LoadsOfThePage'
    BY <1>1, <1>3, <2>1 DEF LoadsOfThePage, SessionTypeOK
  <2>5. UploadsAreNewer' /\ SerialsPast'
    BY <1>1, <1>2, <2>1 DEF UploadsAreNewer, SerialsPast, SessionTypeOK, Contents, HandedFiles
  <2> QED BY <1>1, <2>1, <2>3, <2>4, <2>5 DEF PagesAreAlone, ListsAreAhead
<1>4. CASE sSavePoint = Session!NoFile
  <2>1. /\ sLoads' = sLoads /\ sHydrated' = TRUE /\ sSaving' = TRUE
        /\ \/ sLists' = Session!Empty /\ sSource' = "table"
           \/ sLists' = sDraft' /\ sSource' = "draft"
    BY <1>4 DEF Session!Mount
  <2>2. sLists' \in Contents /\ sLists'.serial <= sUploads
    BY <1>2, <2>1 DEF SessionTypeOK
  <2>3. SessionTypeOK'
    BY <1>1, <1>2, <2>1, <2>2 DEF SessionTypeOK
  <2>4. LoadsOfThePage'
    BY <1>1, <2>1 DEF LoadsOfThePage, SessionTypeOK
  <2>5. ListsAreAhead'
    BY <1>2, <2>1 DEF ListsAreAhead, IsAhead, Contents
  <2> QED BY <1>1, <1>2, <1>4, <2>1, <2>2, <2>3, <2>4, <2>5
          DEF PagesAreAlone, UploadsAreNewer, SerialsPast
<1> QED BY <1>3, <1>4

\* Another page, with the draft as it is; a save point may be stored on the way.
LEMMA GoToKeeps ==
  ASSUME SessionIInv, NEW p \in {"welcome", "upload", "results", "opening"}, Session!GoTo(p),
         \/ sSavePoint' = sSavePoint
         \/ /\ sSavePoint' \in HandedFiles /\ sSavePoint'.serial <= sUploads
            /\ sSavePoint'.serial > sDraft.serial,
         sReads' \subseteq Readings,
         UNCHANGED <<sDraft, sVisit, sLoads, sUploads>>
  PROVE  SessionIInv'
<1> USE SessionFacts DEF SessionIInv
<1>1. /\ sPage' = p /\ sChosen' = "none" /\ sOperation' = 0 /\ sLists' = Session!Empty
      /\ sHydrated' = FALSE /\ sSaving' = FALSE
  BY DEF Session!GoTo, Session!BlankUpload, Session!BlankEdit
<1>2. /\ sSavePoint' \in HandedFiles
      /\ sUploads \in Nat /\ sSavePoint'.serial <= sUploads
  BY DEF SessionTypeOK, SerialsPast
<1>3. SessionTypeOK'
  BY <1>1, <1>2 DEF SessionTypeOK
<1>4. SerialsPast'
  BY <1>1, <1>2 DEF SerialsPast
<1> QED
  BY <1>1, <1>3, <1>4
  DEF PagesAreAlone, UploadsAreNewer, LoadsOfThePage, ListsAreAhead

\* Steps of the upload page that stay there.
LEMMA UploadStepKeeps ==
  ASSUME SessionIInv,
         \/ Session!ChooseFile
         \/ Session!Continue
         \/ \E r \in sReads : Session!FileRead(r)
  PROVE  SessionIInv'
<1> USE SessionFacts DEF SessionIInv
<1> DEFINE Rest == <<sPage, sVisit, sDraft, sSavePoint, sLists, sHydrated, sSource, sSaving,
                     sLoads>>
<1>1. ASSUME UNCHANGED Rest, sChosen' \in Kinds, sReads' \subseteq Readings,
             sUploads' \in Nat, sUploads' >= sUploads, sOperation' \in Nat,
             sOperation' <= sUploads', sOperation' # 0 => sPage = "upload",
             sOperation' # 0 => sOperation' > sDraft.serial
      PROVE  SessionIInv'
  <2>1. SessionTypeOK'
    BY <1>1 DEF SessionTypeOK
  <2>2. SerialsPast'
    BY <1>1 DEF SessionTypeOK, SerialsPast, Contents, HandedFiles
  <2>3. ListsAreAhead'
    BY <1>1 DEF ListsAreAhead, IsAhead
  <2> QED BY <1>1, <2>1, <2>2, <2>3 DEF PagesAreAlone, UploadsAreNewer, LoadsOfThePage
<1>2. CASE Session!ChooseFile
  <2>1. UNCHANGED Rest /\ sUploads' = sUploads /\ sOperation' = sOperation /\ sReads' = sReads
    BY <1>2 DEF Session!ChooseFile, Session!storage, Session!editPage
  <2>2. sChosen' \in Kinds
    BY <1>2 DEF Session!ChooseFile
  <2> QED
    BY <1>1, <1>2, <2>1, <2>2
    DEF Session!ChooseFile, SessionTypeOK, SerialsPast, UploadsAreNewer
<1>3. CASE Session!Continue
  <2>1. /\ UNCHANGED Rest /\ sChosen' = sChosen /\ sPage = "upload"
        /\ sUploads' = sUploads + 1 /\ sOperation' = sUploads + 1
        /\ sReads' = sReads \cup {[kind |-> sChosen, serial |-> sUploads', again |-> FALSE]}
    BY <1>3 DEF Session!Continue, Session!storage, Session!editPage
  <2>2. sReads' \subseteq Readings
    <3>1. sChosen \in Kinds /\ sUploads + 1 \in Nat \ {0}
      BY DEF SessionTypeOK
    <3>2. [kind |-> sChosen, serial |-> sUploads', again |-> FALSE] \in Readings
      BY <2>1, <3>1 DEF Readings
    <3> QED BY <2>1, <3>2 DEF SessionTypeOK
  <2>3. sUploads + 1 > sDraft.serial
    BY DEF SessionTypeOK, SerialsPast, Contents
  <2> QED BY <1>1, <2>1, <2>2, <2>3 DEF SessionTypeOK
<1>4. ASSUME NEW r \in sReads, Session!FileRead(r) PROVE SessionIInv'
  <2> DEFINE file == [kind |-> r.kind, serial |-> r.serial]
  <2>1. sReads' \subseteq Readings
    <3>1. r \in Readings /\ [r EXCEPT !.again = TRUE] \in Readings
      BY DEF SessionTypeOK, Readings
    <3> QED BY <1>4, <3>1 DEF Session!FileRead, SessionTypeOK
  <2>2. sUploads' = sUploads
    BY <1>4 DEF Session!FileRead
  <2>3. CASE /\ UNCHANGED Rest /\ sChosen' = sChosen
             /\ sOperation' = sOperation \/ sOperation' = 0
    BY <1>1, <2>1, <2>2, <2>3 DEF SessionTypeOK, SerialsPast, UploadsAreNewer, PagesAreAlone
  <2>4. CASE /\ Session!IsCurrent(r) /\ Session!GoTo("opening")
             /\ sSavePoint' = file \/ sSavePoint' = sSavePoint
             /\ UNCHANGED <<sDraft, sVisit, sLoads>>
    <3>1. CASE sSavePoint' = sSavePoint
      BY <2>1, <2>2, <2>4, <3>1, GoToKeeps
    <3>2. CASE sSavePoint' = file
      <4>1. file.serial = sOperation /\ sOperation # 0 /\ file.kind \in Kinds
        BY <2>4 DEF Session!IsCurrent, SessionTypeOK, Readings
      <4>2. /\ file \in HandedFiles /\ file.serial <= sUploads /\ file.serial > sDraft.serial
        BY <4>1 DEF HandedFiles, SessionTypeOK, SerialsPast, UploadsAreNewer
      <4> QED BY <2>1, <2>2, <2>4, <3>2, <4>2, GoToKeeps
    <3> QED BY <2>4, <3>1, <3>2
  <2> QED
    BY <1>4, <2>3, <2>4
    DEF Session!FileRead, Session!Fails, Session!uploadPage, Session!storage, Session!editPage
<1> QED BY <1>2, <1>3, <1>4

\* A save point the page asked for arrives; it was uploaded after the draft.
LEMMA LoadedKeeps ==
  ASSUME SessionIInv, NEW l \in sLoads, Session!SavePointLoaded(l)
  PROVE  SessionIInv'
<1> USE SessionFacts DEF SessionIInv
<1>0. /\ sLoads' = sLoads \ {l} /\ sLoads' \subseteq [visit : Nat, file : HandedFiles]
      /\ UNCHANGED <<sPage, sChosen, sOperation, sReads, sDraft, sVisit, sUploads>>
      /\ l \in [visit : Nat, file : HandedFiles]
  BY DEF Session!SavePointLoaded, Session!uploadPage, SessionTypeOK
<1>1. CASE sPage # "edit" \/ l.visit # sVisit
  <2>1. UNCHANGED <<sSavePoint, sLists, sHydrated, sSource, sSaving>>
    BY <1>1 DEF Session!SavePointLoaded, Session!editPage
  <2>2. SessionTypeOK'
    BY <1>0, <2>1 DEF SessionTypeOK
  <2> QED
    BY <1>0, <2>1, <2>2
    DEF PagesAreAlone, SerialsPast, UploadsAreNewer, LoadsOfThePage, ListsAreAhead
<1>2. CASE sPage = "edit" /\ l.visit = sVisit
  <2>1. /\ ~sHydrated /\ l.file = sSavePoint /\ sSavePoint # Session!NoFile
        /\ sHydrated' = TRUE /\ sSaving' = TRUE
    BY <1>2 DEF Session!SavePointLoaded, LoadsOfThePage
  <2>2. \A m \in sLoads' : m.visit <= sVisit /\ m.visit # sVisit
    <3> SUFFICES ASSUME NEW m \in sLoads, m.visit = sVisit PROVE m = l
      BY <1>0 DEF LoadsOfThePage
    <3>1. m.file = sSavePoint /\ m \in [visit : Nat, file : HandedFiles]
      BY <1>2 DEF LoadsOfThePage, SessionTypeOK
    <3> QED BY <1>0, <1>2, <2>1, <3>1
  <2>3. LoadsOfThePage'
    BY <1>0, <2>2 DEF LoadsOfThePage
  <2>4. CASE /\ sLists' = [serial |-> sSavePoint.serial, version |-> 0]
             /\ sSavePoint' = Session!NoFile
    <3>1. sSavePoint.serial \in Nat /\ sSavePoint.serial > sDraft.serial
      BY <2>1 DEF UploadsAreNewer, SessionTypeOK, HandedFiles
    <3>2. sLists' \in Contents
      BY <2>4, <3>1 DEF Contents
    <3>3. SessionTypeOK'
      BY <1>0, <2>1, <2>4, <3>2 DEF SessionTypeOK
    <3>4. SerialsPast' /\ ListsAreAhead'
      BY <1>0, <2>4, <3>1 DEF SerialsPast, ListsAreAhead, IsAhead, SessionTypeOK
    <3> QED
      BY <1>0, <1>2, <2>1, <2>3, <2>4, <3>3, <3>4
      DEF PagesAreAlone, UploadsAreNewer
  <2>5. CASE UNCHANGED <<sLists, sSavePoint>> /\ sSource' = "failed"
    <3>1. SessionTypeOK'
      BY <1>0, <2>1, <2>5 DEF SessionTypeOK
    <3> QED
      BY <1>0, <1>2, <2>1, <2>3, <2>5, <3>1
      DEF PagesAreAlone, SerialsPast, UploadsAreNewer, ListsAreAhead
  <2> QED
    BY <1>2, <2>1, <2>4, <2>5 DEF Session!SavePointLoaded, Session!SavePointDone
<1> QED BY <1>1, <1>2

\* Work on the page: later versions of its lists, which the timer makes the draft.
LEMMA EditStepKeeps ==
  ASSUME SessionIInv, Session!Edit \/ Session!SaveDraft
  PROVE  SessionIInv'
<1> USE SessionFacts DEF SessionIInv
<1>1. CASE Session!Edit
  <2>1. /\ sPage = "edit" /\ sLists' = [sLists EXCEPT !.version = @ + 1] /\ sSaving' = sHydrated
        /\ UNCHANGED <<sPage, sChosen, sOperation, sReads, sDraft, sSavePoint, sVisit,
                       sHydrated,
                       sSource, sLoads, sUploads>>
    BY <1>1 DEF Session!Edit, Session!storage, Session!uploadPage
  <2>2. /\ sLists' \in Contents /\ sLists'.serial = sLists.serial
        /\ sLists'.version = sLists.version + 1
    BY <2>1 DEF SessionTypeOK, Contents
  <2>3. SessionTypeOK'
    BY <2>1, <2>2 DEF SessionTypeOK
  <2>4. ListsAreAhead'
    BY <2>1, <2>2 DEF ListsAreAhead, IsAhead, SessionTypeOK, Contents
  <2> QED
    BY <2>1, <2>2, <2>3, <2>4
    DEF PagesAreAlone, SerialsPast, UploadsAreNewer, LoadsOfThePage
<1>2. CASE Session!SaveDraft
  <2>1. /\ sSaving /\ sSaving' = FALSE /\ sDraft' \in {sLists, sDraft}
        /\ UNCHANGED <<sPage, sChosen, sOperation, sReads, sSavePoint, sVisit, sLists,
                       sHydrated,
                       sSource, sLoads, sUploads>>
    BY <1>2 DEF Session!SaveDraft, Session!Saves, Session!uploadPage
  <2>2. sPage = "edit" /\ sHydrated
    BY <2>1 DEF PagesAreAlone
  <2>3. SessionTypeOK' /\ SerialsPast'
    BY <2>1 DEF SessionTypeOK, SerialsPast
  <2>4. UploadsAreNewer'
    <3>1. sOperation = 0 /\ sSavePoint.serial \in Nat /\ sDraft.serial \in Nat
      BY <2>2 DEF PagesAreAlone, SessionTypeOK, HandedFiles, Contents
    <3>2. sSavePoint # Session!NoFile => sSavePoint.serial > 0
      BY <3>1 DEF UploadsAreNewer
    <3> QED BY <2>1, <3>1, <3>2 DEF UploadsAreNewer
  <2>5. ListsAreAhead'
    BY <2>1 DEF ListsAreAhead, IsAhead, SessionTypeOK, Contents
  <2> QED BY <2>1, <2>3, <2>4, <2>5 DEF PagesAreAlone, LoadsOfThePage
<1> QED BY <1>1, <1>2

LEMMA SessionStepKeeps ==
  ASSUME SessionIInv, [Session!Next]_Session!sessionVars
  PROVE  SessionIInv'
<1>1. CASE Session!Visit \/ Session!CancelUpload
  <2>1. UNCHANGED <<sSavePoint, sDraft, sUploads>>
    BY <1>1 DEF Session!Visit, Session!CancelUpload, Session!storage
  <2>2. CASE \E p \in {"welcome", "upload", "results"} :
               Session!GoTo(p) /\ UNCHANGED <<sVisit, sLoads>>
    <3>1. sReads' = sReads
      BY <1>1 DEF Session!Visit, Session!CancelUpload
    <3>2. sReads' \subseteq Readings
      BY <3>1 DEF SessionIInv, SessionTypeOK
    <3> QED BY <2>1, <2>2, <3>2, GoToKeeps
  <2>3. CASE Session!Mount
    BY <1>1, <2>1, <2>3, MountKeeps DEF Session!Visit, Session!CancelUpload
  <2> QED BY <1>1, <2>2, <2>3 DEF Session!Visit, Session!CancelUpload
<1>2. CASE Session!NewSession \/ Session!Open
  BY <1>2, MountKeeps DEF Session!NewSession, Session!Open
<1>3. CASE Session!ChooseFile \/ Session!Continue \/ \E r \in sReads : Session!FileRead(r)
  BY <1>3, UploadStepKeeps
<1>4. ASSUME NEW l \in sLoads, Session!SavePointLoaded(l) PROVE SessionIInv'
  BY <1>4, LoadedKeeps
<1>5. CASE Session!Edit \/ Session!SaveDraft
  BY <1>5, EditStepKeeps
<1>6. CASE Session!CloseOverlay \/ Session!ExportSession \/ Session!ExportEnds
           \/ UNCHANGED Session!sessionVars
  <2>1. UNCHANGED <<sPage, sChosen, sOperation, sReads, sSavePoint, sDraft, sVisit, sLists,
                    sHydrated, sSource, sLoads, sSaving, sUploads>>
    BY <1>6
    DEF Session!CloseOverlay, Session!ExportSession, Session!ExportEnds, Session!sessionVars,
        Session!storage, Session!uploadPage, Session!editPage
  <2> QED
    BY <2>1
    DEF SessionIInv, SessionTypeOK, PagesAreAlone, SerialsPast, UploadsAreNewer,
        LoadsOfThePage, ListsAreAhead
<1> QED BY <1>1, <1>2, <1>3, <1>4, <1>5, <1>6 DEF Session!Next

LEMMA SessionInvariance == Session!Spec => []SessionIInv
<1>1. Session!Init => SessionIInv
  <2> SUFFICES ASSUME Session!Init PROVE SessionIInv
    OBVIOUS
  <2>1. SessionTypeOK
    BY SessionFacts DEF Session!Init, SessionTypeOK
  <2> QED
    BY <2>1, SessionFacts
    DEF Session!Init, SessionIInv, PagesAreAlone, SerialsPast, UploadsAreNewer, LoadsOfThePage,
        ListsAreAhead
<1>2. SessionIInv /\ [Session!Next]_Session!sessionVars => SessionIInv'
  BY SessionStepKeeps
<1> QED BY <1>1, <1>2, PTL DEF Session!Spec

\* However often the pages are opened, left and reloaded while files are read and save
\* points loaded: the draft is only replaced by something newer, on the welcome page,
\* or by a page that came up without it.
THEOREM DraftNeverGoesBack == Spec => DraftKept
<1>1. SessionIInv /\ [Session!Next]_Session!sessionVars =>
        [sDraft' # sDraft =>
           \/ sPage = "welcome"
           \/ sSource \in {"failed", "table"}
           \/ sDraft'.serial > sDraft.serial
           \/ sDraft'.serial = sDraft.serial /\ sDraft'.version > sDraft.version
        ]_Session!sessionVars
  <2> SUFFICES ASSUME SessionIInv, Session!Next, sDraft' # sDraft, sPage # "welcome",
                      sSource \notin {"failed", "table"}
               PROVE  \/ sDraft'.serial > sDraft.serial
                      \/ /\ sDraft'.serial = sDraft.serial
                         /\ sDraft'.version > sDraft.version
    OBVIOUS
  <2>1. Session!SaveDraft
    BY DEF Session!Next, Session!Visit, Session!NewSession, Session!ChooseFile,
           Session!Continue, Session!CancelUpload, Session!Open, Session!Edit,
           Session!CloseOverlay, Session!ExportSession, Session!ExportEnds,
           Session!FileRead, Session!SavePointLoaded, Session!storage
  <2>2. sDraft' = sLists /\ IsAhead(sLists, sDraft)
    BY <2>1 DEF Session!SaveDraft, Session!Saves, SessionIInv, PagesAreAlone, ListsAreAhead
  <2>3. sLists \in Contents /\ sDraft \in Contents
    BY DEF SessionIInv, SessionTypeOK
  <2> QED BY <2>2, <2>3 DEF IsAhead, Contents
<1> QED
  BY <1>1, SessionInvariance, PartsKeepToTheirs, PTL
  DEF DraftKept, Session!DraftKept, Session!Spec
-----------------------------------------------------------------------------
(* The import of a table: whose columns the rows come under *)

MaybeFiles == Files \cup {None}

TableTypeOK ==
  /\ cPending \in MaybeFiles /\ cSelected \in MaybeFiles /\ cTable \in MaybeFiles
  /\ cReads \in [Reads -> MaybeFiles]
  /\ cTable # None => cTable.ok

\* The header row that was shown last is that of the table, when there is one.
KeyOfTable ==
  /\ cModal => cTable # None
  /\ cTable # None => cPrevKey = cTable.headers

\* The mapping is one of the columns that were shown last ...
MappingOfKey == cMapping # NoOverride => DOMAIN cMapping = cPrevKey

\* ... and the rows are only offered once it has an address.
RowsHaveAddress == cStep = 2 => cMapping # NoOverride /\ Table!HasAddress(cMapping)

TableIInv ==
  /\ TableTypeOK /\ KeyOfTable /\ MappingOfKey /\ RowsHaveAddress
  /\ Table!ImportedUnderItsColumns

LEMMA CloseKeeps ==
  ASSUME TableIInv, Table!Close, Table!ImportedUnderItsColumns'
  PROVE  TableIInv'
BY DEF TableIInv, TableTypeOK, MaybeFiles, KeyOfTable, MappingOfKey, RowsHaveAddress,
   Table!Close

\* A table, or none, takes the place of the one that was shown: the mapping survives
\* only for the same columns.
LEMMA ShowTableKeeps ==
  ASSUME TableIInv, NEW file \in MaybeFiles, file # None => file.ok, Table!ShowTable(file),
         cModal' => file # None, cReads' \in [Reads -> MaybeFiles],
         UNCHANGED <<cPending, cSelected, cImported>>
  PROVE  TableIInv'
<1> USE DEF TableIInv
<1>1. cTable' = file
  BY DEF Table!ShowTable
<1>2. file # None => Table!Key(file) = file.headers /\ Table!Key(file) # {}
  BY TableAssumed DEF Table!Key, Table!CSVAssumption, MaybeFiles
<1>3. file = None => Table!Key(file) = {}
  BY DEF Table!Key
<1>4. TableTypeOK' /\ Table!ImportedUnderItsColumns'
  BY <1>1 DEF TableTypeOK, Table!ImportedUnderItsColumns, Table!HasAddress
<1>5. CASE Table!Key(file) \notin {{}, cPrevKey}
  <2>1. cPrevKey' = Table!Key(file) /\ cMapping' = NoOverride /\ cStep' = 1
    BY <1>5 DEF Table!ShowTable
  <2> QED BY <1>1, <1>2, <1>4, <2>1 DEF KeyOfTable, MappingOfKey, RowsHaveAddress
<1>6. CASE Table!Key(file) \in {{}, cPrevKey}
  <2>1. UNCHANGED <<cPrevKey, cMapping, cStep>>
    BY <1>6 DEF Table!ShowTable
  <2>2. file # None => cPrevKey = file.headers
    BY <1>2, <1>6
  <2> QED
    BY <1>1, <1>4, <2>1, <2>2
    DEF KeyOfTable, MappingOfKey, RowsHaveAddress, Table!HasAddress
<1> QED BY <1>5, <1>6

LEMMA TableStepKeeps ==
  ASSUME TableIInv, [Table!Next]_Table!csvVars
  PROVE  TableIInv'
<1> USE DEF TableIInv
<1> DEFINE Shown == <<cTable, cModal, cStep, cMapping, cPrevKey, cImported>>
<1>0. Table!ImportedUnderItsColumns /\ UNCHANGED cImported => Table!ImportedUnderItsColumns'
  BY DEF Table!ImportedUnderItsColumns, Table!HasAddress
<1>1. ASSUME UNCHANGED Shown, cPending' \in MaybeFiles, cSelected' \in MaybeFiles,
             cReads' \in [Reads -> MaybeFiles]
      PROVE  TableIInv'
  BY <1>0, <1>1
  DEF TableTypeOK, KeyOfTable, MappingOfKey, RowsHaveAddress, Table!HasAddress
<1>2. /\ cPending \in MaybeFiles /\ cSelected \in MaybeFiles /\ cReads \in [Reads -> MaybeFiles]
      /\ None \in MaybeFiles /\ Files \subseteq MaybeFiles
  BY DEF TableTypeOK, MaybeFiles
<1>3. ASSUME NEW file \in MaybeFiles, Table!StartReading(file)
      PROVE  cReads' \in [Reads -> MaybeFiles]
  BY <1>2, <1>3 DEF Table!StartReading
<1>4. ASSUME NEW file \in MaybeFiles, Table!Offer(file) PROVE TableIInv'
  BY <1>1, <1>2, <1>4 DEF Table!Offer, Table!Mount
<1>5. CASE Table!OpenOverlay
  BY <1>1, <1>2, <1>5 DEF Table!OpenOverlay, Table!Mount
<1>6. CASE Table!DropOnPage \/ Table!Forward
  BY <1>2, <1>4, <1>6 DEF Table!DropOnPage, Table!Forward
<1>7. CASE Table!Cancel
  BY <1>0, <1>7, CloseKeeps DEF Table!Cancel
<1>8. CASE Table!PickFile
  <2>1. ASSUME Table!Close PROVE TableIInv'
    BY <1>0, <1>8, <2>1, CloseKeeps DEF Table!PickFile
  <2>2. CASE UNCHANGED <<Shown, cPending, cReads>> /\ cSelected' \in MaybeFiles
    BY <1>1, <1>2, <2>2
  <2> QED BY <1>2, <1>8, <2>1, <2>2 DEF Table!PickFile
<1>9. CASE Table!RemoveFile
  BY <1>1, <1>2, <1>9 DEF Table!RemoveFile
<1>10. CASE Table!NextStep \/ Table!AutoOpen
  <2>1. cReads' \in [Reads -> MaybeFiles]
    BY <1>2, <1>3, <1>10 DEF Table!NextStep, Table!AutoOpen
  <2> QED BY <1>1, <1>2, <1>10, <2>1 DEF Table!NextStep, Table!AutoOpen
<1>11. ASSUME NEW i \in Reads, Table!ReadEnds(i) PROVE TableIInv'
  <2>1. /\ cReads[i] \in Files /\ cReads' = [cReads EXCEPT ![i] = None]
        /\ UNCHANGED <<cPending, cSelected, cImported>>
    BY <1>2, <1>11 DEF Table!ReadEnds, MaybeFiles
  <2>2. cReads' \in [Reads -> MaybeFiles]
    BY <1>2, <2>1
  <2>3. CASE cReads[i].ok
    <3>1. Table!ShowTable(cReads[i]) /\ cReads[i] # None
      BY <1>11, <2>3 DEF Table!ReadEnds
    <3> QED BY <1>2, <2>1, <2>2, <2>3, <3>1, ShowTableKeeps
  <2>4. CASE ~cReads[i].ok
    BY <1>1, <1>2, <1>11, <2>1, <2>2, <2>4 DEF Table!ReadEnds
  <2> QED BY <2>3, <2>4
<1>12. CASE Table!DismissError
  BY <1>2, <1>12, ShowTableKeeps DEF Table!DismissError
<1>13. CASE Table!ToggleMenu \/ Table!MoveInMenu \/ Table!ToggleRows \/ UNCHANGED Table!csvVars
  BY <1>1, <1>2, <1>13
  DEF Table!ToggleMenu, Table!MoveInMenu, Table!ToggleRows, Table!csvVars, Table!overlayVars
<1>14. CASE Table!ChooseField
  <2>1. /\ cStep = 1 /\ cTable # None
        /\ cMapping' = [Table!ActiveMapping EXCEPT ![cMenu.header] = Fields[cMenu.index]]
        /\ UNCHANGED <<cTable, cModal, cStep, cPrevKey, cImported, cPending, cSelected, cReads>>
    BY <1>14 DEF Table!ChooseField, Table!AtStep, KeyOfTable
  <2>2. DOMAIN Table!ActiveMapping = cPrevKey
    BY <2>1
    DEF Table!ActiveMapping, Table!Blank, Table!Headers, KeyOfTable, MappingOfKey
  <2>3. DOMAIN cMapping' = DOMAIN Table!ActiveMapping
    BY <2>1
  <2> QED
    BY <1>0, <2>1, <2>2, <2>3
    DEF TableTypeOK, KeyOfTable, MappingOfKey, RowsHaveAddress
<1>15. CASE Table!ToRows
  <2>1. /\ Table!HasAddress(Table!ActiveMapping)
        /\ UNCHANGED <<cTable, cModal, cMapping, cPrevKey, cImported, cPending, cSelected,
                       cReads>>
    BY <1>15 DEF Table!ToRows
  <2>2. cMapping # NoOverride /\ Table!HasAddress(cMapping)
    BY <2>1 DEF Table!ActiveMapping, Table!Blank, Table!HasAddress
  <2> QED
    BY <1>0, <2>1, <2>2
    DEF TableTypeOK, KeyOfTable, MappingOfKey, RowsHaveAddress, Table!HasAddress
<1>16. CASE Table!BackToColumns
  BY <1>0, <1>16
  DEF Table!BackToColumns, TableTypeOK, KeyOfTable, MappingOfKey, RowsHaveAddress
<1>17. CASE Table!Confirm
  <2>1. /\ cStep = 2 /\ cModal /\ Table!Close
        /\ cImported' = [file |-> cTable, mapping |-> Table!ActiveMapping,
                         rows |-> Table!ActiveRows \cap 1..cTable.rows]
    BY <1>17 DEF Table!Confirm, Table!AtStep
  <2>2. /\ Table!ActiveMapping = cMapping /\ Table!HasAddress(cMapping)
        /\ DOMAIN cMapping = cTable.headers
    BY <2>1 DEF Table!ActiveMapping, RowsHaveAddress, MappingOfKey, KeyOfTable
  <2>3. Table!ImportedUnderItsColumns'
    BY <2>1, <2>2 DEF Table!ImportedUnderItsColumns, Table!HasAddress
  <2> QED BY <2>1, <2>3, CloseKeeps
<1> QED
  BY <1>5, <1>6, <1>7, <1>8, <1>9, <1>10, <1>11, <1>12, <1>13, <1>14, <1>15, <1>16, <1>17
  DEF Table!Next

LEMMA TableInvariance == Table!Spec => []TableIInv
<1>1. Table!Init => TableIInv
  BY DEF Table!Init, Table!Fresh, Table!NothingImported, TableIInv, TableTypeOK, MaybeFiles,
         KeyOfTable, MappingOfKey, RowsHaveAddress, Table!ImportedUnderItsColumns
<1>2. TableIInv /\ [Table!Next]_Table!csvVars => TableIInv'
  BY TableStepKeeps
<1> QED BY <1>1, <1>2, PTL DEF Table!Spec

\* Whatever files are read over one another between the steps of the import: the rows
\* that arrive on the page were mapped under the columns of the file they come from.
THEOREM RowsComeUnderTheirColumns == Spec => []ImportedUnderItsColumns
<1>1. TableIInv => ImportedUnderItsColumns
  BY DEF TableIInv, ImportedUnderItsColumns
<1> QED BY <1>1, TableInvariance, PartsKeepToTheirs, PTL
-----------------------------------------------------------------------------
(* The vehicles: their departure times *)

Times == [hours : Int, minutes : Int, pm : BOOLEAN]

VehicleRecords ==
  [id : Nat, missing : SUBSET Details, capacity : Int, available : BOOLEAN, departure : Times]

\* A departure time is missing or one of the day.
DepartsWell(v) == v.departure # Vehicles!NoTime => Vehicles!IsValidTime(v.departure)

\* A vehicle that the form let through.
Sendable(v) == v.missing = {} /\ v.capacity > 0 /\ DepartsWell(v)

SoundFleet(list) ==
  /\ list \in Seq(VehicleRecords)
  /\ \A i \in DOMAIN list : Sendable(list[i])
  /\ \A i, j \in DOMAIN list : list[i].id = list[j].id => i = j

FormRecords ==
  [missing : SUBSET Details, capacity : Int, available : BOOLEAN, time : Times,
   auto : BOOLEAN, typed : BOOLEAN]

\* Typed minutes are there, and they are not the automatic ones.
TypedMinutes == vForm.typed => ~vForm.auto /\ vForm.time.minutes # Vehicles!Blank

VehiclesIInv == SoundFleet(vFleet) /\ vForm \in FormRecords /\ TypedMinutes

LEMMA TimesOfDay ==
  /\ Vehicles!NoTime \in Times
  /\ HourTexts \subseteq Int /\ MinuteTexts \subseteq Int /\ Vehicles!Blank \in Int
BY VehiclesAssumed DEF Vehicles!VehicleAssumption, Vehicles!NoTime, Vehicles!Blank, Times

\* Hours and minutes can be read off the seconds.
LEMMA HoursAndMinutes ==
  ASSUME NEW hours \in 0..23, NEW minutes \in 0..59
  PROVE  LET seconds == hours * 3600 + minutes * 60
         IN  /\ seconds \in Nat /\ seconds < 24 * 3600
             /\ seconds \div 3600 = hours /\ (seconds % 3600) \div 60 = minutes
<1>1. /\ hours * 3600 + minutes * 60 \in Nat
      /\ hours * 3600 + minutes * 60 < 24 * 3600
  OBVIOUS
<1>2. /\ (hours * 3600 + minutes * 60) \div 3600 = hours
      /\ ((hours * 3600 + minutes * 60) % 3600) \div 60 = minutes
  OBVIOUS
<1> QED BY <1>1, <1>2

\* A time of the day comes back from its seconds, but for midnight.
LEMMA SecondsComeBack ==
  ASSUME NEW time \in Times, Vehicles!IsValidTime(time)
  PROVE  /\ Vehicles!Seconds(time) \in Nat
         /\ Vehicles!Seconds(time) \in 0..Vehicles!SecondsOfDay - 1
         /\ Vehicles!Seconds(time) # 0 => Vehicles!TimeOf(Vehicles!Seconds(time)) = time
<1> DEFINE hours == IF time.hours = 12 THEN (IF time.pm THEN 12 ELSE 0)
                    ELSE time.hours + (IF time.pm THEN 12 ELSE 0)
           s == hours * 3600 + time.minutes * 60
           h == s \div 3600
           m == (s % 3600) \div 60
<1>1. time.hours \in 1..12 /\ time.minutes \in 0..59 /\ time.pm \in BOOLEAN
  BY DEF Vehicles!IsValidTime, Vehicles!IsValidHour, Times
<1>2. /\ hours \in 0..23
      /\ time.hours = IF hours = 0 THEN 12 ELSE IF hours > 12 THEN hours - 12 ELSE hours
      /\ time.pm <=> hours >= 12
  BY <1>1
<1>3. Vehicles!Seconds(time) = s
  BY DEF Vehicles!Seconds
<1>4. s \in Nat /\ s < 24 * 3600 /\ h = hours /\ m = time.minutes
  <2> HIDE DEF hours
  <2> QED BY <1>1, <1>2, HoursAndMinutes
<1>5. time = [hours |-> time.hours, minutes |-> time.minutes, pm |-> time.pm]
  BY DEF Times
<1>6. ASSUME s # 0 PROVE Vehicles!TimeOf(s) = time
  <2> HIDE DEF s
  <2>1. Vehicles!TimeOf(s) = [hours |-> IF h = 0 THEN 12 ELSE IF h > 12 THEN h - 12 ELSE h,
                              minutes |-> m, pm |-> h >= 12]
    BY <1>4, <1>6 DEF Vehicles!TimeOf, Vehicles!NoSeconds
  <2> HIDE DEF hours, h, m
  <2> QED
    BY <1>1, <1>2, <1>4, <1>5, <2>1
<1> HIDE DEF hours, s
<1>7. s \in 0..Vehicles!SecondsOfDay - 1
  <2>1. Vehicles!SecondsOfDay \in Int /\ s < Vehicles!SecondsOfDay
    BY <1>4 DEF Vehicles!SecondsOfDay
  <2> QED BY <1>4, <2>1
<1> QED
  BY <1>3, <1>4, <1>6, <1>7

\* What a save point makes of the departure time of a vehicle.
LEMMA DepartureComesBack ==
  ASSUME NEW v \in VehicleRecords, DepartsWell(v)
  PROVE  LET restored == Vehicles!TimeOf(Vehicles!SavedDeparture(v))
         IN  /\ restored \in {v.departure, Vehicles!NoTime}
             /\ restored = v.departure \/ Vehicles!Seconds(v.departure) = 0
<1>1. v.departure \in Times
  BY DEF VehicleRecords
<1>2. CASE v.departure = Vehicles!NoTime
  BY <1>2 DEF Vehicles!SavedDeparture, Vehicles!TimeOf
<1>3. CASE v.departure # Vehicles!NoTime
  <2>1. /\ Vehicles!SavedDeparture(v) = Vehicles!Seconds(v.departure)
        /\ Vehicles!IsValidTime(v.departure)
    BY <1>3 DEF Vehicles!SavedDeparture, DepartsWell
  <2>2. CASE Vehicles!Seconds(v.departure) = 0
    BY <2>1, <2>2 DEF Vehicles!TimeOf
  <2>3. CASE Vehicles!Seconds(v.departure) # 0
    BY <1>1, <2>1, <2>3, SecondsComeBack
  <2> QED BY <2>2, <2>3
<1> QED BY <1>2, <1>3

\* The entries a list keeps, as the vehicles see them.
LEMMA VehiclesAreLeft ==
  ASSUME NEW list, NEW places
  PROVE  Vehicles!EntriesAt(list, places) = EntriesAt(list, places)
<1>1. ASSUME NEW S PROVE Vehicles!Cardinality(S) = Cardinality(S)
  BY DEF Vehicles!Cardinality, Cardinality
<1>2. ASSUME NEW i PROVE Vehicles!Rank(i, places) = Rank(i, places)
  BY <1>1 DEF Vehicles!Rank, Rank
<1>3. ASSUME NEW k
      PROVE  list[CHOOSE i \in places : Vehicles!Rank(i, places) = k]
               = list[CHOOSE i \in places : Rank(i, places) = k]
  <2>1. \A i \in places : Vehicles!Rank(i, places) = k <=> Rank(i, places) = k
    BY <1>2
  <2>2. (CHOOSE i \in places : Vehicles!Rank(i, places) = k)
          = (CHOOSE i \in places : Rank(i, places) = k)
    BY <2>1, Zenon
  <2> QED BY <2>2, Zenon
<1>4. Vehicles!Cardinality(places) = Cardinality(places)
  BY <1>1
<1> DEFINE theirs(k) == list[CHOOSE i \in places : Vehicles!Rank(i, places) = k]
           ours(k) == list[CHOOSE i \in places : Rank(i, places) = k]
<1>5. Vehicles!EntriesAt(list, places) = [k \in 1..Vehicles!Cardinality(places) |-> theirs(k)]
  BY Zenon DEF Vehicles!EntriesAt
<1>6. EntriesAt(list, places) = [k \in 1..Cardinality(places) |-> ours(k)]
  BY Zenon DEF EntriesAt
<1>7. \A k : theirs(k) = ours(k)
  BY <1>3, Zenon
<1> HIDE DEF theirs, ours
<1>8. [k \in 1..Cardinality(places) |-> theirs(k)] = [k \in 1..Cardinality(places) |-> ours(k)]
  BY <1>7
<1> QED
  BY <1>4, <1>5, <1>6, <1>8, Zenon

LEMMA FewerVehicles ==
  ASSUME NEW list, SoundFleet(list), NEW m \in Nat, DOMAIN list = 1..m,
         NEW places, places \in SUBSET (1..m)
  PROVE  SoundFleet(Vehicles!EntriesAt(list, places))
<1> DEFINE left == EntriesAt(list, places)
           n == Cardinality(places)
<1>2. n \in Nat /\ left = [k \in 1..n |-> left[k]]
  BY EntriesAtFacts
<1>3. \A k \in 1..n : \E i \in places : left[k] = list[i] /\ Rank(i, places) = k
  BY EntriesAtRanks, Zenon
<1> HIDE DEF left, n
<1>4. \A k \in 1..n : \E i \in DOMAIN list : left[k] = list[i]
  BY <1>3
<1>5. \A k \in 1..n : left[k] \in VehicleRecords /\ Sendable(left[k])
  BY <1>4 DEF SoundFleet
<1>6. left \in Seq(VehicleRecords) /\ DOMAIN left = 1..n
  BY <1>2, <1>5
<1>7. \A k, l \in 1..n : left[k].id = left[l].id => k = l
  <2>1. ASSUME NEW k \in 1..n, NEW l \in 1..n, left[k].id = left[l].id PROVE k = l
    <3>1. PICK i \in places : left[k] = list[i] /\ Rank(i, places) = k
      BY <1>3
    <3>2. PICK j \in places : left[l] = list[j] /\ Rank(j, places) = l
      BY <1>3
    <3>3. i = j
      BY <2>1, <3>1, <3>2 DEF SoundFleet
    <3> QED BY <3>1, <3>2, <3>3
  <2> QED BY <2>1
<1>8. SoundFleet(left)
  BY <1>5, <1>6, <1>7 DEF SoundFleet
<1> QED BY <1>8, VehiclesAreLeft DEF left

\* A vehicle that is added gets an id that none has.
LEMMA NewIdIsNew ==
  ASSUME SoundFleet(vFleet)
  PROVE  Vehicles!NewId \in Nat /\ \A i \in DOMAIN vFleet : vFleet[i].id # Vehicles!NewId
<1> DEFINE S == {0} \cup Vehicles!Ids
<1>1. Len(vFleet) \in Nat /\ DOMAIN vFleet = 1..Len(vFleet)
  BY DEF SoundFleet
<1>2. IsFiniteSet(S)
  <2>1. IsFiniteSet(Vehicles!Ids)
    BY <1>1, IdsAreFinite DEF Vehicles!Ids
  <2>2. S = Vehicles!Ids \cup {0}
    OBVIOUS
  <2> QED BY <2>1, <2>2, FS_AddElement
<1>3. S \subseteq Nat
  <2>0. \A i \in DOMAIN vFleet : vFleet[i] \in VehicleRecords
    BY <1>1 DEF SoundFleet
  <2>1. \A i \in DOMAIN vFleet : vFleet[i].id \in Nat
    BY <2>0 DEF VehicleRecords
  <2>2. ASSUME NEW x \in Vehicles!Ids PROVE x \in Nat
    <3>1. PICK i \in DOMAIN vFleet : x = vFleet[i].id
      BY DEF Vehicles!Ids
    <3> QED BY <2>1, <3>1
  <2>3. 0 \in Nat
    OBVIOUS
  <2> QED BY <2>2, <2>3, Zenon
<1>4. PICK m \in S : \A x \in S : m >= x
  BY <1>2, <1>3, FiniteSetHasMax
<1>5. Vehicles!Max(S) \in S /\ \A x \in S : Vehicles!Max(S) >= x
  <2> HIDE DEF S
  <2> QED BY <1>4 DEF Vehicles!Max
<1>6. Vehicles!NewId = 1 + Vehicles!Max(S)
  BY DEF Vehicles!NewId
<1>7. \A i \in DOMAIN vFleet : vFleet[i].id \in S
  BY DEF Vehicles!Ids
<1> HIDE DEF S
<1> QED BY <1>3, <1>5, <1>6, <1>7

\* The form as it is saved into a vehicle.
LEMMA SavedForm ==
  ASSUME vForm \in FormRecords, Vehicles!FormIsValid, NEW v \in VehicleRecords
  PROVE  /\ Vehicles!WithForm(v) \in VehicleRecords
         /\ Sendable(Vehicles!WithForm(v))
         /\ Vehicles!WithForm(v).id = v.id
<1>1. Vehicles!WithForm(v) \in VehicleRecords
  BY DEF Vehicles!WithForm, VehicleRecords, FormRecords
<1>2. LET w == Vehicles!WithForm(v)
      IN  /\ w.id = v.id /\ w.missing = vForm.missing /\ w.capacity = vForm.capacity
          /\ w.departure = vForm.time
  BY DEF Vehicles!WithForm, VehicleRecords
<1>3. Sendable(Vehicles!WithForm(v))
  BY <1>2 DEF Vehicles!FormIsValid, Sendable, DepartsWell
<1> QED BY <1>1, <1>2, <1>3

\* A vehicle as the page of a save point shows it.
LEMMA RestoredVehicle ==
  ASSUME NEW v \in VehicleRecords, Sendable(v)
  PROVE  /\ Vehicles!Restored(v) \in VehicleRecords
         /\ Sendable(Vehicles!Restored(v))
         /\ Vehicles!Restored(v).id = v.id
<1> DEFINE d == Vehicles!TimeOf(Vehicles!SavedDeparture(v))
           w == Vehicles!Restored(v)
<1>1. d \in {v.departure, Vehicles!NoTime}
  BY DepartureComesBack DEF Sendable
<1>2. d \in Times
  BY <1>1, TimesOfDay DEF VehicleRecords
<1>3. w = [v EXCEPT !.available = TRUE, !.departure = d]
  BY Zenon DEF Vehicles!Restored
<1> HIDE DEF d, w
<1>4. w \in VehicleRecords
  BY <1>2, <1>3 DEF VehicleRecords
<1>5. w.id = v.id /\ w.missing = v.missing /\ w.capacity = v.capacity /\ w.departure = d
  BY <1>3 DEF VehicleRecords
<1>6. Sendable(w)
  BY <1>1, <1>5 DEF Sendable, DepartsWell
<1> QED BY <1>4, <1>5, <1>6 DEF w

LEMMA VehiclesStepKeeps ==
  ASSUME VehiclesIInv, [Vehicles!Next]_Vehicles!vehicleVars
  PROVE  VehiclesIInv'
<1> USE DEF VehiclesIInv
<1>0. UNCHANGED vFleet => SoundFleet(vFleet)'
  BY DEF SoundFleet
<1>1. ASSUME vForm' = Vehicles!EmptyForm PROVE vForm' \in FormRecords /\ TypedMinutes'
  BY <1>1, TimesOfDay DEF Vehicles!EmptyForm, FormRecords, TypedMinutes
<1>2. UNCHANGED vForm => vForm' \in FormRecords /\ TypedMinutes'
  BY DEF TypedMinutes
<1>3. ASSUME NEW kind, NEW v \in VehicleRecords, DepartsWell(v), Vehicles!OpenForm(kind, v)
      PROVE  VehiclesIInv'
  <2> DEFINE timed == v.departure # Vehicles!NoTime
  <2>1. /\ vForm' = [missing |-> v.missing, capacity |-> v.capacity,
                     available |-> v.available, time |-> v.departure, auto |-> FALSE,
                     typed |-> timed]
        /\ UNCHANGED vFleet
    BY <1>3 DEF Vehicles!OpenForm
  <2>2. timed => v.departure.minutes # Vehicles!Blank
    BY <1>3 DEF DepartsWell, Vehicles!IsValidTime, Vehicles!Blank
  <2>3. timed \in BOOLEAN
    OBVIOUS
  <2> HIDE DEF timed
  <2>4. vForm' \in FormRecords
    BY <2>1, <2>3 DEF FormRecords, VehicleRecords
  <2>5. TypedMinutes'
    BY <2>1, <2>2 DEF TypedMinutes
  <2> QED BY <1>0, <2>1, <2>4, <2>5
<1>4. CASE Vehicles!OpenAdd
  <2>1. Vehicles!BlankVehicle \in VehicleRecords /\ DepartsWell(Vehicles!BlankVehicle)
    BY TimesOfDay DEF Vehicles!BlankVehicle, VehicleRecords, DepartsWell
  <2> QED BY <1>3, <1>4, <2>1 DEF Vehicles!OpenAdd
<1>5. ASSUME NEW id \in Vehicles!Ids, Vehicles!OpenEdit(id) PROVE VehiclesIInv'
  <2>1. PICK i \in DOMAIN vFleet : Vehicles!Vehicle(id) = vFleet[i]
    BY DEF Vehicles!Ids, Vehicles!Vehicle
  <2>2. Vehicles!Vehicle(id) \in VehicleRecords /\ DepartsWell(Vehicles!Vehicle(id))
    BY <2>1 DEF SoundFleet, Sendable
  <2> QED BY <1>3, <1>5, <2>2 DEF Vehicles!OpenEdit
<1>6. CASE Vehicles!CloseForm
  BY <1>0, <1>1, <1>6 DEF Vehicles!CloseForm
<1>7. CASE Vehicles!EnterDetails
  <2>1. UNCHANGED vFleet
    BY <1>7 DEF Vehicles!EnterDetails
  <2>2. ASSUME NEW d \in vForm.missing, vForm' = [vForm EXCEPT !.missing = @ \ {d}]
        PROVE  VehiclesIInv'
    BY <1>0, <2>1, <2>2 DEF FormRecords, TypedMinutes
  <2>3. ASSUME NEW d \in Clearable \ vForm.missing,
               vForm' = [vForm EXCEPT !.missing = @ \cup {d}]
        PROVE  VehiclesIInv'
    BY <1>0, <2>1, <2>3, VehiclesAssumed
    DEF FormRecords, TypedMinutes, Vehicles!VehicleAssumption
  <2>4. CASE vForm' = [vForm EXCEPT !.capacity = 1 - @]
    BY <1>0, <2>1, <2>4 DEF FormRecords, TypedMinutes
  <2>5. CASE vForm' = [vForm EXCEPT !.available = ~@]
    BY <1>0, <2>1, <2>5 DEF FormRecords, TypedMinutes
  <2>6. CASE vForm' = [vForm EXCEPT !.time.pm = ~@]
    BY <1>0, <2>1, <2>6 DEF FormRecords, Times, TypedMinutes
  <2> QED
    BY <1>7, <2>2, <2>3, <2>4, <2>5, <2>6 DEF Vehicles!EnterDetails
<1>8. CASE Vehicles!EnterHours
  <2>1. PICK h \in HourTexts \cup {Vehicles!Blank} :
          LET next == Vehicles!MinutesAfterHourChange(h, vForm.time.minutes, vForm.auto)
          IN  vForm' = [vForm EXCEPT !.time.hours = h, !.time.minutes = next.minutes,
                                     !.auto = next.auto]
    BY <1>8 DEF Vehicles!EnterHours
  <2> DEFINE next == Vehicles!MinutesAfterHourChange(h, vForm.time.minutes, vForm.auto)
  <2>2. vForm.time.minutes \in Int /\ vForm.auto \in BOOLEAN
    BY DEF FormRecords, Times
  <2>3. next.minutes \in Int /\ next.auto \in BOOLEAN
    BY <2>2 DEF Vehicles!MinutesAfterHourChange, Vehicles!Blank
  <2>4. TypedMinutes => (vForm.typed => ~next.auto /\ next.minutes # Vehicles!Blank)
    BY <2>2 DEF Vehicles!MinutesAfterHourChange, Vehicles!Blank, TypedMinutes
  <2>5. h \in Int
    BY TimesOfDay
  <2> HIDE DEF next
  <2>6. vForm' = [vForm EXCEPT !.time.hours = h, !.time.minutes = next.minutes,
                               !.auto = next.auto]
    BY <2>1 DEF next
  <2>7. vForm' \in FormRecords
    BY <2>3, <2>5, <2>6 DEF FormRecords, Times
  <2>8. TypedMinutes'
    BY <2>4, <2>6 DEF FormRecords, Times, TypedMinutes
  <2> QED
    BY <1>0, <1>8, <2>7, <2>8 DEF Vehicles!EnterHours
<1>9. CASE Vehicles!EnterMinutes
  <2>1. PICK m \in MinuteTexts \cup {Vehicles!Blank} :
          vForm' = [vForm EXCEPT !.time.minutes = m, !.auto = FALSE,
                                 !.typed = m # Vehicles!Blank]
    BY <1>9 DEF Vehicles!EnterMinutes
  <2>2. m \in Int /\ (m # Vehicles!Blank) \in BOOLEAN
    BY TimesOfDay
  <2>3. vForm' \in FormRecords
    BY <2>1, <2>2 DEF FormRecords, Times
  <2>4. TypedMinutes'
    BY <2>1 DEF FormRecords, Times, TypedMinutes
  <2> QED
    BY <1>0, <1>9, <2>3, <2>4 DEF Vehicles!EnterMinutes
<1>10. CASE Vehicles!SaveForm
  <2>1. Vehicles!FormIsValid /\ vForm' = Vehicles!EmptyForm
    BY <1>10 DEF Vehicles!SaveForm
  <2>2. CASE vOverlay.kind = "add"
    <3> DEFINE blank == [Vehicles!BlankVehicle EXCEPT !.id = Vehicles!NewId]
               new == Vehicles!WithForm(blank)
    <3>1. vFleet' = Append(vFleet, new)
      BY <1>10, <2>2 DEF Vehicles!SaveForm
    <3>2. blank \in VehicleRecords /\ blank.id = Vehicles!NewId
      <4>1. Vehicles!BlankVehicle \in VehicleRecords
        BY TimesOfDay DEF Vehicles!BlankVehicle, VehicleRecords
      <4>2. Vehicles!NewId \in Nat
        BY NewIdIsNew
      <4> QED BY <4>1, <4>2 DEF VehicleRecords
    <3>3. new \in VehicleRecords /\ Sendable(new) /\ new.id = Vehicles!NewId
      <4> HIDE DEF blank
      <4> QED BY <2>1, <3>2, SavedForm
    <3> HIDE DEF blank, new
    <3>4. SoundFleet(Append(vFleet, new))
      BY <3>3, NewIdIsNew DEF SoundFleet
    <3> QED BY <1>1, <2>1, <3>1, <3>4
  <2>3. CASE vOverlay.kind # "add"
    <3> DEFINE Change(i) == IF vFleet[i].id = vOverlay.id THEN Vehicles!WithForm(vFleet[i])
                                                          ELSE vFleet[i]
    <3>1. vFleet' = [i \in DOMAIN vFleet |-> Change(i)]
      BY <1>10, <2>3 DEF Vehicles!SaveForm
    <3>2. \A i \in DOMAIN vFleet : /\ Change(i) \in VehicleRecords /\ Sendable(Change(i))
                                   /\ Change(i).id = vFleet[i].id
      BY <2>1, SavedForm DEF SoundFleet
    <3> HIDE DEF Change
    <3>3. SoundFleet([i \in DOMAIN vFleet |-> Change(i)])
      BY <3>2 DEF SoundFleet
    <3> QED BY <1>1, <2>1, <3>1, <3>3
  <2> QED BY <2>2, <2>3
<1>11. CASE Vehicles!CancelDelete \/ UNCHANGED Vehicles!vehicleVars
  BY <1>0, <1>2, <1>11 DEF Vehicles!CancelDelete, Vehicles!vehicleVars
<1>12. CASE Vehicles!DeleteVehicle
  <2> DEFINE places == {i \in DOMAIN vFleet : vFleet[i].id # vOverlay.id}
  <2>1. vFleet' = Vehicles!EntriesAt(vFleet, places) /\ UNCHANGED vForm
    BY <1>12 DEF Vehicles!DeleteVehicle
  <2>2. places \in SUBSET (1..Len(vFleet)) /\ Len(vFleet) \in Nat
        /\ DOMAIN vFleet = 1..Len(vFleet)
    BY DEF SoundFleet
  <2> HIDE DEF places
  <2>3. SoundFleet(Vehicles!EntriesAt(vFleet, places))
    BY <2>2, FewerVehicles
  <2> QED BY <1>2, <2>1, <2>3
<1>13. ASSUME NEW ids, NEW available \in BOOLEAN, Vehicles!SetAvailable(ids, available)
       PROVE  VehiclesIInv'
  <2> DEFINE Change(i) == IF vFleet[i].id \in ids
                            THEN [vFleet[i] EXCEPT !.available = available] ELSE vFleet[i]
  <2>1. vFleet' = [i \in DOMAIN vFleet |-> Change(i)] /\ UNCHANGED vForm
    BY <1>13 DEF Vehicles!SetAvailable
  <2>2. ASSUME NEW v \in VehicleRecords, Sendable(v)
        PROVE  LET w == [v EXCEPT !.available = available]
               IN  w \in VehicleRecords /\ Sendable(w) /\ w.id = v.id
    BY <2>2 DEF VehicleRecords, Sendable, DepartsWell
  <2>3. \A i \in DOMAIN vFleet : /\ Change(i) \in VehicleRecords /\ Sendable(Change(i))
                                 /\ Change(i).id = vFleet[i].id
    BY <2>2 DEF SoundFleet
  <2> HIDE DEF Change
  <2>4. SoundFleet([i \in DOMAIN vFleet |-> Change(i)])
    BY <2>3 DEF SoundFleet
  <2> QED BY <1>2, <2>1, <2>4
<1>14. CASE Vehicles!MarkAllAvailable
  BY <1>13, <1>14 DEF Vehicles!MarkAllAvailable
<1>15. ASSUME NEW id \in Vehicles!Ids, Vehicles!ToggleAvailable(id) PROVE VehiclesIInv'
  BY <1>13, <1>15 DEF Vehicles!ToggleAvailable
<1>16. CASE Vehicles!ReopenSavePoint
  <2>1. vFleet' = [i \in DOMAIN vFleet |-> Vehicles!Restored(vFleet[i])] /\ UNCHANGED vForm
    BY <1>16 DEF Vehicles!ReopenSavePoint
  <2>2. \A i \in DOMAIN vFleet :
          /\ Vehicles!Restored(vFleet[i]) \in VehicleRecords
          /\ Sendable(Vehicles!Restored(vFleet[i]))
          /\ Vehicles!Restored(vFleet[i]).id = vFleet[i].id
    BY RestoredVehicle DEF SoundFleet
  <2> DEFINE Change(i) == Vehicles!Restored(vFleet[i])
  <2> HIDE DEF Change
  <2>3. SoundFleet([i \in DOMAIN vFleet |-> Change(i)])
    BY <2>2 DEF SoundFleet, Change
  <2> QED BY <1>2, <2>1, <2>3 DEF Change
<1>17. ASSUME NEW id \in Vehicles!Ids, Vehicles!RequestDelete(id) PROVE VehiclesIInv'
  BY <1>0, <1>2, <1>17 DEF Vehicles!RequestDelete
<1> QED
  BY <1>4, <1>5, <1>6, <1>7, <1>8, <1>9, <1>10, <1>11, <1>12, <1>14, <1>15, <1>16, <1>17
  DEF Vehicles!Next

LEMMA VehiclesInvariance == Vehicles!Spec => []VehiclesIInv
<1>1. Vehicles!Init => VehiclesIInv
  BY TimesOfDay
  DEF Vehicles!Init, Vehicles!EmptyForm, VehiclesIInv, SoundFleet, FormRecords, TypedMinutes
<1>2. VehiclesIInv /\ [Vehicles!Next]_Vehicles!vehicleVars => VehiclesIInv'
  BY VehiclesStepKeeps
<1> QED BY <1>1, <1>2, PTL DEF Vehicles!Spec

LEMMA SoundFleetIsSound == VehiclesIInv => Vehicles!FleetIsSound
<1> SUFFICES ASSUME VehiclesIInv PROVE Vehicles!FleetIsSound
  OBVIOUS
<1>1. Len(vFleet) \in Nat /\ DOMAIN vFleet = 1..Len(vFleet)
  BY DEF VehiclesIInv, SoundFleet
<1>2. Vehicles!Cardinality(Vehicles!Ids) = Len(vFleet)
  <2>1. \A i, j \in 1..Len(vFleet) : vFleet[i].id = vFleet[j].id => i = j
    BY <1>1 DEF VehiclesIInv, SoundFleet
  <2>2. Cardinality({vFleet[i].id : i \in 1..Len(vFleet)}) = Len(vFleet)
    BY <1>1, <2>1, DistinctIdsCounted
  <2>3. Vehicles!Ids = {vFleet[i].id : i \in 1..Len(vFleet)}
    BY <1>1 DEF Vehicles!Ids
  <2>4. Cardinality(Vehicles!Ids) = Len(vFleet)
    BY <2>2, <2>3
  <2> QED BY <2>4 DEF Vehicles!Cardinality, Cardinality
<1>3. ASSUME NEW i \in DOMAIN vFleet
      PROVE  /\ vFleet[i].missing = {} /\ vFleet[i].capacity > 0
             /\ vFleet[i].departure # Vehicles!NoTime
                  => /\ Vehicles!IsValidTime(vFleet[i].departure)
                     /\ Vehicles!Seconds(vFleet[i].departure) \in 0..Vehicles!SecondsOfDay - 1
  <2>1. vFleet[i] \in VehicleRecords /\ Sendable(vFleet[i])
    BY DEF VehiclesIInv, SoundFleet
  <2>2. vFleet[i].departure \in Times
    BY <2>1 DEF VehicleRecords
  <2> QED BY <2>1, <2>2, SecondsComeBack DEF Sendable, DepartsWell
<1> QED
  BY <1>2, <1>3, Zenon DEF Vehicles!FleetIsSound

\* Departure times are those the users entered, through the automatic minutes, the check
\* of the form, the save point and back: for any vehicles and any texts typed.
THEOREM DeparturesAreKept == Spec => DeparturesKept
<1> DEFINE Survive ==
             Vehicles!Editing /\ Vehicles!Editing' /\ vForm.typed /\ vForm'.typed
               /\ vForm'.time.hours # vForm.time.hours
             => vForm'.time.minutes = vForm.time.minutes
           Restore ==
             Vehicles!ReopenSavePoint => \A i \in DOMAIN vFleet :
               \/ vFleet'[i].departure = vFleet[i].departure
               \/ Vehicles!Seconds(vFleet[i].departure) = 0
<1>1. VehiclesIInv /\ [Vehicles!Next]_Vehicles!vehicleVars => [Survive]_Vehicles!vehicleVars
  <2> SUFFICES ASSUME VehiclesIInv, Vehicles!Next PROVE Survive
    BY Zenon
  <2> SUFFICES ASSUME Vehicles!Editing, Vehicles!Editing', vForm.typed, vForm'.typed,
                      vForm'.time.hours # vForm.time.hours
               PROVE  vForm'.time.minutes = vForm.time.minutes
    OBVIOUS
  <2>0. vForm \in FormRecords /\ TypedMinutes
    BY DEF VehiclesIInv
  <2>1. CASE Vehicles!EnterDetails \/ Vehicles!EnterMinutes
    BY <2>0, <2>1 DEF Vehicles!EnterDetails, Vehicles!EnterMinutes, FormRecords, Times
  <2>2. CASE Vehicles!EnterHours
    <3>1. PICK h \in HourTexts \cup {Vehicles!Blank} :
            LET next == Vehicles!MinutesAfterHourChange(h, vForm.time.minutes, vForm.auto)
            IN  vForm' = [vForm EXCEPT !.time.hours = h, !.time.minutes = next.minutes,
                                       !.auto = next.auto]
      BY <2>2 DEF Vehicles!EnterHours
    <3>2. Vehicles!MinutesAfterHourChange(h, vForm.time.minutes, vForm.auto).minutes
            = vForm.time.minutes
      BY <2>0 DEF Vehicles!MinutesAfterHourChange, TypedMinutes
    <3> QED BY <2>0, <3>1, <3>2 DEF FormRecords, Times
  <2>3. CASE Vehicles!CloseForm \/ Vehicles!SaveForm
    BY <2>3 DEF Vehicles!CloseForm, Vehicles!SaveForm, Vehicles!EmptyForm
  <2>4. CASE \/ Vehicles!OpenAdd \/ Vehicles!CancelDelete \/ Vehicles!DeleteVehicle
             \/ Vehicles!MarkAllAvailable \/ Vehicles!ReopenSavePoint
    BY <2>4
    DEF Vehicles!OpenAdd, Vehicles!OpenForm, Vehicles!CancelDelete, Vehicles!DeleteVehicle,
        Vehicles!MarkAllAvailable, Vehicles!SetAvailable, Vehicles!ReopenSavePoint,
        Vehicles!Editing, Vehicles!Closed
  <2>5. ASSUME NEW id \in Vehicles!Ids,
               \/ Vehicles!OpenEdit(id) \/ Vehicles!RequestDelete(id)
               \/ Vehicles!ToggleAvailable(id)
        PROVE  FALSE
    BY <2>5
    DEF Vehicles!OpenEdit, Vehicles!OpenForm, Vehicles!RequestDelete,
        Vehicles!ToggleAvailable, Vehicles!SetAvailable, Vehicles!Editing, Vehicles!Closed
  <2> QED
    BY <2>1, <2>2, <2>3, <2>4, <2>5 DEF Vehicles!Next
<1>2. VehiclesIInv /\ [Vehicles!Next]_Vehicles!vehicleVars => [Restore]_Vehicles!vehicleVars
  <2> SUFFICES ASSUME VehiclesIInv, Vehicles!ReopenSavePoint, NEW i \in DOMAIN vFleet
               PROVE  \/ vFleet'[i].departure = vFleet[i].departure
                      \/ Vehicles!Seconds(vFleet[i].departure) = 0
    OBVIOUS
  <2>1. vFleet[i] \in VehicleRecords /\ DepartsWell(vFleet[i])
    BY DEF VehiclesIInv, SoundFleet, Sendable
  <2>2. vFleet'[i] = Vehicles!Restored(vFleet[i])
    BY DEF Vehicles!ReopenSavePoint
  <2>3. Vehicles!Restored(vFleet[i]).departure
          = Vehicles!TimeOf(Vehicles!SavedDeparture(vFleet[i]))
    BY <2>1 DEF Vehicles!Restored, VehicleRecords
  <2> QED BY <2>1, <2>2, <2>3, DepartureComesBack
<1>3. []VehiclesIInv /\ [][Vehicles!Next]_Vehicles!vehicleVars
        => Vehicles!TypedMinutesSurvive /\ Vehicles!DeparturesRestored
  BY <1>1, <1>2, PTL DEF Vehicles!TypedMinutesSurvive, Vehicles!DeparturesRestored
<1>4. Vehicles!Spec => [][Vehicles!Next]_Vehicles!vehicleVars
  BY DEF Vehicles!Spec
<1> QED
  BY <1>3, <1>4, SoundFleetIsSound, VehiclesInvariance, PartsKeepToTheirs, PTL
  DEF DeparturesKept, Vehicles!DeparturesKept
-----------------------------------------------------------------------------
(* The addresses: the list the handlers work on *)

PlacesOrNone == Places \cup {Addresses!NoPlace}

RowRecords ==
  [id : Nat, locked : BOOLEAN, place : PlacesOrNone, located : PlacesOrNone,
   quantity : Int, start : Int, end : Int, hit : BOOLEAN]

\* Ids of their own, one open row, and locations that are those of the addresses.
SoundRows(list) ==
  /\ list \in Seq(RowRecords)
  /\ \A i, j \in DOMAIN list : list[i].id = list[j].id => i = j
  /\ \A i, j \in DOMAIN list : ~list[i].locked /\ ~list[j].locked => i = j
  /\ \A i \in DOMAIN list : list[i].located \in {Addresses!NoPlace, list[i].place}

\* No row has an id above the mark, so that the next id is new.
MarkIsAbove(list, mark) == mark \in Nat /\ \A i \in DOMAIN list : list[i].id <= mark

PageExists == ~aSearch => aPage \in Nat \ {0} /\ aPage <= Addresses!Pages(Len(aRows))

\* While an address is located its row keeps it: the dialog covers the section.
LookupIsOfRow ==
  /\ aLookup.place \in PlacesOrNone
  /\ aDialog.kind = "optimizing" =>
       \A i \in DOMAIN aRows : aRows[i].id = aLookup.id => aRows[i].place = aLookup.place

AddressesIInv ==
  /\ SoundRows(aRows) /\ MarkIsAbove(aRows, aHighest)
  /\ aPerPage \in PageSizes /\ PageExists
  /\ LookupIsOfRow

\* The greatest of two numbers, and the least.
LEMMA OfTwo ==
  ASSUME NEW a \in Int, NEW b \in Int
  PROVE  /\ Addresses!Max({a, b}) = IF a >= b THEN a ELSE b
         /\ Addresses!Min({a, b}) = IF a <= b THEN a ELSE b
<1>1. Addresses!Max({a, b}) \in {a, b} /\ \A y \in {a, b} : Addresses!Max({a, b}) >= y
  <2>1. \E x \in {a, b} : \A y \in {a, b} : x >= y
    OBVIOUS
  <2> QED BY <2>1 DEF Addresses!Max
<1>2. Addresses!Min({a, b}) \in {a, b} /\ \A y \in {a, b} : Addresses!Min({a, b}) <= y
  <2>1. \E x \in {a, b} : \A y \in {a, b} : x <= y
    OBVIOUS
  <2> QED BY <2>1 DEF Addresses!Min
<1> QED BY <1>1, <1>2

\* There is always a first page.
LEMMA PagesAreNumbers ==
  ASSUME NEW n \in Nat, aPerPage \in PageSizes
  PROVE  Addresses!Pages(n) \in Nat /\ Addresses!Pages(n) >= 1
<1>1. aPerPage \in Nat \ {0}
  BY AddressesAssumed DEF Addresses!AddressAssumption
<1>2. (n + aPerPage - 1) \div aPerPage \in Int
  BY <1>1
<1> QED BY <1>2, OfTwo DEF Addresses!Pages

\* After a change of the list the mark is above its ids again.
LEMMA CommitRaisesMark ==
  ASSUME NEW list, SoundRows(list), NEW mark \in Nat, Addresses!Commit(list, mark)
  PROVE  aRows' = list /\ MarkIsAbove(list, aHighest')
<1> DEFINE ids == {list[i].id : i \in DOMAIN list}
           S == {mark} \cup ids
<1>0. PICK n \in Nat : DOMAIN list = 1..n
  BY DEF SoundRows
<1>1. aRows' = list /\ aHighest' = Addresses!Max(S)
  BY DEF Addresses!Commit
<1>2. IsFiniteSet(S)
  <2>1. IsFiniteSet(ids)
    BY <1>0, IdsAreFinite
  <2>2. S = ids \cup {mark}
    OBVIOUS
  <2> QED BY <2>1, <2>2, FS_AddElement
<1>3. \A i \in DOMAIN list : list[i] \in RowRecords
  BY DEF SoundRows
<1>4. \A i \in DOMAIN list : list[i].id \in Nat
  BY <1>3 DEF RowRecords
<1>5. S \subseteq Nat
  <2>1. ASSUME NEW x \in ids PROVE x \in Nat
    BY <1>4
  <2> HIDE DEF ids
  <2> QED BY <2>1, Zenon
<1>6. \A i \in DOMAIN list : list[i].id \in S
  OBVIOUS
<1> HIDE DEF S
<1>7. PICK m \in S : \A x \in S : m >= x
  <2>1. S # {} /\ S \in SUBSET Int
    BY <1>5 DEF S
  <2> QED BY <1>2, <2>1, FiniteSetHasMax
<1>8. Addresses!Max(S) \in S /\ \A x \in S : Addresses!Max(S) >= x
  BY <1>7 DEF Addresses!Max
<1>9. \A i \in DOMAIN list : list[i].id <= Addresses!Max(S)
  BY <1>5, <1>6, <1>8
<1> QED BY <1>1, <1>5, <1>8, <1>9 DEF MarkIsAbove

\* Rows that change one by one stay sound when they keep their ids, are not opened and
\* forget the location with the address.
LEMMA ChangedRows ==
  ASSUME SoundRows(aRows), NEW list, DOMAIN list = DOMAIN aRows,
         list = [i \in DOMAIN list |-> list[i]],
         \A i \in DOMAIN aRows :
           /\ list[i] \in RowRecords /\ list[i].id = aRows[i].id
           /\ aRows[i].locked => list[i].locked
           /\ list[i].located \in {Addresses!NoPlace, list[i].place}
  PROVE  SoundRows(list)
BY DEF SoundRows

\* The entries a list keeps, as the addresses see them.
LEMMA AddressesAreLeft ==
  ASSUME NEW list, NEW places
  PROVE  Addresses!EntriesAt(list, places) = EntriesAt(list, places)
<1>1. ASSUME NEW S PROVE Addresses!Cardinality(S) = Cardinality(S)
  BY DEF Addresses!Cardinality, Cardinality
<1>2. ASSUME NEW i PROVE Addresses!Rank(i, places) = Rank(i, places)
  BY <1>1 DEF Addresses!Rank, Rank
<1>3. ASSUME NEW k
      PROVE  list[CHOOSE i \in places : Addresses!Rank(i, places) = k]
               = list[CHOOSE i \in places : Rank(i, places) = k]
  <2>1. \A i \in places : Addresses!Rank(i, places) = k <=> Rank(i, places) = k
    BY <1>2
  <2>2. (CHOOSE i \in places : Addresses!Rank(i, places) = k)
          = (CHOOSE i \in places : Rank(i, places) = k)
    BY <2>1, Zenon
  <2> QED BY <2>2, Zenon
<1>4. Addresses!Cardinality(places) = Cardinality(places)
  BY <1>1
<1> DEFINE theirs(k) == list[CHOOSE i \in places : Addresses!Rank(i, places) = k]
           ours(k) == list[CHOOSE i \in places : Rank(i, places) = k]
<1>5. Addresses!EntriesAt(list, places)
        = [k \in 1..Addresses!Cardinality(places) |-> theirs(k)]
  BY Zenon DEF Addresses!EntriesAt
<1>6. EntriesAt(list, places) = [k \in 1..Cardinality(places) |-> ours(k)]
  BY Zenon DEF EntriesAt
<1>7. \A k : theirs(k) = ours(k)
  BY <1>3, Zenon
<1> HIDE DEF theirs, ours
<1>8. [k \in 1..Cardinality(places) |-> theirs(k)] = [k \in 1..Cardinality(places) |-> ours(k)]
  BY <1>7
<1> QED
  BY <1>4, <1>5, <1>6, <1>8, Zenon

LEMMA FewerRows ==
  ASSUME NEW list, SoundRows(list), NEW m \in Nat, DOMAIN list = 1..m,
         NEW places, places \in SUBSET (1..m)
  PROVE  LET left == Addresses!EntriesAt(list, places)
         IN  SoundRows(left) /\ Len(left) \in Nat
             /\ \A k \in DOMAIN left : \E i \in places : left[k] = list[i]
<1> DEFINE left == EntriesAt(list, places)
           n == Cardinality(places)
<1>2. n \in Nat /\ left = [k \in 1..n |-> left[k]]
  BY EntriesAtFacts
<1>3. \A k \in 1..n : \E i \in places : left[k] = list[i] /\ Rank(i, places) = k
  BY EntriesAtRanks, Zenon
<1> HIDE DEF left, n
<1>4. \A k \in 1..n : \E i \in DOMAIN list : left[k] = list[i]
  BY <1>3
<1>5. \A k \in 1..n : /\ left[k] \in RowRecords
                      /\ left[k].located \in {Addresses!NoPlace, left[k].place}
  BY <1>4 DEF SoundRows
<1>6. left \in Seq(RowRecords) /\ DOMAIN left = 1..n
  BY <1>2, <1>5
<1>7. ASSUME NEW k \in 1..n, NEW l \in 1..n,
             left[k].id = left[l].id \/ (~left[k].locked /\ ~left[l].locked)
      PROVE  k = l
  <2>1. PICK i \in places : left[k] = list[i] /\ Rank(i, places) = k
    BY <1>3
  <2>2. PICK j \in places : left[l] = list[j] /\ Rank(j, places) = l
    BY <1>3
  <2>3. i = j
    BY <1>7, <2>1, <2>2 DEF SoundRows
  <2> QED BY <2>1, <2>2, <2>3
<1>8. SoundRows(left)
  <2>1. \A k, l \in 1..n : left[k].id = left[l].id => k = l
    BY <1>7
  <2>2. \A k, l \in 1..n : ~left[k].locked /\ ~left[l].locked => k = l
    BY <1>7
  <2> QED BY <1>5, <1>6, <2>1, <2>2, Zenon DEF SoundRows
<1>9. \A k \in DOMAIN left : \E i \in places : left[k] = list[i]
  BY <1>3, <1>6
<1>10. Len(left) \in Nat
  BY <1>6
<1> QED BY <1>8, <1>9, <1>10, AddressesAreLeft DEF left

\* The first open row is the open row.
LEMMA ActiveIsOpen ==
  ASSUME SoundRows(aRows), NEW i \in DOMAIN aRows, ~aRows[i].locked
  PROVE  Addresses!Open # {} /\ Addresses!Active = aRows[i].id
<1> DEFINE open == {j \in DOMAIN aRows : ~aRows[j].locked}
<1>1. open = {i}
  BY DEF SoundRows
<1>2. i \in Int
  BY DEF SoundRows
<1>3. Addresses!Min(open) = i
  <2> HIDE DEF open
  <2> QED BY <1>1, <1>2 DEF Addresses!Min
<1>4. Addresses!Active = aRows[Addresses!Min(open)].id
  BY DEF Addresses!Active
<1>5. aRows[i].id \in Addresses!Open
  BY DEF Addresses!Open
<1> QED BY <1>3, <1>4, <1>5

\* One row is opened, and the one that was open is locked.
LEMMA UnlockKeeps ==
  ASSUME SoundRows(aRows), NEW id, Addresses!Unlock(id)
  PROVE  /\ SoundRows(aRows')
         /\ DOMAIN aRows' = DOMAIN aRows
         /\ \A i \in DOMAIN aRows : /\ aRows'[i].id = aRows[i].id
                                   /\ aRows'[i].place = aRows[i].place
<1>1. CASE UNCHANGED aRows
  BY <1>1
<1>2. CASE aRows' = Addresses!UnlockRows(id)
  <2> DEFINE Change(i) ==
               IF aRows[i].id = id THEN [aRows[i] EXCEPT !.locked = FALSE]
               ELSE IF Addresses!Open # {} /\ aRows[i].id = Addresses!Active
               THEN [aRows[i] EXCEPT !.locked = TRUE] ELSE aRows[i]
  <2>1. aRows' = [i \in DOMAIN aRows |-> Change(i)]
    BY <1>2 DEF Addresses!UnlockRows
  <2>2. ASSUME NEW i \in DOMAIN aRows
        PROVE  /\ Change(i) \in RowRecords
               /\ Change(i).id = aRows[i].id /\ Change(i).place = aRows[i].place
               /\ Change(i).located = aRows[i].located
               /\ aRows[i].id # id => Change(i).locked
    <3>1. aRows[i] \in RowRecords
      BY DEF SoundRows
    <3>2. CASE aRows[i].id = id
      BY <3>1, <3>2 DEF RowRecords
    <3>3. CASE aRows[i].id # id /\ ~aRows[i].locked
      <4>1. Change(i) = [aRows[i] EXCEPT !.locked = TRUE]
        BY <3>3, ActiveIsOpen
      <4> HIDE DEF Change
      <4> QED BY <3>1, <3>3, <4>1 DEF RowRecords
    <3>4. CASE aRows[i].id # id /\ aRows[i].locked
      BY <3>1, <3>4 DEF RowRecords
    <3> QED BY <3>2, <3>3, <3>4
  <2> HIDE DEF Change
  <2>3. aRows' \in Seq(RowRecords) /\ DOMAIN aRows' = DOMAIN aRows
    BY <2>1, <2>2 DEF SoundRows
  <2>4. \A i \in DOMAIN aRows : aRows'[i] = Change(i)
    BY <2>1
  <2>5. \A i, j \in DOMAIN aRows : ~Change(i).locked /\ ~Change(j).locked => i = j
    BY <2>2 DEF SoundRows
  <2> QED BY <2>2, <2>3, <2>4, <2>5 DEF SoundRows
<1> QED BY <1>1, <1>2 DEF Addresses!Unlock

\* What an update of a field leaves of the list.
LEMMA UpdateKeeps ==
  ASSUME AddressesIInv, NEW list, SoundRows(list), DOMAIN list = DOMAIN aRows,
         NEW mark \in Nat, Addresses!Commit(list, mark), UNCHANGED <<aSearch, aPage, aPerPage>>,
         LookupIsOfRow'
  PROVE  AddressesIInv'
<1>1. aRows' = list /\ MarkIsAbove(list, aHighest')
  BY CommitRaisesMark
<1>2. Len(list) = Len(aRows)
  BY DEF AddressesIInv, SoundRows
<1>3. PageExists'
  BY <1>1, <1>2 DEF AddressesIInv, PageExists, Addresses!Pages
<1> QED BY <1>1, <1>3 DEF AddressesIInv

\* One field of a row changes, and whether the row is a match.
LEMMA FieldKeeps ==
  ASSUME AddressesIInv, aDialog.kind # "optimizing", NEW id,
         NEW changed \in [DOMAIN aRows -> RowRecords],
         \A i \in DOMAIN aRows :
           /\ changed[i].id = aRows[i].id
           /\ aRows[i].locked => changed[i].locked
           /\ changed[i].located \in {Addresses!NoPlace, changed[i].place},
         NEW hit \in BOOLEAN,
         Addresses!Commit([i \in DOMAIN aRows |-> IF aRows[i].id = id
                             THEN [changed[i] EXCEPT !.hit = hit] ELSE aRows[i]], aHighest),
         UNCHANGED <<aSearch, aPage, aPerPage, aLookup>>,
         aDialog' = aDialog \/ aDialog' = Addresses!NoDialog
  PROVE  AddressesIInv'
<1> DEFINE Change(i) == IF aRows[i].id = id THEN [changed[i] EXCEPT !.hit = hit] ELSE aRows[i]
           list == [i \in DOMAIN aRows |-> Change(i)]
<1>1. \A i \in DOMAIN aRows : aRows[i] \in RowRecords
  BY DEF AddressesIInv, SoundRows
<1>2. ASSUME NEW i \in DOMAIN aRows
      PROVE  /\ Change(i) \in RowRecords /\ Change(i).id = aRows[i].id
             /\ aRows[i].locked => Change(i).locked
             /\ Change(i).located \in {Addresses!NoPlace, Change(i).place}
  <2>1. CASE aRows[i].id = id
    <3>1. changed[i] \in RowRecords
      OBVIOUS
    <3> QED BY <2>1, <3>1 DEF RowRecords
  <2>2. CASE aRows[i].id # id
    BY <1>1, <2>2 DEF AddressesIInv, SoundRows
  <2> QED BY <2>1, <2>2
<1>3. Addresses!Commit(list, aHighest)
  OBVIOUS
<1> HIDE DEF Change
<1>4. SoundRows(list) /\ DOMAIN list = DOMAIN aRows
  <2>1. DOMAIN list = DOMAIN aRows /\ list = [i \in DOMAIN list |-> list[i]]
    OBVIOUS
  <2>2. \A i \in DOMAIN aRows : list[i] = Change(i)
    OBVIOUS
  <2> HIDE DEF list
  <2> QED BY <1>2, <2>1, <2>2, ChangedRows DEF AddressesIInv
<1>5. LookupIsOfRow'
  <2>1. aDialog'.kind # "optimizing"
    BY DEF Addresses!NoDialog
  <2> QED BY <2>1 DEF AddressesIInv, LookupIsOfRow
<1>6. aHighest \in Nat
  BY DEF AddressesIInv, MarkIsAbove
<1> HIDE DEF list
<1> QED BY <1>3, <1>4, <1>5, <1>6, UpdateKeeps

\* What other pages leave of the list.
LEMMA ShowPageKeeps ==
  ASSUME AddressesIInv, NEW p, Addresses!ShowPage(p),
         ~aSearch => p \in Nat \ {0} /\ p <= Addresses!Pages(Len(aRows))
  PROVE  AddressesIInv'
BY DEF AddressesIInv, Addresses!ShowPage, PageExists, Addresses!Pages, LookupIsOfRow

\* A row that is appended has an id of its own, and only one of the rows is open.
LEMMA AppendedRow ==
  ASSUME NEW list, SoundRows(list), NEW n \in Nat, n = Len(list), NEW new \in RowRecords,
         \A i \in 1..n : list[i].id # new.id /\ (list[i].locked \/ new.locked),
         new.locked \/ \A i \in 1..n : list[i].locked,
         new.located \in {Addresses!NoPlace, new.place}
  PROVE  SoundRows(Append(list, new)) /\ Len(Append(list, new)) = n + 1
<1> DEFINE longer == Append(list, new)
<1>1. list \in Seq(RowRecords) /\ DOMAIN list = 1..n
  BY DEF SoundRows
<1>2. /\ longer \in Seq(RowRecords) /\ Len(longer) = n + 1 /\ DOMAIN longer = 1..(n + 1)
      /\ \A i \in 1..n : longer[i] = list[i]
      /\ longer[n + 1] = new
  BY <1>1
<1> HIDE DEF longer
<1>3. \A i \in 1..(n + 1) : i \in 1..n \/ i = n + 1
  OBVIOUS
<1>4. \A i, j \in 1..(n + 1) : longer[i].id = longer[j].id => i = j
  BY <1>1, <1>2, <1>3 DEF SoundRows
<1>5. \A i, j \in 1..(n + 1) : ~longer[i].locked /\ ~longer[j].locked => i = j
  BY <1>1, <1>2, <1>3 DEF SoundRows
<1>6. \A i \in 1..(n + 1) : longer[i].located \in {Addresses!NoPlace, longer[i].place}
  BY <1>1, <1>2, <1>3 DEF SoundRows
<1>7. SoundRows(longer)
  BY <1>2, <1>4, <1>5, <1>6, Zenon DEF SoundRows
<1> QED BY <1>2, <1>7 DEF longer

\* A new text in the search box changes which rows are matches, and nothing else.
LEMMA RehitRows ==
  ASSUME SoundRows(aRows), NEW hitOf \in [DOMAIN aRows -> BOOLEAN]
  PROVE  LET list == [i \in DOMAIN aRows |-> [aRows[i] EXCEPT !.hit = hitOf[i]]]
         IN  SoundRows(list) /\ \A i \in DOMAIN aRows : list[i].id = aRows[i].id
<1> DEFINE list == [i \in DOMAIN aRows |-> [aRows[i] EXCEPT !.hit = hitOf[i]]]
<1>1. ASSUME NEW row \in RowRecords, NEW hit \in BOOLEAN
      PROVE  LET r == [row EXCEPT !.hit = hit]
             IN  /\ r \in RowRecords /\ r.id = row.id /\ r.locked = row.locked
                 /\ r.located = row.located /\ r.place = row.place
  BY DEF RowRecords
<1>2. /\ DOMAIN list = DOMAIN aRows /\ list = [i \in DOMAIN list |-> list[i]]
      /\ \A i \in DOMAIN aRows : list[i] = [aRows[i] EXCEPT !.hit = hitOf[i]]
  OBVIOUS
<1>3. \A i \in DOMAIN aRows : /\ aRows[i] \in RowRecords /\ hitOf[i] \in BOOLEAN
                              /\ aRows[i].located \in {Addresses!NoPlace, aRows[i].place}
  BY DEF SoundRows
<1> HIDE DEF list
<1>4. ASSUME NEW i \in DOMAIN aRows
      PROVE  /\ list[i] \in RowRecords /\ list[i].id = aRows[i].id
             /\ list[i].locked = aRows[i].locked
             /\ list[i].located \in {Addresses!NoPlace, list[i].place}
  <2>1. list[i] = [aRows[i] EXCEPT !.hit = hitOf[i]]
    BY <1>2
  <2>2. aRows[i] \in RowRecords /\ hitOf[i] \in BOOLEAN
    BY <1>3
  <2> QED BY <1>1, <1>3, <2>1, <2>2
<1>5. SoundRows(list)
  BY <1>2, <1>4, ChangedRows
<1> QED BY <1>4, <1>5 DEF list

\* The rows once the open one is locked.
LEMMA LockedRows ==
  ASSUME SoundRows(aRows)
  PROVE  /\ SoundRows(Addresses!LockOpen(aRows))
         /\ DOMAIN Addresses!LockOpen(aRows) = DOMAIN aRows
         /\ \A i \in DOMAIN aRows : /\ Addresses!LockOpen(aRows)[i].id = aRows[i].id
                                   /\ Addresses!LockOpen(aRows)[i].locked
<1> DEFINE list == Addresses!LockOpen(aRows)
<1>1. ASSUME NEW row \in RowRecords
      PROVE  LET r == [row EXCEPT !.locked = TRUE]
             IN  /\ r \in RowRecords /\ r.id = row.id /\ r.locked
                 /\ r.located = row.located /\ r.place = row.place
  BY DEF RowRecords
<1>2. /\ DOMAIN list = DOMAIN aRows /\ list = [i \in DOMAIN list |-> list[i]]
      /\ \A i \in DOMAIN aRows : list[i] = [aRows[i] EXCEPT !.locked = TRUE]
  BY DEF Addresses!LockOpen
<1>3. \A i \in DOMAIN aRows : /\ aRows[i] \in RowRecords
                              /\ aRows[i].located \in {Addresses!NoPlace, aRows[i].place}
  BY DEF SoundRows
<1> HIDE DEF list
<1>4. ASSUME NEW i \in DOMAIN aRows
      PROVE  /\ list[i] \in RowRecords /\ list[i].id = aRows[i].id /\ list[i].locked
             /\ list[i].located \in {Addresses!NoPlace, list[i].place}
  <2>1. list[i] = [aRows[i] EXCEPT !.locked = TRUE] /\ aRows[i] \in RowRecords
    BY <1>2, <1>3
  <2> QED BY <1>1, <1>3, <2>1
<1>5. SoundRows(list)
  BY <1>2, <1>4, ChangedRows
<1> QED BY <1>2, <1>4, <1>5 DEF list

LEMMA AddingKeeps ==
  ASSUME AddressesIInv, Addresses!AddAddress
  PROVE  AddressesIInv'
<1> DEFINE old == Addresses!LockOpen(aRows)
           new == Addresses!NewRow(Addresses!ReserveId)
           list == Append(old, new)
<1>1. PICK n \in Nat : n = Len(aRows) /\ DOMAIN aRows = 1..n
  BY DEF AddressesIInv, SoundRows
<1>2. aHighest \in Nat /\ \A i \in 1..n : aRows[i].id <= aHighest /\ aRows[i].id \in Nat
  <2>1. \A i \in 1..n : aRows[i] \in RowRecords
    BY <1>1 DEF AddressesIInv, SoundRows
  <2>2. \A i \in 1..n : aRows[i].id \in Nat
    BY <2>1 DEF RowRecords
  <2> QED BY <1>1, <2>2 DEF AddressesIInv, MarkIsAbove
<1>3. /\ Addresses!Commit(list, aHighest + 1) /\ Addresses!Usable
      /\ aPage' = Addresses!Pages(Len(aRows) + 1)
      /\ UNCHANGED <<aPerPage, aDialog, aLookup>>
  BY DEF Addresses!AddAddress, Addresses!ReserveId
<1>4. /\ SoundRows(old) /\ DOMAIN old = 1..n
      /\ \A i \in 1..n : old[i].id = aRows[i].id /\ old[i].locked
  BY <1>1, LockedRows DEF AddressesIInv
<1>5. new \in RowRecords /\ new.id = aHighest + 1 /\ new.located = Addresses!NoPlace
  BY <1>2
  DEF Addresses!NewRow, Addresses!ReserveId, Addresses!NoTime, RowRecords, PlacesOrNone
<1> HIDE DEF old, new
<1>6. Len(old) = n
  BY <1>4 DEF SoundRows
<1>7. \A i \in 1..n : old[i].id # new.id /\ old[i].locked
  BY <1>2, <1>4, <1>5
<1>8. SoundRows(list) /\ Len(list) = n + 1
  BY <1>4, <1>5, <1>6, <1>7, AppendedRow
<1> HIDE DEF list
<1>9. aRows' = list /\ MarkIsAbove(list, aHighest')
  BY <1>2, <1>3, <1>8, CommitRaisesMark
<1>10. PageExists'
  <2>1. Addresses!Pages(n + 1) \in Nat /\ Addresses!Pages(n + 1) >= 1
    BY <1>1, PagesAreNumbers DEF AddressesIInv
  <2>2. aPage' = Addresses!Pages(n + 1) /\ Len(aRows') = n + 1 /\ aPerPage' = aPerPage
    BY <1>1, <1>3, <1>8, <1>9
  <2>3. Addresses!Pages(Len(aRows))' = Addresses!Pages(n + 1)
    BY <2>2 DEF Addresses!Pages
  <2> HIDE DEF Addresses!Pages
  <2> QED BY <2>1, <2>2, <2>3 DEF PageExists
<1>11. LookupIsOfRow'
  BY <1>3 DEF AddressesIInv, LookupIsOfRow, Addresses!Usable, Addresses!NoDialog
<1> QED BY <1>3, <1>8, <1>9, <1>10, <1>11 DEF AddressesIInv

\* The list is replaced, by the rows of a file, a save point or a draft.
LEMMA ReplacedKeeps ==
  ASSUME AddressesIInv, Addresses!Usable, NEW list, SoundRows(list), NEW mark \in Nat,
         Addresses!Commit(list, mark), aPage' = 1, aPerPage' \in PageSizes,
         UNCHANGED <<aDialog, aLookup>>
  PROVE  AddressesIInv'
<1>1. aRows' = list /\ MarkIsAbove(list, aHighest')
  BY CommitRaisesMark
<1>2. PageExists'
  <2>1. aPerPage' \in Nat \ {0}
    BY AddressesAssumed DEF Addresses!AddressAssumption
  <2>2. Len(aRows') \in Nat
    BY <1>1 DEF SoundRows
  <2>3. (Len(aRows') + aPerPage' - 1) \div aPerPage' \in Int
    BY <2>1, <2>2
  <2>4. Addresses!Pages(Len(aRows))' >= 1 /\ Addresses!Pages(Len(aRows))' \in Nat
    BY <2>3, OfTwo DEF Addresses!Pages
  <2> QED BY <2>4 DEF PageExists
<1>3. LookupIsOfRow'
  BY DEF AddressesIInv, LookupIsOfRow, Addresses!Usable, Addresses!NoDialog
<1> QED BY <1>1, <1>2, <1>3 DEF AddressesIInv

\* Rows that keep their number and their ids stay on their pages and under the mark.
LEMMA SameIdsKeep ==
  ASSUME AddressesIInv, SoundRows(aRows'), DOMAIN aRows' = DOMAIN aRows,
         \A i \in DOMAIN aRows : aRows'[i].id = aRows[i].id,
         UNCHANGED <<aPerPage, aHighest>>, UNCHANGED <<aSearch, aPage>> \/ aPage' = 1,
         LookupIsOfRow'
  PROVE  AddressesIInv'
<1>1. PICK n \in Nat : DOMAIN aRows = 1..n /\ n = Len(aRows) /\ n = Len(aRows')
  BY DEF AddressesIInv, SoundRows
<1>2. Addresses!Pages(n) \in Nat /\ Addresses!Pages(n) >= 1
  BY <1>1, PagesAreNumbers DEF AddressesIInv
<1>3. Addresses!Pages(Len(aRows))' = Addresses!Pages(n)
  BY <1>1 DEF Addresses!Pages
<1>4. PageExists'
  <2> HIDE DEF Addresses!Pages
  <2> QED BY <1>1, <1>2, <1>3 DEF AddressesIInv, PageExists
<1>5. MarkIsAbove(aRows, aHighest)'
  BY DEF AddressesIInv, MarkIsAbove
<1> QED BY <1>4, <1>5 DEF AddressesIInv

LEMMA UnlockingKeeps ==
  ASSUME AddressesIInv, NEW id, Addresses!Unlock(id) \/ UNCHANGED aRows,
         aDialog.kind # "optimizing", aDialog'.kind # "optimizing",
         UNCHANGED <<aSearch, aPage, aPerPage, aHighest, aLookup>>
  PROVE  AddressesIInv'
<1>1. /\ SoundRows(aRows')
      /\ DOMAIN aRows' = DOMAIN aRows
      /\ \A i \in DOMAIN aRows : aRows'[i].id = aRows[i].id
  BY UnlockKeeps DEF AddressesIInv
<1>2. LookupIsOfRow'
  BY DEF AddressesIInv, LookupIsOfRow
<1> QED BY <1>1, <1>2, SameIdsKeep

LEMMA ConfirmingKeeps ==
  ASSUME AddressesIInv, NEW id, Addresses!ConfirmAddress(id)
  PROVE  AddressesIInv'
<1>1. /\ UNCHANGED <<aSearch, aPage, aPerPage, aHighest, aDialog, aLookup>>
      /\ aDialog.kind # "optimizing"
  BY DEF Addresses!ConfirmAddress, Addresses!Editable, Addresses!Usable, Addresses!NoDialog
<1>2. LookupIsOfRow'
  BY <1>1 DEF AddressesIInv, LookupIsOfRow
<1> DEFINE Change(i) == IF aRows[i].id = id THEN [aRows[i] EXCEPT !.locked = TRUE] ELSE aRows[i]
           list == [i \in DOMAIN aRows |-> Change(i)]
<1>3. aRows' = list \/ UNCHANGED aRows
  BY DEF Addresses!ConfirmAddress, Addresses!MapRow
<1>4. ASSUME NEW i \in DOMAIN aRows
      PROVE  /\ Change(i) \in RowRecords /\ Change(i).id = aRows[i].id
             /\ aRows[i].locked => Change(i).locked
             /\ Change(i).located \in {Addresses!NoPlace, Change(i).place}
  <2>1. /\ aRows[i] \in RowRecords
        /\ aRows[i].located \in {Addresses!NoPlace, aRows[i].place}
    BY DEF AddressesIInv, SoundRows
  <2> QED BY <2>1 DEF RowRecords
<1>5. /\ DOMAIN list = DOMAIN aRows /\ list = [i \in DOMAIN list |-> list[i]]
      /\ \A i \in DOMAIN aRows : list[i] = Change(i)
  OBVIOUS
<1> HIDE DEF Change, list
<1>6. SoundRows(list)
  BY <1>4, <1>5, ChangedRows DEF AddressesIInv
<1>7. \A i \in DOMAIN aRows : list[i].id = aRows[i].id
  BY <1>4, <1>5
<1>8. /\ SoundRows(aRows') /\ DOMAIN aRows' = DOMAIN aRows
      /\ \A i \in DOMAIN aRows : aRows'[i].id = aRows[i].id
  BY <1>3, <1>5, <1>6, <1>7 DEF AddressesIInv
<1> QED BY <1>1, <1>2, <1>8, SameIdsKeep

\* The location that arrives is that of the address the row has kept meanwhile.
LEMMA FindingKeeps ==
  ASSUME AddressesIInv, Addresses!LocationFound
  PROVE  AddressesIInv'
<1> DEFINE Change(i) == IF aRows[i].id = aLookup.id
                          THEN [aRows[i] EXCEPT !.located = aLookup.place] ELSE aRows[i]
           list == [i \in DOMAIN aRows |-> Change(i)]
<1>1. /\ aRows' = list \/ UNCHANGED aRows
      /\ UNCHANGED <<aSearch, aPage, aPerPage, aHighest>>
      /\ aDialog.kind = "optimizing"
      /\ aDialog' = Addresses!NoDialog /\ aLookup' = Addresses!NoLookup
  BY DEF Addresses!LocationFound, Addresses!MapRow
<1>2. LookupIsOfRow'
  BY <1>1 DEF LookupIsOfRow, Addresses!NoDialog, Addresses!NoLookup, PlacesOrNone
<1>3. ASSUME NEW i \in DOMAIN aRows
      PROVE  /\ Change(i) \in RowRecords /\ Change(i).id = aRows[i].id
             /\ aRows[i].locked => Change(i).locked
             /\ Change(i).located \in {Addresses!NoPlace, Change(i).place}
  <2>1. /\ aRows[i] \in RowRecords
        /\ aRows[i].located \in {Addresses!NoPlace, aRows[i].place}
    BY DEF AddressesIInv, SoundRows
  <2>2. CASE aRows[i].id = aLookup.id
    <3>1. aRows[i].place = aLookup.place /\ aLookup.place \in PlacesOrNone
      BY <1>1, <2>2 DEF AddressesIInv, LookupIsOfRow
    <3> QED BY <2>1, <2>2, <3>1 DEF RowRecords
  <2>3. CASE aRows[i].id # aLookup.id
    BY <2>1, <2>3
  <2> QED BY <2>2, <2>3
<1>4. /\ DOMAIN list = DOMAIN aRows /\ list = [i \in DOMAIN list |-> list[i]]
      /\ \A i \in DOMAIN aRows : list[i] = Change(i)
  OBVIOUS
<1> HIDE DEF Change, list
<1>5. SoundRows(list)
  BY <1>3, <1>4, ChangedRows DEF AddressesIInv
<1>6. \A i \in DOMAIN aRows : list[i].id = aRows[i].id
  BY <1>3, <1>4
<1>7. /\ SoundRows(aRows') /\ DOMAIN aRows' = DOMAIN aRows
      /\ \A i \in DOMAIN aRows : aRows'[i].id = aRows[i].id
  BY <1>1, <1>4, <1>5, <1>6 DEF AddressesIInv
<1> QED BY <1>1, <1>2, <1>7, SameIdsKeep

LEMMA SearchingKeeps ==
  ASSUME AddressesIInv, Addresses!SetSearchQuery
  PROVE  AddressesIInv'
<1>1. /\ Addresses!Usable /\ aPage' = 1
      /\ UNCHANGED <<aPerPage, aHighest, aDialog, aLookup>>
  BY DEF Addresses!SetSearchQuery
<1>2. PICK hits :
        aRows' = [i \in DOMAIN aRows |-> [aRows[i] EXCEPT !.hit = aRows[i].id \in hits]]
  BY Zenon DEF Addresses!SetSearchQuery
<1> DEFINE hitOf == [i \in DOMAIN aRows |-> aRows[i].id \in hits]
           list == [i \in DOMAIN aRows |-> [aRows[i] EXCEPT !.hit = hitOf[i]]]
<1>3. hitOf \in [DOMAIN aRows -> BOOLEAN]
  <2>1. \A i \in DOMAIN aRows : (aRows[i].id \in hits) \in BOOLEAN
    OBVIOUS
  <2> QED BY <2>1, Zenon
<1>4. aRows' = list
  <2>1. \A i \in DOMAIN aRows : hitOf[i] = (aRows[i].id \in hits)
    BY Zenon
  <2> HIDE DEF hitOf
  <2>2. \A i \in DOMAIN aRows :
          [aRows[i] EXCEPT !.hit = hitOf[i]] = [aRows[i] EXCEPT !.hit = aRows[i].id \in hits]
    BY <2>1, Zenon
  <2> QED BY <1>2, <2>2, Zenon
<1>5. SoundRows(list) /\ \A i \in DOMAIN aRows : list[i].id = aRows[i].id
  <2> HIDE DEF hitOf
  <2> QED BY <1>3, RehitRows DEF AddressesIInv
<1>6. DOMAIN list = DOMAIN aRows
  OBVIOUS
<1> HIDE DEF list
<1>7. LookupIsOfRow'
  BY <1>1 DEF AddressesIInv, LookupIsOfRow, Addresses!Usable, Addresses!NoDialog
<1> QED BY <1>1, <1>4, <1>5, <1>6, <1>7, SameIdsKeep

LEMMA DeletingKeeps ==
  ASSUME AddressesIInv, Addresses!DeleteAddress
  PROVE  AddressesIInv'
<1> DEFINE next == Addresses!EntriesAt(aRows, {i \in DOMAIN aRows : aRows[i].id # aDialog.id})
<1>1. /\ Addresses!Commit(next, aHighest) /\ aPage' = Addresses!ClampPage(Len(next))
      /\ aDialog.kind = "delete" /\ aDialog' = Addresses!NoDialog
      /\ UNCHANGED <<aSearch, aPerPage, aLookup>>
  BY DEF Addresses!DeleteAddress
<1>2. PICK n \in Nat : DOMAIN aRows = 1..n
  BY DEF AddressesIInv, SoundRows
<1>3. SoundRows(next) /\ Len(next) \in Nat
  BY <1>2, FewerRows DEF AddressesIInv
<1> HIDE DEF next
<1>4. aRows' = next /\ MarkIsAbove(next, aHighest')
  BY <1>1, <1>3, CommitRaisesMark DEF AddressesIInv, MarkIsAbove
<1>5. PageExists'
  <2>1. Addresses!Pages(Len(next)) \in Nat /\ Addresses!Pages(Len(next)) >= 1
    BY <1>3, PagesAreNumbers DEF AddressesIInv
  <2>2. Addresses!Pages(Len(aRows))' = Addresses!Pages(Len(next))
    BY <1>1, <1>4 DEF Addresses!Pages
  <2> HIDE DEF Addresses!Pages
  <2>3. ~aSearch => aPage \in Nat \ {0}
    BY DEF AddressesIInv, PageExists
  <2>4. aPage \in Nat \ {0} =>
          aPage' = IF aPage <= Addresses!Pages(Len(next)) THEN aPage
                                                          ELSE Addresses!Pages(Len(next))
    <3> DEFINE pages == Addresses!Pages(Len(next))
    <3>1. pages \in Int
      BY <2>1
    <3>2. aPage' = Addresses!Min({aPage, pages})
      BY <1>1 DEF Addresses!ClampPage
    <3> HIDE DEF pages
    <3>3. aPage \in Int =>
            Addresses!Min({aPage, pages}) = IF aPage <= pages THEN aPage ELSE pages
      BY <3>1, OfTwo, Zenon
    <3>4. aPage \in Nat \ {0} => aPage \in Int
      OBVIOUS
    <3> QED BY <3>2, <3>3, <3>4 DEF pages
  <2> QED BY <1>1, <2>1, <2>2, <2>3, <2>4 DEF PageExists
<1>6. LookupIsOfRow'
  BY <1>1 DEF AddressesIInv, LookupIsOfRow, Addresses!NoDialog
<1> QED BY <1>1, <1>3, <1>4, <1>5, <1>6 DEF AddressesIInv

\* The arrows and the numbers lead to pages that exist.
LEMMA TurningKeeps ==
  ASSUME AddressesIInv, Addresses!Turn \/ Addresses!PickPage
  PROVE  AddressesIInv'
<1> DEFINE total == Addresses!Pages(Len(aRows))
<1>1. total \in Nat /\ total >= 1
  BY PagesAreNumbers DEF AddressesIInv, SoundRows
<1>2. ~aSearch => /\ Addresses!TotalPages = total
                  /\ aPage \in Nat \ {0} /\ aPage <= total
  BY DEF AddressesIInv, PageExists, Addresses!TotalPages, Addresses!Filtered
<1> HIDE DEF total
<1>3. CASE Addresses!Turn
  <2>1. PICK p : /\ Addresses!ShowPage(p)
                 /\ \/ aPage > 1 /\ p \in {1, aPage - 1}
                    \/ aPage < Addresses!TotalPages /\ p \in {Addresses!TotalPages, aPage + 1}
    BY <1>3 DEF Addresses!Turn
  <2>2. ~aSearch => p \in Nat \ {0} /\ p <= total
    BY <1>1, <1>2, <2>1
  <2> QED BY <2>1, <2>2, ShowPageKeeps DEF total
<1>4. CASE Addresses!PickPage
  <2>1. PICK p \in Addresses!VisiblePages : Addresses!ShowPage(p)
    BY <1>4 DEF Addresses!PickPage
  <2>2. ASSUME ~aSearch PROVE p \in Nat \ {0} /\ p <= total
    <3> DEFINE count == Addresses!Min({total, 5})
               last == Addresses!Min({aPage - 2, total - count + 1})
               first == Addresses!Max({1, last})
    <3>1. count \in Int /\ 1 <= count /\ count <= total
      <4>1. total \in Int /\ 5 \in Int
        BY <1>1
      <4>2. count = IF total <= 5 THEN total ELSE 5
        BY <4>1, OfTwo, Zenon
      <4> HIDE DEF count
      <4> QED BY <1>1, <4>2
    <3>2. p \in first .. first + count - 1
      BY <1>2, <2>1, <2>2 DEF Addresses!VisiblePages
    <3> HIDE DEF count
    <3>3. last \in Int /\ last <= total - count + 1
      <4>1. aPage - 2 \in Int /\ total - count + 1 \in Int
        BY <1>1, <1>2, <2>2, <3>1
      <4>2. last = IF aPage - 2 <= total - count + 1 THEN aPage - 2 ELSE total - count + 1
        BY <4>1, OfTwo, Zenon
      <4> HIDE DEF last
      <4> QED BY <4>1, <4>2
    <3> HIDE DEF last
    <3>4. first \in Int /\ 1 <= first /\ first <= total - count + 1
      BY <1>1, <3>1, <3>3, OfTwo
    <3> HIDE DEF first
    <3> QED BY <1>1, <3>1, <3>2, <3>4
  <2> QED BY <2>1, <2>2, ShowPageKeeps DEF total
<1> QED BY <1>3, <1>4

\* What a row of a file holds.
LEMMA FileRowFacts ==
  ASSUME NEW id \in Nat, NEW place \in PlacesOrNone, NEW quantity \in Nat
  PROVE  LET row == Addresses!FileRow(id, place, quantity)
         IN  /\ row \in RowRecords /\ row.id = id /\ row.locked /\ row.place = place
             /\ row.located = Addresses!NoPlace
<1> DEFINE new == Addresses!NewRow(id)
<1>1. new \in RowRecords /\ new.id = id /\ new.located = Addresses!NoPlace
  BY DEF Addresses!NewRow, Addresses!NoTime, RowRecords, PlacesOrNone
<1>2. Addresses!FileRow(id, place, quantity)
        = [new EXCEPT !.locked = TRUE, !.place = place, !.quantity = quantity]
  BY DEF Addresses!FileRow
<1>3. ASSUME NEW row \in RowRecords
      PROVE  LET r == [row EXCEPT !.locked = TRUE, !.place = place, !.quantity = quantity]
             IN  /\ r \in RowRecords /\ r.id = row.id /\ r.locked /\ r.place = place
                 /\ r.located = row.located
  <2>1. quantity \in Int
    OBVIOUS
  <2> QED BY <2>1 DEF RowRecords
<1> HIDE DEF new
<1> QED BY <1>1, <1>2, <1>3, Zenon

\* The list of a file, a save point or a draft replaces the one of the page.
LEMMA ImportingKeeps ==
  ASSUME AddressesIInv, Addresses!ImportTable \/ Addresses!ImportSavePoint \/ Addresses!Remount
  PROVE  AddressesIInv'
<1>1. PICK n \in Nat : n = Len(aRows) /\ DOMAIN aRows = 1..n
  BY DEF AddressesIInv, SoundRows
<1> DEFINE blank == [i \in DOMAIN aRows |-> [aRows[i] EXCEPT !.hit = FALSE]]
<1>2. SoundRows(blank) /\ Len(blank) = n /\ \A i \in DOMAIN aRows : blank[i].id = aRows[i].id
  <2> DEFINE hitOf == [i \in DOMAIN aRows |-> FALSE]
             list == [i \in DOMAIN aRows |-> [aRows[i] EXCEPT !.hit = hitOf[i]]]
  <2>1. hitOf \in [DOMAIN aRows -> BOOLEAN]
    OBVIOUS
  <2>2. blank = list
    OBVIOUS
  <2>3. SoundRows(list) /\ \A i \in DOMAIN aRows : list[i].id = aRows[i].id
    <3> HIDE DEF hitOf
    <3> QED BY <2>1, RehitRows DEF AddressesIInv
  <2>4. Len(blank) = n
    BY <1>1
  <2> HIDE DEF blank, list
  <2> QED BY <2>2, <2>3, <2>4
<1> HIDE DEF blank
<1>3. CASE Addresses!ImportTable
  <2>1. PICK place \in Places \cup {Addresses!NoPlace}, quantity \in {0, 1} :
          Addresses!Import(
            Append(blank, Addresses!FileRow(Addresses!ReserveId, place, quantity)),
            Addresses!ReserveId)
    BY <1>3 DEF Addresses!ImportTable, blank
  <2> DEFINE new == Addresses!FileRow(Addresses!ReserveId, place, quantity)
             list == Append(blank, new)
  <2>2. aHighest \in Nat /\ \A i \in 1..n : aRows[i].id <= aHighest
    BY <1>1 DEF AddressesIInv, MarkIsAbove
  <2>3. /\ new \in RowRecords /\ new.id = aHighest + 1 /\ new.locked
        /\ new.located = Addresses!NoPlace
    <3>1. aHighest + 1 \in Nat /\ quantity \in Nat /\ place \in PlacesOrNone
      BY <2>2 DEF PlacesOrNone
    <3> QED BY <3>1, FileRowFacts DEF Addresses!ReserveId
  <2> HIDE DEF new
  <2>4. \A i \in 1..n : blank[i].id # new.id
    <3>1. \A i \in 1..n : aRows[i].id \in Int
      <4>1. \A i \in 1..n : aRows[i] \in RowRecords
        BY <1>1 DEF AddressesIInv, SoundRows
      <4> QED BY <4>1 DEF RowRecords
    <3> QED BY <1>1, <1>2, <2>2, <2>3, <3>1
  <2>5. SoundRows(list)
    BY <1>2, <2>3, <2>4, AppendedRow
  <2>6. /\ Addresses!Commit(list, aHighest + 1) /\ Addresses!Usable
        /\ aPage' = 1 /\ UNCHANGED <<aPerPage, aDialog, aLookup>>
    BY <1>3, <2>1 DEF Addresses!Import, Addresses!ReserveId, Addresses!ImportTable, new
  <2> HIDE DEF list
  <2>7. aHighest + 1 \in Nat /\ aPerPage' \in PageSizes
    BY <2>2, <2>6 DEF AddressesIInv
  <2> QED BY <2>5, <2>6, <2>7, ReplacedKeeps
<1>4. CASE Addresses!ImportSavePoint
  <2>1. PICK id \in 1..MaxId, place \in Places :
          Addresses!Import(<<[Addresses!FileRow(id, place, 1) EXCEPT !.located = place]>>, 0)
    BY <1>4 DEF Addresses!ImportSavePoint
  <2> DEFINE new == [Addresses!FileRow(id, place, 1) EXCEPT !.located = place]
             list == <<new>>
  <2>2. new \in RowRecords /\ new.located = new.place
    <3>1. id \in Nat
      BY AddressesAssumed DEF Addresses!AddressAssumption
    <3>2. place \in PlacesOrNone /\ 1 \in Nat
      BY DEF PlacesOrNone
    <3> DEFINE row == Addresses!FileRow(id, place, 1)
    <3>3. row \in RowRecords /\ row.place = place
      BY <3>1, <3>2, FileRowFacts
    <3> HIDE DEF row
    <3>4. [row EXCEPT !.located = place] \in RowRecords
      BY <3>2, <3>3 DEF RowRecords
    <3>5. LET r == [row EXCEPT !.located = place] IN r.located = r.place
      BY <3>3 DEF RowRecords
    <3> QED BY <3>4, <3>5 DEF row
  <2>3. /\ Addresses!Commit(list, 0) /\ Addresses!Usable
        /\ aPage' = 1 /\ UNCHANGED <<aPerPage, aDialog, aLookup>>
    BY <1>4, <2>1 DEF Addresses!Import, Addresses!ImportSavePoint
  <2> HIDE DEF new
  <2>4. SoundRows(list)
    BY <2>2 DEF SoundRows
  <2> HIDE DEF list
  <2> QED BY <2>3, <2>4, ReplacedKeeps DEF AddressesIInv
<1>5. CASE Addresses!Remount
  <2>1. /\ Addresses!Commit(blank, 0) /\ Addresses!Usable
        /\ aPage' = 1 /\ aPerPage' = DefaultSize /\ UNCHANGED <<aDialog, aLookup>>
    BY <1>5 DEF Addresses!Remount, blank
  <2>2. DefaultSize \in PageSizes
    BY AddressesAssumed DEF Addresses!AddressAssumption
  <2> QED BY <1>2, <2>1, <2>2, ReplacedKeeps
<1> QED BY <1>3, <1>4, <1>5

\* The stepper offers numbers.
LEMMA StepsAreNumbers ==
  ASSUME NEW q \in Int, MaxQuantity \in Int
  PROVE  Addresses!Decremented(q) \in Int /\ Addresses!Incremented(q) \in Int
<1> DEFINE less == (IF q = 0 THEN 1 ELSE q) - 1
<1>1. less \in Int /\ q + 1 \in Int /\ 1 \in Int
  OBVIOUS
<1> HIDE DEF less
<1>2. /\ Addresses!Max({1, less}) = IF 1 >= less THEN 1 ELSE less
      /\ Addresses!Min({MaxQuantity, q + 1})
           = IF MaxQuantity <= q + 1 THEN MaxQuantity ELSE q + 1
  BY <1>1, OfTwo, Zenon
<1>3. /\ Addresses!Decremented(q) = Addresses!Max({1, less})
      /\ Addresses!Incremented(q) = Addresses!Min({MaxQuantity, q + 1})
  BY Zenon DEF Addresses!Decremented, Addresses!Incremented, less
<1> QED BY <1>1, <1>2, <1>3

\* What a page shows are rows of the list.
LEMMA ShownIsRow ==
  ASSUME SoundRows(aRows), NEW id \in Addresses!OnPage
  PROVE  \E i \in DOMAIN aRows : aRows[i].id = id
<1>1. PICK k \in DOMAIN Addresses!Filtered : id = Addresses!Filtered[k].id
  BY DEF Addresses!OnPage
<1>2. PICK n \in Nat : DOMAIN aRows = 1..n
  BY DEF SoundRows
<1> DEFINE places == {i \in DOMAIN aRows : aRows[i].hit}
<1>3. \E i \in DOMAIN aRows : Addresses!Filtered[k] = aRows[i]
  <2>1. CASE aSearch
    <3>1. Addresses!Filtered = Addresses!EntriesAt(aRows, places)
      BY <2>1 DEF Addresses!Filtered
    <3>2. places \in SUBSET (1..n) /\ \A i \in places : i \in DOMAIN aRows
      BY <1>2
    <3> HIDE DEF places
    <3>3. Addresses!EntriesAt(aRows, places) = EntriesAt(aRows, places)
      BY AddressesAreLeft
    <3>4. DOMAIN EntriesAt(aRows, places) = 1..Cardinality(places)
      BY DEF EntriesAt
    <3>5. \E i \in places : EntriesAt(aRows, places)[k] = aRows[i]
      <4>1. n \in Nat /\ places \in SUBSET (1..n) /\ k \in 1..Cardinality(places)
        BY <1>1, <1>2, <3>1, <3>2, <3>3, <3>4
      <4>2. \A l \in 1..Cardinality(places) : \E i \in places :
              EntriesAt(aRows, places)[l] = aRows[i] /\ Rank(i, places) = l
        BY <4>1, EntriesAtRanks, Zenon
      <4> QED BY <4>1, <4>2
    <3> QED BY <3>1, <3>2, <3>3, <3>5
  <2>2. CASE ~aSearch
    BY <1>1, <2>2 DEF Addresses!Filtered
  <2> QED BY <2>1, <2>2
<1> QED BY <1>1, <1>3

\* A field of one row changes, with the number a control offers.
LEMMA EditingKeeps ==
  ASSUME AddressesIInv,
         \/ Addresses!SaveOverlay
         \/ \E id : Addresses!SetQuantity(id) \/ Addresses!SetStart(id) \/ Addresses!SetEnd(id)
  PROVE  AddressesIInv'
<1>1. \A i \in DOMAIN aRows : /\ aRows[i] \in RowRecords
                              /\ aRows[i].located \in {Addresses!NoPlace, aRows[i].place}
  BY DEF AddressesIInv, SoundRows
<1>2. LastTime \in Nat /\ MaxQuantity \in Nat \ {0}
  BY AddressesAssumed DEF Addresses!AddressAssumption
<1>3. CASE Addresses!SaveOverlay
  <2>1. PICK place \in Places : \E hit \in IF aSearch THEN BOOLEAN ELSE {FALSE} :
          Addresses!Commit([i \in DOMAIN aRows |-> IF aRows[i].id = aDialog.id
            THEN [Addresses!WithPlace(aRows[i], place) EXCEPT !.hit = hit] ELSE aRows[i]],
            aHighest)
    BY <1>3 DEF Addresses!SaveOverlay, Addresses!Update, Addresses!MapRow
  <2>2. /\ UNCHANGED <<aSearch, aPage, aPerPage, aLookup>>
        /\ aDialog.kind = "address" /\ aDialog' = Addresses!NoDialog
    BY <1>3 DEF Addresses!SaveOverlay, Addresses!Update
  <2> DEFINE changed == [i \in DOMAIN aRows |-> Addresses!WithPlace(aRows[i], place)]
  <2>3. ASSUME NEW i \in DOMAIN aRows
        PROVE  LET r == Addresses!WithPlace(aRows[i], place)
               IN  /\ r \in RowRecords /\ r.id = aRows[i].id /\ r.locked = aRows[i].locked
                   /\ r.located \in {Addresses!NoPlace, r.place}
    BY <1>1 DEF Addresses!WithPlace, RowRecords, PlacesOrNone
  <2>4. PICK hit \in BOOLEAN :
          Addresses!Commit([i \in DOMAIN aRows |-> IF aRows[i].id = aDialog.id
            THEN [changed[i] EXCEPT !.hit = hit] ELSE aRows[i]], aHighest)
    BY <2>1
  <2>5. changed \in [DOMAIN aRows -> RowRecords]
    BY <2>3
  <2>6. \A i \in DOMAIN aRows : /\ changed[i].id = aRows[i].id
                                /\ aRows[i].locked => changed[i].locked
                                /\ changed[i].located \in {Addresses!NoPlace, changed[i].place}
    BY <2>3
  <2> HIDE DEF changed
  <2> QED BY <2>2, <2>4, <2>5, <2>6, FieldKeeps
<1>4. ASSUME NEW id, Addresses!SetQuantity(id)
      PROVE  AddressesIInv'
  <2>1. PICK q : \E hit \in IF aSearch THEN BOOLEAN ELSE {FALSE} :
          /\ q \in {Addresses!Decremented(Addresses!Row(id).quantity),
                    Addresses!Incremented(Addresses!Row(id).quantity)} \cup 1..MaxQuantity
          /\ Addresses!Commit([i \in DOMAIN aRows |-> IF aRows[i].id = id
               THEN [[aRows[i] EXCEPT !.quantity = q] EXCEPT !.hit = hit] ELSE aRows[i]],
               aHighest)
    BY <1>4 DEF Addresses!SetQuantity, Addresses!Update, Addresses!MapRow
  <2>2. /\ UNCHANGED <<aSearch, aPage, aPerPage, aLookup>>
        /\ aDialog.kind # "optimizing" /\ aDialog' = aDialog
    BY <1>4 DEF Addresses!SetQuantity, Addresses!Update, Addresses!Editable,
                Addresses!Usable, Addresses!NoDialog
  <2>3. q \in Int
    <3>1. PICK i \in DOMAIN aRows : aRows[i].id = id /\ Addresses!Row(id) = aRows[i]
      <4>1. id \in Addresses!OnPage
        BY <1>4 DEF Addresses!SetQuantity, Addresses!Editable
      <4>2. \E i \in DOMAIN aRows : aRows[i].id = id
        BY <4>1, ShownIsRow DEF AddressesIInv
      <4> QED BY <4>2 DEF Addresses!Row
    <3>2. Addresses!Row(id).quantity \in Int
      BY <1>1, <3>1 DEF RowRecords
    <3>3. /\ Addresses!Decremented(Addresses!Row(id).quantity) \in Int
          /\ Addresses!Incremented(Addresses!Row(id).quantity) \in Int
      BY <1>2, <3>2, StepsAreNumbers
    <3>4. q \in {Addresses!Decremented(Addresses!Row(id).quantity),
                 Addresses!Incremented(Addresses!Row(id).quantity)} \cup 1..MaxQuantity
      BY <2>1
    <3>5. \A x \in 1..MaxQuantity : x \in Int
      BY <1>2
    <3> QED BY <3>3, <3>4, <3>5, Zenon
  <2> DEFINE changed == [i \in DOMAIN aRows |-> [aRows[i] EXCEPT !.quantity = q]]
  <2>4. ASSUME NEW i \in DOMAIN aRows
        PROVE  LET r == [aRows[i] EXCEPT !.quantity = q]
               IN  /\ r \in RowRecords /\ r.id = aRows[i].id /\ r.locked = aRows[i].locked
                   /\ r.located \in {Addresses!NoPlace, r.place}
    BY <1>1, <2>3 DEF RowRecords
  <2>5. PICK hit \in BOOLEAN :
          Addresses!Commit([i \in DOMAIN aRows |-> IF aRows[i].id = id
            THEN [changed[i] EXCEPT !.hit = hit] ELSE aRows[i]], aHighest)
    BY <2>1
  <2>6. changed \in [DOMAIN aRows -> RowRecords]
    BY <2>4
  <2>7. \A i \in DOMAIN aRows : /\ changed[i].id = aRows[i].id
                                /\ aRows[i].locked => changed[i].locked
                                /\ changed[i].located \in {Addresses!NoPlace, changed[i].place}
    BY <2>4
  <2> HIDE DEF changed
  <2> QED BY <2>2, <2>5, <2>6, <2>7, FieldKeeps
<1>5. ASSUME NEW id, Addresses!SetStart(id)
      PROVE  AddressesIInv'
  <2>1. PICK t : \E hit \in IF aSearch THEN BOOLEAN ELSE {FALSE} :
          /\ t \in {Addresses!NoTime} \cup 1..LastTime
          /\ Addresses!Commit([i \in DOMAIN aRows |-> IF aRows[i].id = id
               THEN [Addresses!WithStart(aRows[i], t) EXCEPT !.hit = hit] ELSE aRows[i]],
               aHighest)
    BY <1>5 DEF Addresses!SetStart, Addresses!Update, Addresses!MapRow, Addresses!StartOptions
  <2>2. /\ UNCHANGED <<aSearch, aPage, aPerPage, aLookup>>
        /\ aDialog.kind # "optimizing" /\ aDialog' = aDialog
    BY <1>5 DEF Addresses!SetStart, Addresses!Update, Addresses!Editable,
                Addresses!Usable, Addresses!NoDialog
  <2> DEFINE changed == [i \in DOMAIN aRows |-> Addresses!WithStart(aRows[i], t)]
  <2>3. ASSUME NEW i \in DOMAIN aRows
        PROVE  LET r == Addresses!WithStart(aRows[i], t)
               IN  /\ r \in RowRecords /\ r.id = aRows[i].id /\ r.locked = aRows[i].locked
                   /\ r.located \in {Addresses!NoPlace, r.place}
    <3>1. t \in Int /\ Addresses!NoTime \in Int
      BY <1>2, <2>1 DEF Addresses!NoTime
    <3> QED BY <1>1, <3>1 DEF Addresses!WithStart, RowRecords
  <2>4. PICK hit \in BOOLEAN :
          Addresses!Commit([i \in DOMAIN aRows |-> IF aRows[i].id = id
            THEN [changed[i] EXCEPT !.hit = hit] ELSE aRows[i]], aHighest)
    BY <2>1
  <2>5. changed \in [DOMAIN aRows -> RowRecords]
    BY <2>3
  <2>6. \A i \in DOMAIN aRows : /\ changed[i].id = aRows[i].id
                                /\ aRows[i].locked => changed[i].locked
                                /\ changed[i].located \in {Addresses!NoPlace, changed[i].place}
    BY <2>3
  <2> HIDE DEF changed
  <2> QED BY <2>2, <2>4, <2>5, <2>6, FieldKeeps
<1>6. ASSUME NEW id, Addresses!SetEnd(id)
      PROVE  AddressesIInv'
  <2>1. PICK t : \E hit \in IF aSearch THEN BOOLEAN ELSE {FALSE} :
          /\ t \in {Addresses!NoTime} \cup 1..LastTime
          /\ Addresses!Commit([i \in DOMAIN aRows |-> IF aRows[i].id = id
               THEN [Addresses!WithEnd(aRows[i], t) EXCEPT !.hit = hit] ELSE aRows[i]],
               aHighest)
    BY <1>6 DEF Addresses!SetEnd, Addresses!Update, Addresses!MapRow, Addresses!EndOptions
  <2>2. /\ UNCHANGED <<aSearch, aPage, aPerPage, aLookup>>
        /\ aDialog.kind # "optimizing" /\ aDialog' = aDialog
    BY <1>6 DEF Addresses!SetEnd, Addresses!Update, Addresses!Editable,
                Addresses!Usable, Addresses!NoDialog
  <2> DEFINE changed == [i \in DOMAIN aRows |-> Addresses!WithEnd(aRows[i], t)]
  <2>3. ASSUME NEW i \in DOMAIN aRows
        PROVE  LET r == Addresses!WithEnd(aRows[i], t)
               IN  /\ r \in RowRecords /\ r.id = aRows[i].id /\ r.locked = aRows[i].locked
                   /\ r.located \in {Addresses!NoPlace, r.place}
    <3>1. t \in Int /\ Addresses!NoTime \in Int
      BY <1>2, <2>1 DEF Addresses!NoTime
    <3> QED BY <1>1, <3>1 DEF Addresses!WithEnd, RowRecords
  <2>4. PICK hit \in BOOLEAN :
          Addresses!Commit([i \in DOMAIN aRows |-> IF aRows[i].id = id
            THEN [changed[i] EXCEPT !.hit = hit] ELSE aRows[i]], aHighest)
    BY <2>1
  <2>5. changed \in [DOMAIN aRows -> RowRecords]
    BY <2>3
  <2>6. \A i \in DOMAIN aRows : /\ changed[i].id = aRows[i].id
                                /\ aRows[i].locked => changed[i].locked
                                /\ changed[i].located \in {Addresses!NoPlace, changed[i].place}
    BY <2>3
  <2> HIDE DEF changed
  <2> QED BY <2>2, <2>4, <2>5, <2>6, FieldKeeps
<1> QED BY <1>3, <1>4, <1>5, <1>6

LEMMA AddressesStepKeeps ==
  ASSUME AddressesIInv, [Addresses!Next]_Addresses!addressVars
  PROVE  AddressesIInv'
<1>1. CASE Addresses!AddAddress
  BY <1>1, AddingKeeps
<1>2. CASE Addresses!SaveOverlay
  BY <1>2, EditingKeeps
<1>3. CASE Addresses!CloseOverlay \/ Addresses!CancelDelete
  BY <1>3, UnlockingKeeps
  DEF Addresses!CloseOverlay, Addresses!CancelDelete, Addresses!NoDialog
<1>4. CASE Addresses!DeleteAddress
  BY <1>4, DeletingKeeps
<1>5. CASE Addresses!Turn \/ Addresses!PickPage
  BY <1>5, TurningKeeps
<1>6. CASE Addresses!SetPerPage
  <2>1. /\ Addresses!Usable /\ aPage' = 1 /\ aPerPage' \in PageSizes
        /\ UNCHANGED <<aRows, aHighest, aDialog, aLookup>>
    BY <1>6 DEF Addresses!SetPerPage
  <2>2. PageExists'
    <3>1. aPerPage' \in Nat \ {0} /\ Len(aRows) \in Nat
      BY <2>1, AddressesAssumed DEF Addresses!AddressAssumption, AddressesIInv, SoundRows
    <3>2. (Len(aRows) + aPerPage' - 1) \div aPerPage' \in Int
      BY <3>1
    <3>3. Addresses!Pages(Len(aRows))' >= 1 /\ Addresses!Pages(Len(aRows))' \in Nat
      BY <2>1, <3>2, OfTwo DEF Addresses!Pages
    <3> HIDE DEF Addresses!Pages
    <3> QED BY <2>1, <3>3 DEF PageExists
  <2> QED BY <2>1, <2>2 DEF AddressesIInv, LookupIsOfRow
<1>7. CASE Addresses!SetSearchQuery
  BY <1>7, SearchingKeeps
<1>8. CASE Addresses!ImportTable \/ Addresses!ImportSavePoint \/ Addresses!Remount
  BY <1>8, ImportingKeeps
<1>9. CASE Addresses!LocationFound
  BY <1>9, FindingKeeps
<1>10. ASSUME NEW id,
              Addresses!SetQuantity(id) \/ Addresses!SetStart(id) \/ Addresses!SetEnd(id)
       PROVE  AddressesIInv'
  BY <1>10, EditingKeeps
<1>11. ASSUME NEW id,
              \/ Addresses!UnlockAddress(id) \/ Addresses!OpenOverlay(id)
              \/ Addresses!RequestDelete(id)
       PROVE  AddressesIInv'
  BY <1>11, UnlockingKeeps
  DEF Addresses!UnlockAddress, Addresses!OpenOverlay, Addresses!RequestDelete,
      Addresses!Usable, Addresses!NoDialog
<1>12. ASSUME NEW id, Addresses!ConfirmAddress(id)
       PROVE  AddressesIInv'
  BY <1>12, ConfirmingKeeps
<1>13. ASSUME NEW id, Addresses!Locate(id)
       PROVE  AddressesIInv'
  <2>1. /\ id \in Addresses!Ids
        /\ aLookup' = [id |-> id, place |-> Addresses!Row(id).place]
        /\ UNCHANGED <<aRows, aSearch, aPage, aPerPage, aHighest>>
    BY <1>13 DEF Addresses!Locate
  <2>2. PICK i \in DOMAIN aRows : aRows[i].id = id /\ Addresses!Row(id) = aRows[i]
    <3>1. \E i \in DOMAIN aRows : aRows[i].id = id
      BY <2>1 DEF Addresses!Ids
    <3> QED BY <3>1 DEF Addresses!Row
  <2>3. aLookup'.id = id /\ aLookup'.place = aRows[i].place
    BY <2>1, <2>2
  <2>4. aRows[i].place \in PlacesOrNone
    <3>1. aRows[i] \in RowRecords
      BY DEF AddressesIInv, SoundRows
    <3> QED BY <3>1 DEF RowRecords
  <2>5. \A j \in DOMAIN aRows : aRows[j].id = id => j = i
    BY <2>2 DEF AddressesIInv, SoundRows
  <2> QED
    BY <2>1, <2>3, <2>4, <2>5 DEF AddressesIInv, LookupIsOfRow, PageExists, Addresses!Pages
<1>14. CASE UNCHANGED Addresses!addressVars
  BY <1>14
  DEF Addresses!addressVars, AddressesIInv, LookupIsOfRow, PageExists, Addresses!Pages
<1> QED
  BY <1>1, <1>2, <1>3, <1>4, <1>5, <1>6, <1>7, <1>8, <1>9, <1>10, <1>11, <1>12, <1>13,
     <1>14
  DEF Addresses!Next

LEMMA AddressesInvariance == Addresses!Spec => []AddressesIInv
<1>1. Addresses!Init => AddressesIInv
  <2> SUFFICES ASSUME Addresses!Init PROVE AddressesIInv
    OBVIOUS
  <2>1. /\ aRows = <<>> /\ aSearch = FALSE /\ aPage = 1 /\ aPerPage = DefaultSize
        /\ aHighest = 0 /\ aDialog = Addresses!NoDialog /\ aLookup = Addresses!NoLookup
    BY DEF Addresses!Init
  <2>2. DefaultSize \in PageSizes
    BY AddressesAssumed DEF Addresses!AddressAssumption
  <2>3. SoundRows(aRows) /\ MarkIsAbove(aRows, aHighest)
    BY <2>1 DEF SoundRows, MarkIsAbove
  <2>4. Len(aRows) \in Nat /\ aPerPage \in PageSizes
    BY <2>1, <2>2
  <2>5. Addresses!Pages(Len(aRows)) >= 1 /\ Addresses!Pages(Len(aRows)) \in Nat
    BY <2>4, PagesAreNumbers
  <2>6. LookupIsOfRow
    BY <2>1 DEF LookupIsOfRow, Addresses!NoDialog, Addresses!NoLookup, PlacesOrNone
  <2> QED BY <2>1, <2>3, <2>4, <2>5, <2>6 DEF AddressesIInv, PageExists
<1>2. AddressesIInv /\ [Addresses!Next]_Addresses!addressVars => AddressesIInv'
  BY AddressesStepKeeps
<1> QED
  BY <1>1, <1>2, PTL DEF Addresses!Spec

\* The invariant implies what the handlers rely on.
LEMMA SoundRowsAreSound == AddressesIInv => Addresses!AddressesAreSound
<1> SUFFICES ASSUME AddressesIInv PROVE Addresses!AddressesAreSound
  OBVIOUS
<1>1. Len(aRows) \in Nat /\ DOMAIN aRows = 1..Len(aRows)
  BY DEF AddressesIInv, SoundRows
<1>2. Addresses!Cardinality(Addresses!Ids) = Len(aRows)
  <2>1. \A i, j \in 1..Len(aRows) : aRows[i].id = aRows[j].id => i = j
    BY <1>1 DEF AddressesIInv, SoundRows
  <2>2. Cardinality({aRows[i].id : i \in 1..Len(aRows)}) = Len(aRows)
    BY <1>1, <2>1, DistinctIdsCounted
  <2>3. Addresses!Ids = {aRows[i].id : i \in 1..Len(aRows)}
    BY <1>1 DEF Addresses!Ids
  <2>4. Cardinality(Addresses!Ids) = Len(aRows)
    BY <2>2, <2>3
  <2> QED BY <2>4 DEF Addresses!Cardinality, Cardinality
<1>3. Addresses!Cardinality(Addresses!Open) <= 1
  <2>1. CASE Addresses!Open = {}
    <3>1. Cardinality({}) = 0
      BY FS_EmptySet
    <3>2. Addresses!Cardinality(Addresses!Open) = 0
      BY <2>1, <3>1 DEF Addresses!Cardinality, Cardinality
    <3> QED BY <3>2
  <2>2. CASE Addresses!Open # {}
    <3>1. PICK i \in DOMAIN aRows : ~aRows[i].locked
      BY <2>2 DEF Addresses!Open
    <3>2. {j \in DOMAIN aRows : ~aRows[j].locked} = {i}
      BY <3>1 DEF AddressesIInv, SoundRows
    <3>3. Addresses!Open = {aRows[i].id}
      BY <3>2 DEF Addresses!Open
    <3>4. Cardinality({aRows[i].id}) = 1
      BY FS_Singleton
    <3>5. Addresses!Cardinality(Addresses!Open) = 1
      BY <3>3, <3>4 DEF Addresses!Cardinality, Cardinality
    <3> QED BY <3>5
  <2> QED BY <2>1, <2>2
<1>4. Addresses!LocationOfAddress
  BY DEF AddressesIInv, SoundRows, Addresses!LocationOfAddress
<1>5. Addresses!PageInRange
  BY DEF AddressesIInv, PageExists, Addresses!PageInRange, Addresses!TotalPages,
         Addresses!Filtered
<1> QED
  BY <1>2, <1>3, <1>4, <1>5 DEF Addresses!AddressesAreSound, Addresses!OneOpenRow

\* At most one row is open, no two share an id, locations are those of the addresses and
\* the page shown exists: after every sequence of edits, imports, deletions, searches and
\* lookups, for any number of rows, page sizes and addresses.
THEOREM AddressesStaySound == Spec => []AddressesAreSound
<1>1. AddressesIInv => AddressesAreSound
  BY SoundRowsAreSound DEF AddressesAreSound
<1> QED
  BY <1>1, AddressesInvariance, PartsKeepToTheirs, PTL

=============================================================================
