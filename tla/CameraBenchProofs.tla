-------------------------- MODULE CameraBenchProofs --------------------------
(* What holds of the adapter of any camera and of the catalogue of models,  *)
(* however often and in whatever order they are used, and whatever models   *)
(* the catalogue lists; and of a neural capture, with each of the four      *)
(* daemons: its types, that a stop leaves nothing running (Control), that   *)
(* points reach the map once and a stopped capture's all do (Points).       *)
EXTENDS CameraBench, FirstPositions

-----------------------------------------------------------------------------
(* The adapter and its capture loop *)

HasCamera == {"buffers", "on", "test", "select", "frame", "call"}

\* The loop has the camera open between its open and its end.
OpenWhileReading == loop.fd <=> loop.at \in HasCamera

\* A loop that nobody has asked to stop and that has not failed is running;
\* once the flag is down and nobody waits for the loop, it has ended.
DownMeansEnded == (~adapter.streaming /\ user \notin Joining) => loop.at = "gone"

UvcInv ==
  /\ UvcTypes
  /\ OpenWhileReading
  /\ DownMeansEnded
  /\ loop.at # "gone" => adapter.joinable
  /\ ReplacedIsQuiet

LEMMA UvcInvInit == UvcInit => UvcInv
BY UvcBounds DEF UvcInit, UvcInv, UvcTypes, OpenWhileReading, DownMeansEnded, ReplacedIsQuiet,
   Callbacks, NoCallback, LoopAt, UserAt, HasCamera

\* A call that the loop need not end for, or that has seen it end, leaves
\* nothing of it.
LEMMA UvcFinishInv ==
  ASSUME UvcInv, NEW call \in Joining, NEW joinable \in BOOLEAN,
         FinishCall(call, joinable), loop.at = "gone", UNCHANGED <<camera, loop, calls>>
  PROVE  UvcInv'
<1>1. PICK c \in BOOLEAN : adapter' = [adapter EXCEPT !.joinable = joinable, !.connected = c]
  <2>1. (call = "stop" /\ adapter.connected) \in BOOLEAN
    OBVIOUS
  <2> QED
    BY <2>1 DEF FinishCall
<1>2. adapter \in [connected : BOOLEAN, streaming : BOOLEAN, joinable : BOOLEAN, callback : Callbacks]
  BY DEF UvcInv, UvcTypes
<1>3. /\ adapter' \in [connected : BOOLEAN, streaming : BOOLEAN, joinable : BOOLEAN, callback : Callbacks]
      /\ adapter'.streaming = adapter.streaming
      /\ adapter'.callback = adapter.callback
  BY <1>1, <1>2
<1>4. user' \in {"idle", "destroyed", "aborted"}
  BY DEF FinishCall
<1> QED
  BY <1>3, <1>4 DEF UvcInv, UvcTypes, OpenWhileReading, DownMeansEnded, ReplacedIsQuiet,
     Callbacks, NoCallback, LoopAt, UserAt, HasCamera, Joining

LEMMA UvcUserInv ==
  ASSUME UvcInv,
         \/ PlugOrUnplug \/ ConnectCamera \/ StartLoop
         \/ \E call \in Joining : StopLoop(call)
         \/ JoinLoop
         \/ \E new \in BOOLEAN : RegisterCallback(new)
  PROVE  UvcInv'
<1> USE UvcBounds DEF UvcInv, UvcTypes, OpenWhileReading, DownMeansEnded, ReplacedIsQuiet, Callbacks,
        NoCallback, LoopAt, UserAt, HasCamera, Joining
<1>1. CASE PlugOrUnplug
  BY <1>1 DEF PlugOrUnplug
<1>2. CASE ConnectCamera
  BY <1>2 DEF ConnectCamera
<1>3. CASE StartLoop
  <2>1. calls' \in [starts : 0..MaxStreams, callbacks : Callbacks]
    BY <1>3 DEF StartLoop
  <2>2. CASE adapter.joinable
    BY <1>3, <2>1, <2>2 DEF StartLoop
  <2>3. CASE ~adapter.joinable
    <3>1. /\ adapter' \in [connected : BOOLEAN, streaming : BOOLEAN, joinable : BOOLEAN, callback : Callbacks]
          /\ adapter'.streaming /\ adapter'.joinable /\ adapter'.callback = adapter.callback
      BY <1>3, <2>3 DEF StartLoop
    <3>2. loop' \in [at : LoopAt, fd : BOOLEAN, callback : Callbacks]
      BY <1>3, <2>3 DEF StartLoop
    <3>3. loop'.at = "open" /\ loop'.fd = loop.fd
      BY <1>3, <2>3 DEF StartLoop
    <3>4. loop.at = "gone" /\ user' = "idle" /\ camera' = camera
      BY <1>3, <2>3 DEF StartLoop
    <3> QED
      BY <2>1, <3>1, <3>2, <3>3, <3>4
  <2> QED
    BY <2>2, <2>3
<1>4. ASSUME NEW call \in Joining, StopLoop(call) PROVE UvcInv'
  <2>1. CASE adapter.streaming
    BY <1>4, <2>1 DEF StopLoop
  <2>2. CASE ~adapter.streaming
    BY <1>4, <2>2, UvcFinishInv DEF StopLoop
  <2> QED
    BY <2>1, <2>2
<1>5. CASE JoinLoop
  BY <1>5, UvcFinishInv DEF JoinLoop
<1>6. ASSUME NEW new \in BOOLEAN, RegisterCallback(new) PROVE UvcInv'
  BY <1>6 DEF RegisterCallback, Registered
<1> QED
  BY <1>1, <1>2, <1>3, <1>4, <1>5, <1>6

LEMMA UvcLoopInv ==
  ASSUME UvcInv, CaptureLoop
  PROVE  UvcInv'
<1> USE UvcBounds DEF UvcInv, UvcTypes, OpenWhileReading, DownMeansEnded, ReplacedIsQuiet, Callbacks,
        NoCallback, LoopAt, UserAt, HasCamera, Joining, Undisturbed, LoopGone, Goes
<1>1. ASSUME NEW from, LoopFails(from) PROVE UvcInv'
  <2>1. adapter' \in [connected : BOOLEAN, streaming : BOOLEAN, joinable : BOOLEAN, callback : Callbacks]
    BY <1>1 DEF LoopFails
  <2>2. loop' = LoopGone /\ UNCHANGED <<camera, user, calls>>
    BY <1>1 DEF LoopFails
  <2> QED
    BY <2>1, <2>2
<1>2. CASE OpenCamera \/ GetBuffers \/ StreamOn
  BY <1>2 DEF OpenCamera, GetBuffers, StreamOn
<1>3. CASE TestFlag
  BY <1>3 DEF TestFlag
<1>4. CASE FrameArrives \/ NoFrame
  BY <1>4 DEF FrameArrives, NoFrame
<1>5. CASE CallBack
  <2>1. loop' \in [at : LoopAt, fd : BOOLEAN, callback : Callbacks] /\ loop'.fd = loop.fd
    BY <1>5 DEF CallBack
  <2>2. loop'.at = "call" => loop'.callback = adapter.callback
    BY <1>5 DEF CallBack
  <2>3. loop.at = "frame" /\ loop'.at \in {"test", "call"} /\ UNCHANGED <<camera, adapter, user, calls>>
    BY <1>5 DEF CallBack
  <2> QED
    BY <2>1, <2>2, <2>3
<1>6. CASE CallReturns
  <2>1. loop' = [at |-> "test", fd |-> loop.fd, callback |-> NoCallback]
    BY <1>6 DEF CallReturns
  <2>2. loop.at = "call" /\ UNCHANGED <<camera, adapter, user, calls>>
    BY <1>6 DEF CallReturns
  <2> QED
    BY <2>1, <2>2
<1> QED
  BY <1>1, <1>2, <1>3, <1>4, <1>5, <1>6 DEF CaptureLoop, FailOpen, FailBuffers, FailStream

LEMMA UvcInvStep ==
  ASSUME UvcInv, [UvcNext]_uvcVars
  PROVE  UvcInv'
<1>1. CASE UvcNext
  BY <1>1, UvcUserInv, UvcLoopInv DEF UvcNext
<1>2. CASE UNCHANGED uvcVars
  BY <1>2 DEF uvcVars, UvcInv, UvcTypes, OpenWhileReading, DownMeansEnded, ReplacedIsQuiet
<1> QED
  BY <1>1, <1>2

LEMMA UvcInvQuiet ==
  ASSUME UvcInv PROVE UvcQuiet
BY DEF UvcInv, UvcTypes, OpenWhileReading, DownMeansEnded, UvcQuiet, StoppedIsQuiet, CameraReleased,
   HasCamera, Joining

\* A step of the bench is a step of the adapter's or leaves the adapter alone.
LEMMA BenchUvc ==
  ASSUME [BenchNext]_benchVars
  PROVE  [UvcNext]_uvcVars
BY DEF BenchNext, benchVars, InNeural, InUvc, InResolver, InCatalogue

\* However often, and in whatever order, an adapter is connected, started,
\* stopped, destroyed and given callbacks, and however often its camera goes,
\* a call that has returned leaves no loop behind that reads the camera or
\* calls back, and a loop that has ended has closed the camera.
THEOREM AdapterQuiet == BenchSpec => []UvcQuiet
<1>1. BenchInit => UvcInv
  BY UvcInvInit DEF BenchInit
<1>2. UvcInv /\ [BenchNext]_benchVars => UvcInv'
  BY UvcInvStep, BenchUvc
<1>3. UvcInv => UvcQuiet
  BY UvcInvQuiet
<1> QED
  BY <1>1, <1>2, <1>3, PTL DEF BenchSpec

-----------------------------------------------------------------------------
(* The look-ups in the catalogue *)

LEMMA PositionsType == Len(Models) \in Nat /\ Positions = 1..Len(Models)
BY ModelsAssumption DEF Positions

\* Among the models found there is a first one.
LEMMA FirstsFound ==
  ASSUME NEW I \in SUBSET Positions, I # {}
  PROVE  Firsts(I) # {}
<1>1. PICK i \in I : \A j \in I : i <= j
  BY PositionsType, FirstPosition
<1> QED
  BY <1>1 DEF Firsts

\* An identifier leads to the one model that has it.
LEMMA FoundById ==
  ASSUME NEW i \in Positions
  PROVE  FindById(Models[i].id) = {i}
<1>1. {j \in Positions : Models[j].id = Models[i].id} = {i}
  BY IdentifiersAssumption DEF Positions
<1> QED
  BY <1>1, PositionsType DEF FindById

\* What is known of no model is found by none of the three look-ups.
LEMMA StrangerNotKnown ==
  ASSUME NEW h, Stranger(h)
  PROVE  KnownModel(h) = {}
<1>1. ByUsb(h.usb) = {} /\ ByAddress(h.at) = {} /\ ByName(h.name) = {}
  BY DEF Stranger, ByUsb, ByAddress, ByName
<1> QED
  BY <1>1 DEF KnownModel, FindByHardware, Firsts

\* What names a model on the bus is found there.
LEMMA FoundOnBus ==
  ASSUME NEW h, \E i \in Positions : h.usb # NoUsb /\ h.usb \in Models[i].usb
  PROVE  /\ KnownModel(h) # {}
         /\ \A i \in KnownModel(h) : i \in Positions /\ h.usb \in Models[i].usb
<1>1. ByUsb(h.usb) # {} /\ ByUsb(h.usb) \in SUBSET Positions
  BY DEF ByUsb
<1>2. KnownModel(h) = Firsts(ByUsb(h.usb))
  BY <1>1 DEF KnownModel, FindByHardware
<1> QED
  BY <1>1, <1>2, FirstsFound DEF Firsts, ByUsb

-----------------------------------------------------------------------------
(* The resolver *)

Answered == asked = Absent \/ answer \in Resolutions(asked)

\* In which tier an answer was found, and what follows.
LEMMA TierOfAnswer ==
  ASSUME NEW h, NEW a \in Resolutions(h), a.tier # 1
  PROVE  \/ /\ KnownModel(h) # {} /\ a.tier = 2
            /\ \E i \in KnownModel(h) : a.model = Models[i].id
         \/ KnownModel(h) = {} /\ Siblings(h) # {} /\ a.tier = 3
         \/ KnownModel(h) = {} /\ Siblings(h) = {} /\ a.tier # 2 /\ (a.capturable => Camera(h))
<1>1. CASE Exact(h) # {}
  BY <1>1 DEF Resolutions, Answer
<1>2. CASE Exact(h) = {} /\ KnownModel(h) # {}
  <2>1. PICK i \in KnownModel(h) : a \in KnownAnswers(h, Models[i])
    BY <1>2 DEF Resolutions
  <2>2. PICK f \in FirmwareCompatibility(Models[i], h.firmware) :
          a = Answer(2, Models[i].id, Models[i].vendor, f.adapter, Models[i].backend, f.legacy, f.supported)
    BY <2>1 DEF KnownAnswers
  <2>3. a.tier = 2 /\ a.model = Models[i].id
    BY <2>2 DEF Answer
  <2> QED
    BY <1>2, <2>3
<1>3. CASE Exact(h) = {} /\ KnownModel(h) = {} /\ Siblings(h) # {}
  <2>1. PICK i \in Siblings(h) : a = SdkAnswer(Models[i])
    BY <1>3 DEF Resolutions
  <2> QED
    BY <1>3, <2>1 DEF SdkAnswer, Answer
<1>4. CASE Exact(h) = {} /\ KnownModel(h) = {} /\ Siblings(h) = {}
  <2>1. a = OtherAnswer(h)
    BY <1>4 DEF Resolutions
  <2>2. a.tier # 2 /\ (a.capturable => Camera(h))
    <3>1. CASE Camera(h)
      BY <2>1, <3>1 DEF OtherAnswer, Answer
    <3>2. CASE ~Camera(h) /\ ~Verified(h)
      <4>1. a = Answer(6, "unknown", h.vendor, <<"NONE">>, "NONE", FALSE, TRUE)
        BY <2>1, <3>2 DEF OtherAnswer
      <4>2. a.tier = 6
        BY <4>1, Zenon DEF Answer
      <4>3. a.capturable = ("NONE" # "NONE")
        BY <4>1, Zenon DEF Answer
      <4>4. a.capturable = FALSE
        BY <4>3, Zenon
      <4> QED
        BY <4>2, <4>4, SMT
    <3>3. CASE ~Camera(h) /\ Verified(h)
      <4>1. a = Answer(5, "generic", h.vendor, <<"NONE">>, "NONE", FALSE, TRUE)
        BY <2>1, <3>3 DEF OtherAnswer
      <4>2. a.tier = 5
        BY <4>1, Zenon DEF Answer
      <4>3. a.capturable = ("NONE" # "NONE")
        BY <4>1, Zenon DEF Answer
      <4>4. a.capturable = FALSE
        BY <4>3, Zenon
      <4> QED
        BY <4>2, <4>4, SMT
    <3> QED
      BY <3>1, <3>2, <3>3
  <2> QED
    BY <1>4, <2>2
<1> QED
  BY <1>1, <1>2, <1>3, <1>4

LEMMA NoSiblings ==
  ASSUME NEW h, OfNoVendor(h)
  PROVE  Siblings(h) = {}
BY DEF OfNoVendor, Siblings, ByVendor, Firsts

LEMMA AnswerSound ==
  ASSUME Answered
  PROVE  StrangersUnknown /\ BusDecides
<1>1. StrangersUnknown
  <2> SUFFICES ASSUME Asked, answer.tier # 1, Stranger(asked)
               PROVE  /\ answer.tier # 2
                      /\ OfNoVendor(asked) => (answer.capturable => asked.uvc /\ asked.rgb)
    BY DEF StrangersUnknown
  <2>1. answer \in Resolutions(asked) /\ KnownModel(asked) = {}
    BY StrangerNotKnown DEF Answered, Asked
  <2> QED
    BY <2>1, TierOfAnswer, NoSiblings DEF Camera
<1>2. BusDecides
  <2> SUFFICES ASSUME Asked, answer.tier # 1,
                      \E i \in Positions : asked.usb # NoUsb /\ asked.usb \in Models[i].usb
               PROVE  answer.tier = 2 /\ \E m \in ModelsNamed(answer.model) : asked.usb \in m.usb
    BY DEF BusDecides
  <2>1. answer \in Resolutions(asked)
    BY DEF Answered, Asked
  <2>2. PICK i \in KnownModel(asked) : answer.tier = 2 /\ answer.model = Models[i].id
    BY <2>1, TierOfAnswer, FoundOnBus
  <2>3. i \in Positions /\ asked.usb \in Models[i].usb
    BY FoundOnBus
  <2>4. Models[i] \in ModelsNamed(answer.model)
    BY <2>2, <2>3 DEF ModelsNamed
  <2> QED
    BY <2>2, <2>3, <2>4
<1> QED
  BY <1>1, <1>2

-----------------------------------------------------------------------------
(* The dialog *)

Tab == [vendor : {"All"} \cup Manufacturers, type : {"All"} \cup Types, query : {""} \cup Queries,
        listed : SUBSET Positions, selected : {""} \cup {Models[i].id : i \in Positions},
        details : SUBSET Positions]

\* The list is of the vendor chosen, and the details are those of the model
\* selected.
TabInv ==
  /\ tab \in Tab
  /\ tab.vendor # "All" => \A i \in tab.listed : Occurs(tab.vendor, Models[i].vendor)
  /\ tab.selected # "" => \E i \in tab.listed : Models[i].id = tab.selected /\ tab.details = {i}

LEMMA TabInvInit == DialogInit => TabInv
<1> SUFFICES ASSUME DialogInit PROVE TabInv
  OBVIOUS
<1>1. tab = [vendor |-> "All", type |-> "All", query |-> "", listed |-> {}, selected |-> "", details |-> {}]
  BY DEF DialogInit, Opening
<1>2. /\ tab.vendor = "All" /\ tab.selected = ""
      /\ tab \in Tab
  BY <1>1 DEF Tab
<1> QED
  BY <1>2 DEF TabInv

\* A list has models of the vendor chosen.
LEMMA ListedOfVendor ==
  ASSUME NEW x \in Tab
  PROVE  /\ Listed(x) \in SUBSET Positions
         /\ x.vendor # "All" => \A i \in Listed(x) : Occurs(x.vendor, Models[i].vendor)
BY DEF Listed, Filtered, Wanted

LEMMA ShowingInv ==
  ASSUME NEW x \in Tab, NEW i \in Listed(x), tab' = Showing(x, Models[i].id)
  PROVE  TabInv'
<1>1. i \in Positions /\ Listed(x) \in SUBSET Positions
  BY ListedOfVendor
<1>2. Details(Models[i].id) = {i}
  BY <1>1, FoundById DEF Details
<1>3. tab' = [x EXCEPT !.listed = Listed(x), !.selected = Models[i].id, !.details = {i}]
  BY <1>2 DEF Showing
<1>4. /\ tab' \in Tab
      /\ tab'.vendor = x.vendor /\ tab'.listed = Listed(x)
      /\ tab'.selected = Models[i].id /\ tab'.details = {i}
  BY <1>1, <1>3 DEF Tab
<1> QED
  BY <1>4, ListedOfVendor DEF TabInv

LEMMA RefreshedInv ==
  ASSUME NEW x \in Tab, tab' \in Refreshed(x)
  PROVE  TabInv'
<1>1. CASE Listed(x) = {}
  <2>1. tab' = [x EXCEPT !.listed = {}, !.selected = "", !.details = {}]
    BY <1>1 DEF Refreshed
  <2> QED
    BY <2>1 DEF TabInv, Tab
<1>2. CASE Listed(x) # {} /\ \E i \in Listed(x) : Models[i].id = x.selected
  <2>1. PICK i \in Listed(x) : tab' = Showing(x, Models[i].id)
    BY <1>2 DEF Refreshed
  <2> QED
    BY <2>1, ShowingInv
<1>3. CASE Listed(x) # {} /\ ~\E i \in Listed(x) : Models[i].id = x.selected
  <2>1. PICK i \in Firsts(Listed(x)) : tab' = Showing(x, Models[i].id)
    BY <1>3 DEF Refreshed
  <2>2. i \in Listed(x)
    BY DEF Firsts
  <2> QED
    BY <2>1, <2>2, ShowingInv
<1> QED
  BY <1>1, <1>2, <1>3

LEMMA TabInvStep ==
  ASSUME TabInv, [DialogNext]_tab
  PROVE  TabInv'
<1>1. CASE Open
  BY <1>1, RefreshedInv DEF Open, TabInv
<1>2. ASSUME NEW v \in {"All"} \cup Manufacturers, PickVendor(v) PROVE TabInv'
  <2>1. [tab EXCEPT !.vendor = v] \in Tab
    BY DEF TabInv, Tab
  <2> QED
    BY <1>2, <2>1, RefreshedInv DEF PickVendor
<1>3. ASSUME NEW t \in {"All"} \cup Types, PickType(t) PROVE TabInv'
  <2>1. [tab EXCEPT !.type = t] \in Tab
    BY DEF TabInv, Tab
  <2> QED
    BY <1>3, <2>1, RefreshedInv DEF PickType
<1>4. ASSUME NEW q \in {""} \cup Queries, Type(q) PROVE TabInv'
  <2>1. [tab EXCEPT !.query = q] \in Tab
    BY DEF TabInv, Tab
  <2> QED
    BY <1>4, <2>1, RefreshedInv DEF Type
<1>5. ASSUME NEW i \in tab.listed, PickModel(i) PROVE TabInv'
  <2>1. i \in Positions
    BY DEF TabInv, Tab
  <2>2. tab' = [tab EXCEPT !.selected = Models[i].id, !.details = {i}]
    BY <1>5, <2>1, FoundById DEF PickModel, Details
  <2>3. /\ tab' \in Tab
        /\ tab'.vendor = tab.vendor /\ tab'.listed = tab.listed
        /\ tab'.selected = Models[i].id /\ tab'.details = {i}
    BY <2>1, <2>2 DEF TabInv, Tab
  <2> QED
    BY <2>3 DEF TabInv
<1>6. CASE UNCHANGED tab
  BY <1>6 DEF TabInv
<1> QED
  BY <1>1, <1>2, <1>3, <1>4, <1>5, <1>6 DEF DialogNext

LEMMA TabShows ==
  ASSUME TabInv PROVE ShownIsListed
BY DEF TabInv, ShownIsListed

-----------------------------------------------------------------------------

LEMMA CatalogueStep ==
  ASSUME Answered /\ TabInv, [BenchNext]_benchVars
  PROVE  (Answered /\ TabInv)'
<1>1. CASE UNCHANGED <<resolverVars, tab>>
  BY <1>1 DEF Answered, resolverVars, TabInv
<1>2. CASE InResolver /\ ResolverNext
  <2>1. PICK h \in Units : Resolve(h)
    BY <1>2 DEF ResolverNext
  <2>2. Answered'
    BY <2>1 DEF Resolve, Answered
  <2> QED
    BY <1>2, <2>2 DEF InResolver, TabInv
<1>3. CASE InCatalogue /\ DialogNext
  BY <1>3, TabInvStep DEF InCatalogue, resolverVars, Answered
<1> QED
  BY <1>1, <1>2, <1>3 DEF BenchNext, benchVars, InNeural, InUvc

\* Whatever models the catalogue lists, as long as it gives no identifier
\* twice, and whatever is part of whatever text: hardware that the catalogue
\* does not have is never taken for a model of it, identifiers on the bus
\* decide, and the details shown in the dialog are those of a listed model of
\* the vendor chosen.
THEOREM CatalogueAnswers == BenchSpec => []CatalogueSound
<1>1. BenchInit => Answered /\ TabInv
  BY TabInvInit DEF BenchInit, ResolverInit, Answered
<1>2. (Answered /\ TabInv) /\ [BenchNext]_benchVars => (Answered /\ TabInv)'
  BY CatalogueStep
<1>3. Answered /\ TabInv => CatalogueSound
  BY AnswerSound, TabShows DEF CatalogueSound
<1> QED
  BY <1>1, <1>2, <1>3, PTL DEF BenchSpec

-----------------------------------------------------------------------------
(* The neural capture: lists.                                               *)

\* r is q with v in the place of its i-th.
Put(q, r, i, v) ==
  /\ Len(r) = Len(q) /\ i \in 1..Len(q) /\ r[i] = v
  /\ \A j \in 1..Len(q) : j # i => r[j] = q[j]

LEMMA PutIs ==
  ASSUME NEW S, NEW q \in Seq(S), NEW i \in 1..Len(q), NEW v \in S, NEW r, r = [q EXCEPT ![i] = v]
  PROVE  r \in Seq(S) /\ Put(q, r, i, v)
<1>1. Len(q) \in Nat
  OBVIOUS
<1>2. r \in Seq(S)
  OBVIOUS
<1>3. Len(r) = Len(q)
  OBVIOUS
<1>4. r[i] = v /\ \A j \in 1..Len(q) : j # i => r[j] = q[j]
  OBVIOUS
<1> QED
  BY <1>2, <1>3, <1>4 DEF Put

\* r is q with v at its end.
Adds(q, r, v) ==
  /\ Len(r) = Len(q) + 1 /\ r[Len(r)] = v
  /\ \A j \in 1..Len(q) : r[j] = q[j]

LEMMA AddsIs ==
  ASSUME NEW S, NEW q \in Seq(S), NEW v \in S, NEW r, r = Append(q, v)
  PROVE  r \in Seq(S) /\ Adds(q, r, v)
BY DEF Adds

LEMMA ConcatIs ==
  ASSUME NEW S, NEW p \in Seq(S), NEW q \in Seq(S), NEW r, r = p \o q
  PROVE  /\ r \in Seq(S) /\ Len(r) = Len(p) + Len(q)
         /\ \A j \in 1..Len(p) : r[j] = p[j]
         /\ \A j \in 1..Len(q) : r[Len(p) + j] = q[j]
OBVIOUS

LEMMA SliceIs ==
  ASSUME NEW S, NEW q \in Seq(S), NEW m \in Nat \ {0}, NEW n \in Nat, n <= Len(q), m <= n + 1, NEW r, r = SubSeq(q, m, n)
  PROVE  /\ r \in Seq(S) /\ Len(r) = n - m + 1
         /\ \A j \in 1..Len(r) : r[j] = q[m + j - 1]
<1>1. Len(q) \in Nat
  OBVIOUS
<1>2. \A j \in m..n : j \in 1..Len(q)
  BY <1>1
<1>3. r \in Seq(S) /\ Len(r) = n - m + 1
  BY <1>1, <1>2
<1>4. \A j \in 1..Len(r) : r[j] = q[m + j - 1]
  BY <1>1, <1>2, <1>3
<1> QED
  BY <1>3, <1>4

\* Elements from the first to the last, or none.
LEMMA SliceType ==
  ASSUME NEW S, NEW q \in Seq(S), NEW m \in Nat \ {0}, NEW r, r = SubSeq(q, m, Len(q))
  PROVE  r \in Seq(S)
<1>1. Len(q) \in Nat
  OBVIOUS
<1>2. \A j \in m..Len(q) : q[j] \in S
  BY <1>1
<1> QED
  BY <1>1, <1>2

-----------------------------------------------------------------------------
(* The steps of a request                                                   *)

CameraStarting == {<<"begin", "model", "camera">>, <<"model", "camera">>, <<"camera">>}
CameraHalting  == {<<"halt", "joinWorker", "end">>, <<"joinWorker", "end">>, <<"end">>}
CameraStopping == {<<"flag", "joinEye", "release", "halt", "joinWorker", "end">>,
                   <<"joinEye", "release", "halt", "joinWorker", "end">>,
                   <<"release", "halt", "joinWorker", "end">>}
CameraSteps    == {<<>>} \cup CameraStarting \cup CameraHalting \cup CameraStopping
GlassesSteps   == {<<>>, <<"begin">>, <<"flag", "halt", "joinWorker", "joinEye", "joinTracker", "close">>,
                   <<"halt", "joinWorker", "joinEye", "joinTracker", "close">>,
                   <<"joinWorker", "joinEye", "joinTracker", "close">>, <<"joinEye", "joinTracker", "close">>,
                   <<"joinTracker", "close">>, <<"close">>}

\* The step that is next, and what follows what.
StageOf(todo) == IF todo = <<>> THEN "none" ELSE Head(todo)
Stage         == StageOf(server.todo)
CameraOrder   == {<<"begin", "model">>, <<"model", "camera">>, <<"camera", "none">>,
                  <<"flag", "joinEye">>, <<"joinEye", "release">>, <<"release", "halt">>,
                  <<"halt", "joinWorker">>, <<"joinWorker", "end">>, <<"end", "none">>}
GlassesOrder  == {<<"begin", "none">>, <<"flag", "halt">>, <<"halt", "joinWorker">>, <<"joinWorker", "joinEye">>,
                  <<"joinEye", "joinTracker">>, <<"joinTracker", "close">>, <<"close", "none">>}

LEMMA CameraTail ==
  ASSUME NEW q \in CameraSteps, q # <<>>
  PROVE  Tail(q) \in CameraSteps /\ <<Head(q), StageOf(Tail(q))>> \in CameraOrder
<1>1. CASE q = <<"begin", "model", "camera">>
  <2>1. Head(q) = "begin" /\ Tail(q) = <<"model", "camera">>
    BY <1>1
  <2>2. <<"model", "camera">> # <<>> /\ Head(<<"model", "camera">>) = "model"
    OBVIOUS
  <2>3. StageOf(Tail(q)) = "model"
    BY <2>1, <2>2, Zenon DEF StageOf
  <2>4. Tail(q) \in CameraSteps
    BY <2>1 DEF CameraSteps, CameraStarting, CameraHalting, CameraStopping
  <2> QED
    BY <2>1, <2>3, <2>4 DEF CameraOrder
<1>2. CASE q = <<"model", "camera">>
  <2>1. Head(q) = "model" /\ Tail(q) = <<"camera">>
    BY <1>2
  <2>2. <<"camera">> # <<>> /\ Head(<<"camera">>) = "camera"
    OBVIOUS
  <2>3. StageOf(Tail(q)) = "camera"
    BY <2>1, <2>2, Zenon DEF StageOf
  <2>4. Tail(q) \in CameraSteps
    BY <2>1 DEF CameraSteps, CameraStarting, CameraHalting, CameraStopping
  <2> QED
    BY <2>1, <2>3, <2>4 DEF CameraOrder
<1>3. CASE q = <<"camera">>
  <2>1. Head(q) = "camera" /\ Tail(q) = <<>>
    BY <1>3
  <2>2. StageOf(Tail(q)) = "none"
    BY <2>1 DEF StageOf
  <2>3. Tail(q) \in CameraSteps
    BY <2>1 DEF CameraSteps, CameraStarting, CameraHalting, CameraStopping
  <2> QED
    BY <2>1, <2>2, <2>3 DEF CameraOrder
<1>4. CASE q = <<"halt", "joinWorker", "end">>
  <2>1. Head(q) = "halt" /\ Tail(q) = <<"joinWorker", "end">>
    BY <1>4
  <2>2. <<"joinWorker", "end">> # <<>> /\ Head(<<"joinWorker", "end">>) = "joinWorker"
    OBVIOUS
  <2>3. StageOf(Tail(q)) = "joinWorker"
    BY <2>1, <2>2, Zenon DEF StageOf
  <2>4. Tail(q) \in CameraSteps
    BY <2>1 DEF CameraSteps, CameraStarting, CameraHalting, CameraStopping
  <2> QED
    BY <2>1, <2>3, <2>4 DEF CameraOrder
<1>5. CASE q = <<"joinWorker", "end">>
  <2>1. Head(q) = "joinWorker" /\ Tail(q) = <<"end">>
    BY <1>5
  <2>2. <<"end">> # <<>> /\ Head(<<"end">>) = "end"
    OBVIOUS
  <2>3. StageOf(Tail(q)) = "end"
    BY <2>1, <2>2, Zenon DEF StageOf
  <2>4. Tail(q) \in CameraSteps
    BY <2>1 DEF CameraSteps, CameraStarting, CameraHalting, CameraStopping
  <2> QED
    BY <2>1, <2>3, <2>4 DEF CameraOrder
<1>6. CASE q = <<"end">>
  <2>1. Head(q) = "end" /\ Tail(q) = <<>>
    BY <1>6
  <2>2. StageOf(Tail(q)) = "none"
    BY <2>1 DEF StageOf
  <2>3. Tail(q) \in CameraSteps
    BY <2>1 DEF CameraSteps, CameraStarting, CameraHalting, CameraStopping
  <2> QED
    BY <2>1, <2>2, <2>3 DEF CameraOrder
<1>7. CASE q = <<"flag", "joinEye", "release", "halt", "joinWorker", "end">>
  <2>1. Head(q) = "flag" /\ Tail(q) = <<"joinEye", "release", "halt", "joinWorker", "end">>
    BY <1>7
  <2>2. <<"joinEye", "release", "halt", "joinWorker", "end">> # <<>> /\ Head(<<"joinEye", "release", "halt", "joinWorker", "end">>) = "joinEye"
    OBVIOUS
  <2>3. StageOf(Tail(q)) = "joinEye"
    BY <2>1, <2>2, Zenon DEF StageOf
  <2>4. Tail(q) \in CameraSteps
    BY <2>1 DEF CameraSteps, CameraStarting, CameraHalting, CameraStopping
  <2> QED
    BY <2>1, <2>3, <2>4 DEF CameraOrder
<1>8. CASE q = <<"joinEye", "release", "halt", "joinWorker", "end">>
  <2>1. Head(q) = "joinEye" /\ Tail(q) = <<"release", "halt", "joinWorker", "end">>
    BY <1>8
  <2>2. <<"release", "halt", "joinWorker", "end">> # <<>> /\ Head(<<"release", "halt", "joinWorker", "end">>) = "release"
    OBVIOUS
  <2>3. StageOf(Tail(q)) = "release"
    BY <2>1, <2>2, Zenon DEF StageOf
  <2>4. Tail(q) \in CameraSteps
    BY <2>1 DEF CameraSteps, CameraStarting, CameraHalting, CameraStopping
  <2> QED
    BY <2>1, <2>3, <2>4 DEF CameraOrder
<1>9. CASE q = <<"release", "halt", "joinWorker", "end">>
  <2>1. Head(q) = "release" /\ Tail(q) = <<"halt", "joinWorker", "end">>
    BY <1>9
  <2>2. <<"halt", "joinWorker", "end">> # <<>> /\ Head(<<"halt", "joinWorker", "end">>) = "halt"
    OBVIOUS
  <2>3. StageOf(Tail(q)) = "halt"
    BY <2>1, <2>2, Zenon DEF StageOf
  <2>4. Tail(q) \in CameraSteps
    BY <2>1 DEF CameraSteps, CameraStarting, CameraHalting, CameraStopping
  <2> QED
    BY <2>1, <2>3, <2>4 DEF CameraOrder
<1> QED
  BY <1>1, <1>2, <1>3, <1>4, <1>5, <1>6, <1>7, <1>8, <1>9
  DEF CameraSteps, CameraStarting, CameraHalting, CameraStopping

LEMMA GlassesTail ==
  ASSUME NEW q \in GlassesSteps, q # <<>>
  PROVE  Tail(q) \in GlassesSteps /\ <<Head(q), StageOf(Tail(q))>> \in GlassesOrder
<1>1. CASE q = <<"begin">>
  <2>1. Head(q) = "begin" /\ Tail(q) = <<>>
    BY <1>1
  <2>2. StageOf(Tail(q)) = "none"
    BY <2>1 DEF StageOf
  <2>3. Tail(q) \in GlassesSteps
    BY <2>1 DEF GlassesSteps
  <2> QED
    BY <2>1, <2>2, <2>3 DEF GlassesOrder
<1>2. CASE q = <<"flag", "halt", "joinWorker", "joinEye", "joinTracker", "close">>
  <2>1. Head(q) = "flag" /\ Tail(q) = <<"halt", "joinWorker", "joinEye", "joinTracker", "close">>
    BY <1>2
  <2>2. <<"halt", "joinWorker", "joinEye", "joinTracker", "close">> # <<>> /\ Head(<<"halt", "joinWorker", "joinEye", "joinTracker", "close">>) = "halt"
    OBVIOUS
  <2>3. StageOf(Tail(q)) = "halt"
    BY <2>1, <2>2, Zenon DEF StageOf
  <2>4. Tail(q) \in GlassesSteps
    BY <2>1 DEF GlassesSteps
  <2> QED
    BY <2>1, <2>3, <2>4 DEF GlassesOrder
<1>3. CASE q = <<"halt", "joinWorker", "joinEye", "joinTracker", "close">>
  <2>1. Head(q) = "halt" /\ Tail(q) = <<"joinWorker", "joinEye", "joinTracker", "close">>
    BY <1>3
  <2>2. <<"joinWorker", "joinEye", "joinTracker", "close">> # <<>> /\ Head(<<"joinWorker", "joinEye", "joinTracker", "close">>) = "joinWorker"
    OBVIOUS
  <2>3. StageOf(Tail(q)) = "joinWorker"
    BY <2>1, <2>2, Zenon DEF StageOf
  <2>4. Tail(q) \in GlassesSteps
    BY <2>1 DEF GlassesSteps
  <2> QED
    BY <2>1, <2>3, <2>4 DEF GlassesOrder
<1>4. CASE q = <<"joinWorker", "joinEye", "joinTracker", "close">>
  <2>1. Head(q) = "joinWorker" /\ Tail(q) = <<"joinEye", "joinTracker", "close">>
    BY <1>4
  <2>2. <<"joinEye", "joinTracker", "close">> # <<>> /\ Head(<<"joinEye", "joinTracker", "close">>) = "joinEye"
    OBVIOUS
  <2>3. StageOf(Tail(q)) = "joinEye"
    BY <2>1, <2>2, Zenon DEF StageOf
  <2>4. Tail(q) \in GlassesSteps
    BY <2>1 DEF GlassesSteps
  <2> QED
    BY <2>1, <2>3, <2>4 DEF GlassesOrder
<1>5. CASE q = <<"joinEye", "joinTracker", "close">>
  <2>1. Head(q) = "joinEye" /\ Tail(q) = <<"joinTracker", "close">>
    BY <1>5
  <2>2. <<"joinTracker", "close">> # <<>> /\ Head(<<"joinTracker", "close">>) = "joinTracker"
    OBVIOUS
  <2>3. StageOf(Tail(q)) = "joinTracker"
    BY <2>1, <2>2, Zenon DEF StageOf
  <2>4. Tail(q) \in GlassesSteps
    BY <2>1 DEF GlassesSteps
  <2> QED
    BY <2>1, <2>3, <2>4 DEF GlassesOrder
<1>6. CASE q = <<"joinTracker", "close">>
  <2>1. Head(q) = "joinTracker" /\ Tail(q) = <<"close">>
    BY <1>6
  <2>2. <<"close">> # <<>> /\ Head(<<"close">>) = "close"
    OBVIOUS
  <2>3. StageOf(Tail(q)) = "close"
    BY <2>1, <2>2, Zenon DEF StageOf
  <2>4. Tail(q) \in GlassesSteps
    BY <2>1 DEF GlassesSteps
  <2> QED
    BY <2>1, <2>3, <2>4 DEF GlassesOrder
<1>7. CASE q = <<"close">>
  <2>1. Head(q) = "close" /\ Tail(q) = <<>>
    BY <1>7
  <2>2. StageOf(Tail(q)) = "none"
    BY <2>1 DEF StageOf
  <2>3. Tail(q) \in GlassesSteps
    BY <2>1 DEF GlassesSteps
  <2> QED
    BY <2>1, <2>2, <2>3 DEF GlassesOrder
<1> QED
  BY <1>1, <1>2, <1>3, <1>4, <1>5, <1>6, <1>7
  DEF GlassesSteps

\* After the halt comes a join, which can be left out.
LEMMA CameraHalt ==
  ASSUME NEW q \in CameraSteps, q # <<>>, Head(q) = "halt"
  PROVE  Tail(Tail(q)) \in CameraSteps /\ StageOf(Tail(Tail(q))) = "end"
<1>1. q = <<"halt", "joinWorker", "end">>
  BY DEF CameraSteps, CameraStarting, CameraHalting, CameraStopping
<1> QED
  BY <1>1 DEF CameraHalting, CameraSteps, StageOf

LEMMA GlassesHalt ==
  ASSUME NEW q \in GlassesSteps, q # <<>>, Head(q) = "halt"
  PROVE  Tail(Tail(q)) \in GlassesSteps /\ StageOf(Tail(Tail(q))) = "joinEye"
<1>1. q = <<"halt", "joinWorker", "joinEye", "joinTracker", "close">>
  BY DEF GlassesSteps
<1> QED
  BY <1>1 DEF GlassesSteps, StageOf

AllSteps == CameraSteps \cup GlassesSteps

LEMMA StepsType == AllSteps \subseteq Seq(Step)
<1>1. CameraSteps \subseteq Seq(Step)
  BY DEF CameraSteps, CameraStarting, CameraHalting, CameraStopping, Step
<1>2. GlassesSteps \subseteq Seq(Step)
  BY DEF GlassesSteps, Step
<1> QED
  BY <1>1, <1>2 DEF AllSteps

LEMMA StagesOf ==
  ASSUME NEW q \in AllSteps
  PROVE  /\ StageOf(q) \in Step \cup {"none"}
         /\ q = <<>> <=> StageOf(q) = "none"
         /\ q # <<>> => StageOf(q) = Head(q)
<1>1. ASSUME q # <<>> PROVE Head(q) \in Step
  BY <1>1, StepsType
<1> QED
  BY <1>1 DEF StageOf, Step

LEMMA AtStage ==
  ASSUME server.todo \in AllSteps, NEW s \in Step
  PROVE  AtStep(s) <=> Stage = s
BY StagesOf DEF AtStep, Stage, StageOf, Step

-----------------------------------------------------------------------------
(* The engine's voxels                                                      *)

Once(s) == \A i, j \in 1..Len(s) : s[i] = s[j] => i = j

\* w is v with some more at its end, none twice.
Grown(v, w) ==
  /\ w \in Seq(Place) /\ Len(v) <= Len(w)
  /\ \A i \in 1..Len(v) : w[i] = v[i]
  /\ Once(v) => Once(w)

Insert1(s, x) == IF x \in ToSet(s) THEN s ELSE Append(s, x)

LEMMA Insert1Grows ==
  ASSUME NEW v \in Seq(Place), NEW s, Grown(v, s), NEW x \in Place
  PROVE  Grown(v, Insert1(s, x))
<1>1. CASE x \in ToSet(s)
  BY <1>1 DEF Insert1
<1>2. CASE x \notin ToSet(s)
  <2>1. PICK r : r = Append(s, x)
    OBVIOUS
  <2>2. r \in Seq(Place) /\ Adds(s, r, x)
    BY <2>1, AddsIs DEF Grown
  <2>3. Len(v) \in Nat /\ Len(s) \in Nat
    BY DEF Grown
  <2>4. \A i \in 1..Len(s) : s[i] # x
    BY <1>2 DEF ToSet, Grown
  <2>5. Once(v) => Once(r)
    BY <2>2, <2>3, <2>4 DEF Grown, Once, Adds
  <2>6. Grown(v, r)
    BY <2>2, <2>3, <2>5 DEF Grown, Adds
  <2> QED
    BY <1>2, <2>1, <2>6 DEF Insert1
<1> QED
  BY <1>1, <1>2

\* What a prediction leaves of the voxels: those there were, then new ones.
LEMMA InsertedGrows ==
  ASSUME NEW voxels \in Seq(Place), NEW frames \in Seq(Frame)
  PROVE  Grown(voxels, Inserted(voxels, frames))
<1> DEFINE Next1(s, i) == IF frames[i].place \in ToSet(s) THEN s ELSE Append(s, frames[i].place)
           UpTo(k, f) == /\ f \in [0..k -> Seq(Place)]
                         /\ f[0] = voxels
                         /\ \A i \in 1..k : f[i] = Next1(f[i - 1], i)
           N == Len(frames)
           K == {k \in 1..N : ~\E f : UpTo(k, f)}
<1>1. N \in Nat
  OBVIOUS
<1>2. \A i \in 1..N : frames[i].place \in Place
  <2>1. \A i \in 1..N : frames[i] \in Frame
    OBVIOUS
  <2> QED
    BY <2>1 DEF Frame
<1>3. \A s \in Seq(Place), i \in 1..N : Next1(s, i) \in Seq(Place)
  BY <1>2
<1>4. UpTo(0, [i \in 0..0 |-> voxels])
  OBVIOUS
<1>5. ASSUME NEW k \in 1..N, NEW g, UpTo(k - 1, g)
      PROVE  UpTo(k, [i \in 0..k |-> IF i = k THEN Next1(g[k - 1], k) ELSE g[i]])
  <2> DEFINE f == [i \in 0..k |-> IF i = k THEN Next1(g[k - 1], k) ELSE g[i]]
  <2>1. g \in [0..k - 1 -> Seq(Place)] /\ k - 1 \in 0..k - 1
    BY <1>1, <1>5
  <2>2. Next1(g[k - 1], k) \in Seq(Place)
    BY <1>3, <2>1
  <2> HIDE DEF Next1
  <2>3. f \in [0..k -> Seq(Place)]
    BY <1>1, <2>1, <2>2
  <2>4. f[0] = voxels
    BY <1>1, <1>5
  <2>5. ASSUME NEW i \in 1..k
        PROVE  f[i] = Next1(f[i - 1], i)
    <3>1. CASE i = k
      BY <1>1, <3>1
    <3>2. CASE i # k
      <4>1. i \in 1..k - 1 /\ f[i] = g[i] /\ f[i - 1] = g[i - 1]
        BY <1>1, <3>2
      <4> QED
        BY <1>5, <4>1
    <3> QED
      BY <3>1, <3>2
  <2> HIDE DEF f
  <2>6. UpTo(k, f)
    BY <2>3, <2>4, <2>5
  <2> QED
    BY <2>6 DEF f
<1> HIDE DEF UpTo
<1>6. K = {}
  <2>1. SUFFICES ASSUME K # {}
                 PROVE  FALSE
    OBVIOUS
  <2>2. PICK k \in K : \A j \in K : k <= j
    BY <1>1, <2>1, FirstPosition
  <2>3. PICK g : UpTo(k - 1, g)
    <3>1. CASE k = 1
      BY <1>4, <3>1
    <3>2. CASE k # 1
      <4>1. k - 1 \in 1..N /\ k - 1 \notin K
        BY <1>1, <2>2, <3>2
      <4> QED
        BY <4>1
    <3> QED
      BY <3>1, <3>2
  <2> QED
    BY <1>5, <2>2, <2>3
<1>7. PICK f : UpTo(N, f)
  <2>1. CASE N = 0
    BY <1>4, <2>1
  <2>2. CASE N # 0
    <3>1. N \in 1..N
      BY <1>1, <2>2
    <3>2. N \notin K
      BY <1>6, Zenon
    <3> QED
      BY <3>1, <3>2, Zenon
  <2> QED
    BY <2>1, <2>2
<1> DEFINE R(g) == [i \in 0..N |-> IF i = 0 THEN voxels ELSE Next1(g[i - 1], i)]
           h == CHOOSE g : g = R(g)
<1>8. f = R(f)
  <2> HIDE DEF Next1
  <2>1. f \in [0..N -> Seq(Place)] /\ f[0] = voxels
    BY <1>7 DEF UpTo
  <2>2. \A i \in 1..N : f[i] = Next1(f[i - 1], i)
    BY <1>7 DEF UpTo
  <2>3. \A i \in 0..N : f[i] = IF i = 0 THEN voxels ELSE Next1(f[i - 1], i)
    BY <1>1, <2>1, <2>2
  <2> QED
    BY <2>1, <2>3
<1>9. h = R(h)
  BY <1>8
<1>10. Inserted(voxels, frames) = h[N]
  BY DEF Inserted
<1>11. \A i \in 0..N : h[i] = IF i = 0 THEN voxels ELSE Next1(h[i - 1], i)
  BY <1>1, <1>9
<1> HIDE DEF h, R
<1> DEFINE D == {i \in 1..N : ~Grown(voxels, h[i])}
<1>12. Grown(voxels, h[0])
  BY <1>1, <1>11 DEF Grown
<1>13. D = {}
  <2>1. SUFFICES ASSUME D # {}
                 PROVE  FALSE
    OBVIOUS
  <2>2. PICK k \in D : \A j \in D : k <= j
    BY <1>1, <2>1, FirstPosition
  <2>3. Grown(voxels, h[k - 1])
    BY <1>1, <1>12, <2>2
  <2>4. PICK s : s = h[k - 1]
    OBVIOUS
  <2>5. PICK x \in Place : x = frames[k].place
    BY <1>2, <2>2
  <2>6. h[k] = Insert1(s, x)
    <3>1. h[k] = Next1(h[k - 1], k)
      BY <1>1, <1>11, <2>2
    <3> QED
      BY <2>4, <2>5, <3>1 DEF Insert1
  <2>7. Grown(voxels, Insert1(s, x))
    BY <2>3, <2>4, Insert1Grows
  <2> QED
    BY <2>2, <2>6, <2>7
<1>14. Grown(voxels, h[N])
  <2>1. CASE N = 0
    BY <1>12, <2>1
  <2>2. CASE N # 0
    BY <1>1, <1>13, <2>2
  <2> QED
    BY <2>1, <2>2
<1> QED
  BY <1>10, <1>14

-----------------------------------------------------------------------------
(* The engine's record                                                      *)

LEMMA StartsType ==
  ASSUME NEW b \in Backend
  PROVE  LingBotStart(b) \in Backend /\ ABotStart(b) \in Backend /\ LingBotReset(b) \in Backend
<1>1. <<>> \in Seq(Frame) /\ <<>> \in Seq(Place) /\ <<>> \in Seq(Nat) /\ <<0>> \in Seq(Nat)
  OBVIOUS
<1>2. LingBotStart(b) \in Backend
  BY <1>1 DEF LingBotStart, Backend
<1>3. ABotStart(b) \in Backend
  BY <1>1 DEF ABotStart, Backend
<1>4. LingBotReset(b) \in Backend
  BY <1>1 DEF LingBotReset, Backend
<1> QED
  BY <1>2, <1>3, <1>4

LEMMA FeedType ==
  ASSUME NEW b \in Backend, NEW f \in Frame
  PROVE  LingBotFeed(b, f) \in Backend /\ ABotPush(b, f) \in Backend /\ Grab(b) \in Backend
BY DEF LingBotFeed, ABotPush, Grab, Backend

LEMMA NumbersType ==
  ASSUME NEW frames \in Seq(Frame), NEW q, q = Numbers(frames)
  PROVE  q \in Seq(Nat) /\ Len(q) = Len(frames) /\ \A i \in 1..Len(frames) : q[i] = frames[i].n
<1>1. \A i \in 1..Len(frames) : frames[i] \in Frame
  OBVIOUS
<1>2. \A i \in 1..Len(frames) : frames[i].n \in Nat
  BY <1>1 DEF Frame
<1>3. Len(frames) \in Nat /\ q = [i \in 1..Len(frames) |-> frames[i].n]
  BY DEF Numbers
<1>4. q \in Seq(Nat)
  BY <1>2, <1>3
<1> QED
  BY <1>3, <1>4

LEMMA LesserIs ==
  ASSUME NEW m \in Nat, NEW n \in Nat
  PROVE  Min({m, n}) = IF m <= n THEN m ELSE n
<1> DEFINE k == IF m <= n THEN m ELSE n
<1>1. k \in {m, n} /\ \A y \in {m, n} : k <= y
  OBVIOUS
<1>2. \A x \in {m, n} : (\A y \in {m, n} : x <= y) => x = k
  OBVIOUS
<1> HIDE DEF k
<1>3. Min({m, n}) = CHOOSE x \in {m, n} : \A y \in {m, n} : x <= y
  BY DEF Min
<1>4. Min({m, n}) \in {m, n} /\ \A y \in {m, n} : Min({m, n}) <= y
  BY <1>1, <1>3
<1>5. Min({m, n}) = k
  BY <1>2, <1>4
<1> QED
  BY <1>5 DEF k

\* The part of the frames whose clock is known: f of the frames, and s of the
\* list the clock is read from.
First(q, k, r) == r \in Seq(Frame) /\ Len(r) = k /\ \A i \in 1..k : r[i] = q[i]
Clocked(frames, stamps, k, f, s) ==
  /\ k \in Nat /\ k <= Len(frames) /\ k <= Len(stamps)
  /\ Len(frames) <= Len(stamps) => k = Len(frames)
  /\ First(frames, k, f) /\ First(stamps, k, s)
Processed(b, f, s) == [b EXCEPT !.path = @ \o Numbers(s), !.voxels = Inserted(@, f)]

LEMMA KnownPart ==
  ASSUME NEW frames \in Seq(Frame), NEW stamps \in Seq(Frame)
  PROVE  \E k, f, s : Clocked(frames, stamps, k, f, s) /\ \A b : LingBotProcess(b, frames, stamps) = Processed(b, f, s)
<1>1. Len(frames) \in Nat /\ Len(stamps) \in Nat
  OBVIOUS
<1>2. PICK k \in Nat : k = Min({Len(frames), Len(stamps)})
  BY <1>1, LesserIs
<1>3. k = IF Len(frames) <= Len(stamps) THEN Len(frames) ELSE Len(stamps)
  BY <1>1, <1>2, LesserIs
<1>4. PICK f : f = SubSeq(frames, 1, k)
  OBVIOUS
<1>5. PICK s : s = SubSeq(stamps, 1, k)
  OBVIOUS
<1>6. k <= Len(frames) /\ k <= Len(stamps) /\ (Len(frames) <= Len(stamps) => k = Len(frames))
  BY <1>1, <1>3
<1>7. First(frames, k, f)
  BY <1>1, <1>4, <1>6, SliceIs DEF First
<1>8. First(stamps, k, s)
  BY <1>1, <1>5, <1>6, SliceIs DEF First
<1>9. \A b : LingBotProcess(b, frames, stamps) = Processed(b, f, s)
  BY <1>2, <1>4, <1>5, Zenon DEF LingBotProcess, Processed
<1>10. Clocked(frames, stamps, k, f, s)
  BY <1>6, <1>7, <1>8 DEF Clocked
<1> QED
  BY <1>9, <1>10, Zenon

LEMMA ProcessedType ==
  ASSUME NEW b \in Backend, NEW f \in Seq(Frame), NEW s \in Seq(Frame)
  PROVE  Processed(b, f, s) \in Backend
<1>1. PICK n : n = Numbers(s)
  OBVIOUS
<1>2. n \in Seq(Nat)
  BY <1>1, NumbersType
<1>3. b.path \in Seq(Nat) /\ b.voxels \in Seq(Place)
  BY DEF Backend
<1>4. PICK p : p = b.path \o n
  OBVIOUS
<1>5. p \in Seq(Nat)
  BY <1>2, <1>3, <1>4, ConcatIs
<1>6. PICK v : v = Inserted(b.voxels, f)
  OBVIOUS
<1>7. v \in Seq(Place)
  BY <1>3, <1>6, InsertedGrows DEF Grown
<1>8. Processed(b, f, s) = [b EXCEPT !.path = p, !.voxels = v]
  BY <1>1, <1>4, <1>6, Zenon DEF Processed
<1> QED
  BY <1>5, <1>7, <1>8 DEF Backend

LEMMA LingBotProcessType ==
  ASSUME NEW b \in Backend, NEW frames \in Seq(Frame), NEW stamps \in Seq(Frame)
  PROVE  LingBotProcess(b, frames, stamps) \in Backend
<1>1. PICK k, f, s : Clocked(frames, stamps, k, f, s) /\ \A c : LingBotProcess(c, frames, stamps) = Processed(c, f, s)
  BY KnownPart, Zenon
<1>2. f \in Seq(Frame) /\ s \in Seq(Frame)
  BY <1>1 DEF Clocked, First
<1> QED
  BY <1>1, <1>2, ProcessedType

\* ABot's prediction: the voxels v, of which the new ones r go to the buffer.
ABotStored(b, v, r, n) == [b EXCEPT !.path = @ \o n, !.voxels = v, !.buffer = @ \o r]
LEMMA ABotProcessIs ==
  ASSUME NEW b \in Backend, NEW frames \in Seq(Frame)
  PROVE  \E v, r, n : /\ v = Inserted(b.voxels, frames) /\ Grown(b.voxels, v)
                      /\ r = Beyond(v, b.voxels) /\ r \in Seq(Place)
                      /\ n = Numbers(frames) /\ n \in Seq(Nat)
                      /\ ABotProcess(b, frames) = ABotStored(b, v, r, n)
<1>1. b.path \in Seq(Nat) /\ b.voxels \in Seq(Place) /\ b.buffer \in Seq(Place)
  BY DEF Backend
<1>2. PICK v : v = Inserted(b.voxels, frames)
  OBVIOUS
<1>3. Grown(b.voxels, v)
  BY <1>1, <1>2, InsertedGrows
<1>4. PICK r : r = Beyond(v, b.voxels)
  OBVIOUS
<1>5. r \in Seq(Place)
  <2>1. PICK m \in Nat \ {0} : m = Len(b.voxels) + 1
    BY <1>1
  <2>2. r = SubSeq(v, m, Len(v))
    BY <1>4, <2>1 DEF Beyond
  <2> QED
    BY <1>3, <2>2, SliceType DEF Grown
<1>6. PICK n : n = Numbers(frames)
  OBVIOUS
<1>7. n \in Seq(Nat)
  BY <1>6, NumbersType
<1>8. ABotProcess(b, frames) = ABotStored(b, v, r, n)
  BY <1>2, <1>4, <1>6, Zenon DEF ABotProcess, ABotStored
<1> QED
  BY <1>2, <1>3, <1>4, <1>5, <1>6, <1>7, <1>8, Zenon

LEMMA ABotProcessType ==
  ASSUME NEW b \in Backend, NEW frames \in Seq(Frame)
  PROVE  ABotProcess(b, frames) \in Backend
<1>1. PICK v, r, n : /\ v = Inserted(b.voxels, frames) /\ Grown(b.voxels, v)
                     /\ r = Beyond(v, b.voxels) /\ r \in Seq(Place)
                     /\ n = Numbers(frames) /\ n \in Seq(Nat)
                     /\ ABotProcess(b, frames) = ABotStored(b, v, r, n)
  BY ABotProcessIs, Zenon
<1>2. b.path \in Seq(Nat) /\ b.buffer \in Seq(Place) /\ v \in Seq(Place)
  BY <1>1 DEF Backend, Grown
<1>3. PICK p : p = b.path \o n
  OBVIOUS
<1>4. PICK q : q = b.buffer \o r
  OBVIOUS
<1>5. p \in Seq(Nat)
  BY <1>1, <1>2, <1>3, ConcatIs
<1>6. q \in Seq(Place)
  BY <1>1, <1>2, <1>4, ConcatIs
<1>7. ABotProcess(b, frames) = [b EXCEPT !.path = p, !.voxels = v, !.buffer = q]
  BY <1>1, <1>3, <1>4, Zenon DEF ABotStored
<1> QED
  BY <1>2, <1>5, <1>6, <1>7 DEF Backend

-----------------------------------------------------------------------------
(* Types                                                                    *)

Budget == {"frames", "late", "fails", "starts"}

\* The types, and what keeps them: frames within their bound, finitely many
\* voxels, and a server in one of its requests.
WellTyped ==
  /\ TypeOK
  /\ spent.frames <= MaxFrames
  /\ IsFiniteSet(daemon.voxels)
  /\ server.todo \in AllSteps

\* What a step may do to the bounds' counters.
Counts(before, after) ==
  /\ after \in [Budget -> Nat]
  /\ after.frames <= MaxFrames
  /\ after.late = 0 => before.late = 0
  /\ before.frames <= after.frames

LEMMA SpendCounts ==
  ASSUME spent \in [Budget -> Nat], spent.frames <= MaxFrames, NEW k \in Budget, Spend(k)
  PROVE  /\ Counts(spent, spent')
         /\ k = "late" => spent'.late # 0
         /\ k = "frames" => spent.frames < MaxFrames /\ spent'.frames = spent.frames + 1
         /\ k # "frames" => spent'.frames = spent.frames
         /\ k # "starts" => spent'.starts = spent.starts
<1>1. spent' = [spent EXCEPT ![k] = @ + 1]
  BY DEF Spend
<1>2. k = "frames" => spent.frames < MaxFrames
  BY DEF Spend
<1>3. MaxFrames \in Nat
  BY DaemonBoundsAssumption
<1> QED
  BY <1>1, <1>2, <1>3 DEF Counts, Budget

LEMMA SpentStays ==
  ASSUME spent \in [Budget -> Nat], spent.frames <= MaxFrames, UNCHANGED spent
  PROVE  Counts(spent, spent')
BY DEF Counts, Budget

LEMMA CostsCounts ==
  ASSUME spent \in [Budget -> Nat], spent.frames <= MaxFrames, NEW k \in {"late", "fails"}, NEW harmless \in BOOLEAN,
         Costs(k, harmless)
  PROVE  /\ Counts(spent, spent')
         /\ spent'.frames = spent.frames /\ spent'.starts = spent.starts
         /\ k = "late" /\ spent'.late = 0 => harmless
<1>1. CASE harmless
  BY <1>1, SpentStays DEF Costs
<1>2. CASE ~harmless
  BY <1>2, SpendCounts DEF Costs, Budget
<1> QED
  BY <1>1, <1>2

LEMMA TypeParts ==
  ASSUME WellTyped
  PROVE  /\ spent \in [Budget -> Nat] /\ spent.frames <= MaxFrames
         /\ backend \in Backend /\ daemon \in Daemon /\ IsFiniteSet(daemon.voxels)
         /\ workers \in Seq(Worker) /\ eyes \in Seq(Eye) /\ trackers \in Seq(Tracker)
         /\ server \in Server /\ server.todo \in AllSteps /\ mark \in Nat
         /\ ui \in Ui /\ client \in Seq(Place) /\ due \subseteq Place
         /\ bridge \in {"READY", "CAPTURING", "STOPPED"}
         /\ kind \in Kinds /\ model \in {"loading", "loaded", "failed"}
BY DEF WellTyped, TypeOK, Budget

LEMMA TypesOf ==
  ASSUME spent \in [Budget -> Nat], spent.frames <= MaxFrames,
         backend \in Backend, daemon \in Daemon, IsFiniteSet(daemon.voxels),
         workers \in Seq(Worker), eyes \in Seq(Eye), trackers \in Seq(Tracker),
         server \in Server, server.todo \in AllSteps, mark \in Nat,
         ui \in Ui, client \in Seq(Place), due \subseteq Place,
         bridge \in {"READY", "CAPTURING", "STOPPED"},
         kind \in Kinds, model \in {"loading", "loaded", "failed"}
  PROVE  WellTyped
BY DEF WellTyped, TypeOK, Budget

\* What a step of a thread or of the server keeps.
DaemonTypes ==
  /\ Counts(spent, spent')
  /\ backend' \in Backend /\ daemon' \in Daemon /\ IsFiniteSet(daemon'.voxels)
  /\ workers' \in Seq(Worker) /\ eyes' \in Seq(Eye) /\ trackers' \in Seq(Tracker)
  /\ mark' \in Nat

LEMMA ThreadTypes ==
  ASSUME WellTyped, DaemonTypes, UNCHANGED server, kind' = kind, model' \in {"loading", "loaded", "failed"}, BridgeWaits
  PROVE  WellTyped'
<1>1. WellTyped'
  BY TypeParts DEF DaemonTypes, Counts, BridgeWaits, WellTyped, TypeOK, Budget
<1> QED
  BY <1>1

LEMMA ServerTypes ==
  ASSUME WellTyped, DaemonTypes, server' \in Server, server'.todo \in AllSteps, UNCHANGED <<kind, model>>, BridgeWaits
  PROVE  WellTyped'
BY TypeParts DEF DaemonTypes, Counts, BridgeWaits, WellTyped, TypeOK, Budget

LEMMA RecordTypes ==
  ASSUME NEW w \in Worker
  PROVE  /\ w.at \in {"wait", "grab", "scale", "step", "deliver", "promote", "done"}
         /\ w.frames \in Seq(Frame) /\ w.new \in Seq(Place) /\ w.next \in {"wait", "promote"}
BY DEF Worker

-----------------------------------------------------------------------------
(* The worker                                                               *)

LEMMA WaitingType == Waiting \in Worker
<1>1. <<>> \in Seq(Frame) /\ <<>> \in Seq(Place)
  OBVIOUS
<1> QED
  BY <1>1 DEF Waiting, Worker

\* The i-th worker becomes w; the engine goes on running, or not, as before.
WorkerBecomes(i, w) ==
  /\ w \in Worker /\ workers' \in Seq(Worker) /\ Put(workers, workers', i, w)

LEMMA WorkerPut ==
  ASSUME WellTyped, NEW i \in 1..Len(workers), NEW w \in Worker, workers' = [workers EXCEPT ![i] = w]
  PROVE  WorkerBecomes(i, w)
BY TypeParts, PutIs DEF WorkerBecomes

LEMMA WorkerAtPut ==
  ASSUME WellTyped, NEW i \in 1..Len(workers), NEW at \in {"wait", "grab", "scale", "step", "deliver", "promote", "done"},
         WorkerAt(i, at)
  PROVE  \E w : WorkerBecomes(i, w) /\ w = [workers[i] EXCEPT !.at = at]
<1>1. PICK w : w = [workers[i] EXCEPT !.at = at]
  OBVIOUS
<1>2. workers[i] \in Worker
  BY TypeParts
<1>3. w \in Worker
  BY <1>1, <1>2 DEF Worker
<1>4. workers' = [workers EXCEPT ![i] = w]
  BY <1>1 DEF WorkerAt
<1> QED
  BY <1>1, <1>3, <1>4, WorkerPut, Zenon

LEMMA WaitMoves ==
  ASSUME WellTyped, NEW i \in 1..Len(workers), WorkerWait(i)
  PROVE  \E w : WorkerBecomes(i, w) /\ w.at = (IF backend.running THEN "grab" ELSE "done") /\ w.new = workers[i].new
                /\ w.frames = workers[i].frames /\ w.next = workers[i].next
<1>1. PICK at : at = IF backend.running THEN "grab" ELSE "done"
  OBVIOUS
<1>2. PICK w : WorkerBecomes(i, w) /\ w = [workers[i] EXCEPT !.at = at]
  BY <1>1, WorkerAtPut DEF WorkerWait
<1>3. workers[i] \in Worker
  BY TypeParts
<1> QED
  BY <1>1, <1>2, <1>3 DEF Worker

\* What the engine keeps while a worker takes a frame.
SameEngine(b, c) ==
  /\ c.running = b.running /\ c.voxels = b.voxels /\ c.served = b.served
  /\ c.buffer = b.buffer /\ c.path = b.path

WorkerGrabs(i, w) ==
  /\ WorkerBecomes(i, w) /\ w.new = workers[i].new
  /\ w.at \in {"wait", "step", "scale"}
  /\ backend' \in Backend /\ SameEngine(backend, backend')
  /\ w.at = "scale" => kind # "ABOT" /\ w.frames = backend'.scale

LEMMA GrabMoves ==
  ASSUME WellTyped, NEW i \in 1..Len(workers), WorkerGrab(i)
  PROVE  \E w : WorkerGrabs(i, w)
<1>1. workers[i] \in Worker /\ backend \in Backend
  BY TypeParts
<1>2. CASE backend.slot = None
  <2>1. PICK w : WorkerBecomes(i, w) /\ w = [workers[i] EXCEPT !.at = "wait"]
    BY <1>2, WorkerAtPut DEF WorkerGrab
  <2>2. backend' = backend
    BY <1>2 DEF WorkerGrab
  <2>3. w.at = "wait" /\ w.new = workers[i].new
    BY <1>1, <2>1 DEF Worker
  <2>4. WorkerGrabs(i, w)
    BY <1>1, <2>1, <2>2, <2>3 DEF WorkerGrabs, SameEngine
  <2> QED
    BY <2>4
<1>3. CASE backend.slot # None
  <2>1. PICK f : f = backend.slot
    OBVIOUS
  <2>2. f \in Frame
    BY <1>1, <1>3, <2>1 DEF Backend
  <2>3. PICK b : b = Grab(backend)
    OBVIOUS
  <2>4. b \in Backend /\ SameEngine(backend, b) /\ b.scale = backend.scale /\ b.scale \in Seq(Frame)
    BY <1>1, <2>3 DEF Grab, Backend, SameEngine
  <2>5. Take(i, b, f)
    BY <1>3, <2>1, <2>3 DEF WorkerGrab
  <2>6. CASE kind = "ABOT" \/ b.state = "STREAMING"
    <3>1. backend' = b /\ workers' = [workers EXCEPT ![i].at = "step", ![i].frames = <<f>>]
      BY <2>5, <2>6, Zenon DEF Take
    <3>2. PICK w : w = [workers[i] EXCEPT !.at = "step", !.frames = <<f>>]
      OBVIOUS
    <3>3. <<f>> \in Seq(Frame)
      BY <2>2
    <3>4. w \in Worker /\ w.at = "step" /\ w.new = workers[i].new
      BY <1>1, <3>2, <3>3 DEF Worker
    <3>5. workers \in Seq(Worker)
      BY TypeParts
    <3>6. workers' = [workers EXCEPT ![i] = w]
      BY <3>1, <3>2, <3>5
    <3>7. WorkerGrabs(i, w)
      BY <2>4, <3>1, <3>4, <3>6, WorkerPut DEF WorkerGrabs
    <3> QED
      BY <3>7
  <2>7. CASE ~(kind = "ABOT" \/ b.state = "STREAMING") /\ b.state = "ACCUMULATING_SCALE_FRAMES"
    <3>1. PICK scale : scale = Append(b.scale, f)
      OBVIOUS
    <3>2. scale \in Seq(Frame)
      BY <2>2, <2>4, <3>1
    <3>3. /\ backend' = [b EXCEPT !.scale = scale]
          /\ IF Len(scale) >= NumScaleFrames
             THEN workers' = [workers EXCEPT ![i].at = "scale", ![i].frames = scale]
             ELSE WorkerAt(i, "wait")
      BY <2>5, <2>7, <3>1, Zenon DEF Take
    <3>4. backend' \in Backend /\ SameEngine(backend, backend') /\ backend'.scale = scale
      BY <2>4, <3>2, <3>3 DEF Backend, SameEngine
    <3>5. CASE Len(scale) >= NumScaleFrames
      <4>1. PICK w : w = [workers[i] EXCEPT !.at = "scale", !.frames = scale]
        OBVIOUS
      <4>2. w \in Worker /\ w.at = "scale" /\ w.new = workers[i].new /\ w.frames = scale
        BY <1>1, <3>2, <4>1 DEF Worker
      <4>3. workers \in Seq(Worker)
        BY TypeParts
      <4>4. workers' = [workers EXCEPT ![i].at = "scale", ![i].frames = scale]
        BY <3>3, <3>5, Zenon
      <4>5. workers' = [workers EXCEPT ![i] = w]
        BY <4>1, <4>3, <4>4
      <4>6. WorkerGrabs(i, w)
        BY <2>7, <3>4, <4>2, <4>5, WorkerPut DEF WorkerGrabs
      <4> QED
        BY <4>6
    <3>6. CASE ~(Len(scale) >= NumScaleFrames)
      <4>1. WorkerAt(i, "wait")
        BY <3>3, <3>6, Zenon
      <4>2. PICK w : WorkerBecomes(i, w) /\ w = [workers[i] EXCEPT !.at = "wait"]
        BY <4>1, WorkerAtPut
      <4>3. w.at = "wait" /\ w.new = workers[i].new
        BY <1>1, <4>2 DEF Worker
      <4>4. WorkerGrabs(i, w)
        BY <3>4, <4>2, <4>3 DEF WorkerGrabs
      <4> QED
        BY <4>4
    <3> QED
      BY <3>5, <3>6
  <2>8. CASE ~(kind = "ABOT" \/ b.state = "STREAMING") /\ b.state # "ACCUMULATING_SCALE_FRAMES"
    <3>1. backend' = b /\ WorkerAt(i, "wait")
      BY <2>5, <2>8, Zenon DEF Take
    <3>2. PICK w : WorkerBecomes(i, w) /\ w = [workers[i] EXCEPT !.at = "wait"]
      BY <3>1, WorkerAtPut
    <3>3. w.at = "wait" /\ w.new = workers[i].new
      BY <1>1, <3>2 DEF Worker
    <3>4. WorkerGrabs(i, w)
      BY <2>4, <3>1, <3>2, <3>3 DEF WorkerGrabs
    <3> QED
      BY <3>4
  <2> QED
    BY <2>6, <2>7, <2>8
<1> QED
  BY <1>2, <1>3

\* What a prediction does to the engine.
Predicts(b, c) ==
  /\ c \in Backend
  /\ c.running = b.running /\ c.state = b.state /\ c.slot = b.slot /\ c.scale = b.scale /\ c.served = b.served
  /\ Grown(b.voxels, c.voxels)

LEMMA LingBotPredicts ==
  ASSUME NEW b \in Backend, NEW frames \in Seq(Frame), NEW stamps \in Seq(Frame), NEW c,
         c = LingBotProcess(b, frames, stamps)
  PROVE  Predicts(b, c) /\ c.buffer = b.buffer
<1>1. PICK k, f, s : Clocked(frames, stamps, k, f, s) /\ \A d : LingBotProcess(d, frames, stamps) = Processed(d, f, s)
  BY KnownPart, Zenon
<1>2. f \in Seq(Frame) /\ s \in Seq(Frame) /\ b.voxels \in Seq(Place)
  BY <1>1 DEF Clocked, First, Backend
<1>3. PICK v : v = Inserted(b.voxels, f)
  OBVIOUS
<1>4. PICK p : p = b.path \o Numbers(s)
  OBVIOUS
<1>5. c = [b EXCEPT !.path = p, !.voxels = v]
  BY <1>1, <1>3, <1>4, Zenon DEF Processed
<1>6. c \in Backend
  BY LingBotProcessType
<1>7. Grown(b.voxels, v)
  BY <1>2, <1>3, InsertedGrows
<1>8. /\ c.running = b.running /\ c.state = b.state /\ c.slot = b.slot /\ c.scale = b.scale /\ c.served = b.served
      /\ c.voxels = v /\ c.buffer = b.buffer
  BY <1>5 DEF Backend
<1> QED
  BY <1>6, <1>7, <1>8 DEF Predicts

LEMMA ABotPredicts ==
  ASSUME NEW b \in Backend, NEW frames \in Seq(Frame), NEW c, c = ABotProcess(b, frames)
  PROVE  /\ Predicts(b, c)
         /\ \E r : r = Beyond(c.voxels, b.voxels) /\ r \in Seq(Place) /\ c.buffer = b.buffer \o r
<1>1. PICK v, r, n : /\ v = Inserted(b.voxels, frames) /\ Grown(b.voxels, v)
                     /\ r = Beyond(v, b.voxels) /\ r \in Seq(Place)
                     /\ n = Numbers(frames) /\ n \in Seq(Nat)
                     /\ ABotProcess(b, frames) = ABotStored(b, v, r, n)
  BY ABotProcessIs, Zenon
<1>2. PICK p : p = b.path \o n
  OBVIOUS
<1>3. PICK q : q = b.buffer \o r
  OBVIOUS
<1>4. c = [b EXCEPT !.path = p, !.voxels = v, !.buffer = q]
  BY <1>1, <1>2, <1>3, Zenon DEF ABotStored
<1>5. c \in Backend
  BY ABotProcessType
<1>6. /\ c.running = b.running /\ c.state = b.state /\ c.slot = b.slot /\ c.scale = b.scale /\ c.served = b.served
      /\ c.voxels = v /\ c.buffer = q
  BY <1>4 DEF Backend
<1> QED
  BY <1>1, <1>3, <1>5, <1>6 DEF Predicts

\* A worker stores what it predicted, and goes to "next", by way of the daemon
\* if there are new voxels and the daemon wants them.
WorkerStores(i, w, next) ==
  /\ WorkerBecomes(i, w) /\ w.frames = <<>> /\ w.next = next
  /\ w.new = IF kind = "VITURE" THEN Beyond(backend'.voxels, backend.voxels) ELSE <<>>
  /\ w.at = IF w.new # <<>> THEN "deliver" ELSE next

LEMMA BeyondType ==
  ASSUME NEW v \in Seq(Place), NEW w \in Seq(Place), NEW r, r = Beyond(w, v)
  PROVE  r \in Seq(Place)
<1>1. PICK m \in Nat \ {0} : m = Len(v) + 1
  OBVIOUS
<1>2. r = SubSeq(w, m, Len(w))
  BY <1>1 DEF Beyond
<1> QED
  BY <1>2, SliceType

LEMMA StoredMoves ==
  ASSUME WellTyped, NEW i \in 1..Len(workers), NEW b \in Backend, NEW next \in {"wait", "promote"}, Stored(i, b, next)
  PROVE  backend' = b /\ \E w : WorkerStores(i, w, next)
<1>1. PICK new : new = IF kind = "VITURE" THEN Beyond(b.voxels, backend.voxels) ELSE <<>>
  OBVIOUS
<1>2. new \in Seq(Place)
  <2>1. b.voxels \in Seq(Place) /\ backend.voxels \in Seq(Place)
    BY TypeParts DEF Backend
  <2>2. CASE kind = "VITURE"
    BY <1>1, <2>1, <2>2, BeyondType
  <2>3. CASE kind # "VITURE"
    BY <1>1, <2>3
  <2> QED
    BY <2>2, <2>3
<1>3. PICK at : at = IF new # <<>> THEN "deliver" ELSE next
  OBVIOUS
<1>4. /\ backend' = b
      /\ workers' = [workers EXCEPT ![i] = [Waiting EXCEPT !.at = at, !.new = new, !.next = next]]
  BY <1>1, <1>3, Zenon DEF Stored
<1>5. PICK w : w = [Waiting EXCEPT !.at = at, !.new = new, !.next = next]
  OBVIOUS
<1>6. w = [at |-> at, frames |-> <<>>, new |-> new, next |-> next]
  BY <1>5, Zenon DEF Waiting
<1>7. at \in {"wait", "promote", "deliver"}
  BY <1>3
<1>8. <<>> \in Seq(Frame)
  OBVIOUS
<1>9. w \in Worker /\ w.frames = <<>> /\ w.next = next /\ w.new = new /\ w.at = at
  BY <1>2, <1>6, <1>7, <1>8 DEF Worker
<1>10. workers' = [workers EXCEPT ![i] = w]
  BY <1>4, <1>5
<1>11. WorkerBecomes(i, w)
  BY <1>9, <1>10, WorkerPut
<1>12. WorkerStores(i, w, next)
  BY <1>1, <1>3, <1>4, <1>9, <1>11, Zenon DEF WorkerStores
<1> QED
  BY <1>4, <1>12

\* The scale pass: with frames that another start has taken from the list, it
\* ends the thread.
ScalePassEnds(i, w) ==
  /\ WorkerBecomes(i, w) /\ w.at = "done" /\ w.new = workers[i].new
  /\ ~(Len(workers[i].frames) <= Len(backend.scale))

LEMMA ScaleMoves ==
  ASSUME WellTyped, NEW i \in 1..Len(workers), ExecuteScalePass(i)
  PROVE  /\ Predicts(backend, backend') /\ backend'.buffer = backend.buffer
         /\ \E w : WorkerStores(i, w, "promote") \/ ScalePassEnds(i, w)
<1>1. workers[i] \in Worker /\ backend \in Backend
  BY TypeParts
<1>2. PICK frames \in Seq(Frame) : frames = workers[i].frames
  BY <1>1 DEF Worker
<1>3. PICK stamps \in Seq(Frame) : stamps = backend.scale
  BY <1>1 DEF Backend
<1>4. PICK c : c = LingBotProcess(backend, frames, stamps)
  OBVIOUS
<1>5. Predicts(backend, c) /\ c.buffer = backend.buffer
  BY <1>1, <1>4, LingBotPredicts
<1>6. CASE Len(frames) <= Len(stamps)
  <2>1. Stored(i, c, "promote")
    BY <1>2, <1>3, <1>4, <1>6, Zenon DEF ExecuteScalePass
  <2>2. backend' = c /\ \E w : WorkerStores(i, w, "promote")
    BY <1>5, <2>1, StoredMoves DEF Predicts
  <2> QED
    BY <1>5, <2>2
<1>7. CASE ~(Len(frames) <= Len(stamps))
  <2>1. backend' = c /\ WorkerAt(i, "done")
    BY <1>2, <1>3, <1>4, <1>7, Zenon DEF ExecuteScalePass
  <2>2. PICK w : WorkerBecomes(i, w) /\ w = [workers[i] EXCEPT !.at = "done"]
    BY <2>1, WorkerAtPut
  <2>3. w.at = "done" /\ w.new = workers[i].new
    BY <1>1, <2>2 DEF Worker
  <2>4. ScalePassEnds(i, w)
    BY <1>2, <1>3, <1>7, <2>2, <2>3 DEF ScalePassEnds
  <2> QED
    BY <1>5, <2>1, <2>4
<1> QED
  BY <1>6, <1>7

LEMMA StepMoves ==
  ASSUME WellTyped, NEW i \in 1..Len(workers), ExecuteStreamingStep(i)
  PROVE  /\ Predicts(backend, backend') /\ backend'.buffer = backend.buffer
         /\ \E w : WorkerStores(i, w, "wait")
<1>1. workers[i] \in Worker /\ backend \in Backend
  BY TypeParts
<1>2. PICK frames \in Seq(Frame) : frames = workers[i].frames
  BY <1>1 DEF Worker
<1>3. PICK c : c = LingBotProcess(backend, frames, frames)
  OBVIOUS
<1>4. Predicts(backend, c) /\ c.buffer = backend.buffer
  BY <1>1, <1>3, LingBotPredicts
<1>5. Stored(i, c, "wait")
  BY <1>2, <1>3, Zenon DEF ExecuteStreamingStep
<1>6. backend' = c /\ \E w : WorkerStores(i, w, "wait")
  BY <1>4, <1>5, StoredMoves DEF Predicts
<1> QED
  BY <1>4, <1>6

LEMMA ABotStepMoves ==
  ASSUME WellTyped, NEW i \in 1..Len(workers), ABotStreamingStep(i)
  PROVE  /\ Predicts(backend, backend')
         /\ \E r : r = Beyond(backend'.voxels, backend.voxels) /\ r \in Seq(Place) /\ backend'.buffer = backend.buffer \o r
         /\ \E w : WorkerStores(i, w, "wait")
<1>1. workers[i] \in Worker /\ backend \in Backend
  BY TypeParts
<1>2. PICK frames \in Seq(Frame) : frames = workers[i].frames
  BY <1>1 DEF Worker
<1>3. PICK c : c = ABotProcess(backend, frames)
  OBVIOUS
<1>4. Predicts(backend, c) /\ \E r : r = Beyond(c.voxels, backend.voxels) /\ r \in Seq(Place) /\ c.buffer = backend.buffer \o r
  BY <1>1, <1>3, ABotPredicts
<1>5. Stored(i, c, "wait")
  BY <1>2, <1>3, Zenon DEF ABotStreamingStep
<1>6. backend' = c /\ \E w : WorkerStores(i, w, "wait")
  BY <1>4, <1>5, StoredMoves DEF Predicts
<1> QED
  BY <1>4, <1>6

LEMMA FailMoves ==
  ASSUME WellTyped, NEW i \in 1..Len(workers), WorkerFail(i)
  PROVE  /\ backend' = backend
         /\ \E w : WorkerBecomes(i, w) /\ w.at = (IF kind = "ABOT" THEN "wait" ELSE "done") /\ w.new = <<>> /\ w.frames = <<>>
<1>1. PICK at : at = IF kind = "ABOT" THEN "wait" ELSE "done"
  OBVIOUS
<1>2. PICK w : w = [Waiting EXCEPT !.at = at]
  OBVIOUS
<1>3. w \in Worker /\ w.at = at /\ w.new = <<>> /\ w.frames = <<>>
  <2>1. w = [at |-> at, frames |-> <<>>, new |-> <<>>, next |-> "wait"]
    BY <1>2, Zenon DEF Waiting
  <2>2. at \in {"wait", "done"} /\ <<>> \in Seq(Frame) /\ <<>> \in Seq(Place)
    BY <1>1
  <2> QED
    BY <2>1, <2>2 DEF Worker
<1>4. backend' = backend /\ workers' = [workers EXCEPT ![i] = w]
  BY <1>1, <1>2, Zenon DEF WorkerFail
<1> QED
  BY <1>1, <1>3, <1>4, WorkerPut, Zenon

LEMMA PromoteMoves ==
  ASSUME WellTyped, NEW i \in 1..Len(workers), WorkerPromote(i)
  PROVE  /\ backend' = [backend EXCEPT !.state = "STREAMING"] /\ backend' \in Backend
         /\ SameEngine(backend, backend')
         /\ WorkerBecomes(i, Waiting)
<1>1. backend \in Backend /\ backend' = [backend EXCEPT !.state = "STREAMING"]
  BY TypeParts DEF WorkerPromote
<1>2. WorkerBecomes(i, Waiting)
  BY WaitingType, WorkerPut DEF WorkerPromote
<1> QED
  BY <1>1, <1>2 DEF Backend, SameEngine

LEMMA DeliverMoves ==
  ASSUME WellTyped, NEW i \in 1..Len(workers), OnLingbotPoints(i)
  PROVE  /\ \E w : WorkerBecomes(i, w) /\ w.at = workers[i].next /\ w.new = <<>>
         /\ daemon' = [daemon EXCEPT !.buffer = @ \o workers[i].new, !.voxels = @ \cup ToSet(workers[i].new)]
         /\ daemon' \in Daemon /\ IsFiniteSet(daemon'.voxels)
<1>1. PICK new : new = workers[i].new
  OBVIOUS
<1>2. PICK next : next = workers[i].next
  OBVIOUS
<1>3. new \in Seq(Place) /\ next \in {"wait", "promote"}
  <2>1. workers[i] \in Worker
    BY TypeParts
  <2> QED
    BY <1>1, <1>2, <2>1, RecordTypes
<1>4. PICK w : w = [Waiting EXCEPT !.at = next, !.next = next]
  OBVIOUS
<1>5. w \in Worker /\ w.at = next /\ w.new = <<>>
  <2>1. w = [at |-> next, frames |-> <<>>, new |-> <<>>, next |-> next]
    BY <1>4, Zenon DEF Waiting
  <2>2. <<>> \in Seq(Frame) /\ <<>> \in Seq(Place)
    OBVIOUS
  <2> QED
    BY <1>3, <2>1, <2>2 DEF Worker
<1>6. workers' = [workers EXCEPT ![i] = w]
  BY <1>2, <1>4, Zenon DEF OnLingbotPoints
<1>7. daemon' = [daemon EXCEPT !.buffer = @ \o new, !.voxels = @ \cup ToSet(new)]
  BY <1>1, Zenon DEF OnLingbotPoints
<1>8. daemon \in Daemon /\ IsFiniteSet(daemon.voxels)
  BY TypeParts
<1>9. daemon.buffer \in Seq(Place) /\ daemon.voxels \subseteq Place
  BY <1>8 DEF Daemon
<1>10. PICK b : b = daemon.buffer \o new
  OBVIOUS
<1>11. b \in Seq(Place)
  BY <1>3, <1>9, <1>10, ConcatIs
<1>12. PICK v : v = daemon.voxels \cup ToSet(new)
  OBVIOUS
<1>13. v \subseteq Place /\ IsFiniteSet(v)
  <2>1. ToSet(new) = {new[j] : j \in 1..Len(new)}
    BY <1>3 DEF ToSet
  <2>2. IsFiniteSet(ToSet(new))
    <3>1. Len(new) \in Nat
      BY <1>3
    <3>2. IsFiniteSet(1..Len(new))
      BY <3>1, FS_Interval
    <3>3. PICK f : f = [j \in 1..Len(new) |-> new[j]]
      OBVIOUS
    <3>4. ToSet(new) = {f[j] : j \in 1..Len(new)}
      BY <2>1, <3>3
    <3>5. f \in Surjection(1..Len(new), ToSet(new))
      BY <3>3, <3>4 DEF Surjection
    <3> QED
      BY <3>2, <3>5, FS_Surjection
  <2>3. ToSet(new) \subseteq Place
    BY <1>3, <2>1
  <2> QED
    BY <1>8, <1>9, <1>12, <2>2, <2>3, FS_Union
<1>14. daemon' = [daemon EXCEPT !.buffer = b, !.voxels = v]
  BY <1>7, <1>10, <1>12
<1>15. daemon' \in Daemon /\ daemon'.voxels = v
  BY <1>8, <1>11, <1>13, <1>14 DEF Daemon
<1>16. WorkerBecomes(i, w)
  BY <1>5, <1>6, WorkerPut
<1> QED
  BY <1>1, <1>2, <1>5, <1>7, <1>13, <1>15, <1>16

LEMMA WorkerTypes ==
  ASSUME WellTyped, NEW i \in 1..Len(workers),
         \/ StreamingLoop(i) \/ NetworkFails(i) \/ OnLingbotPoints(i)
  PROVE  DaemonTypes
<1>1. /\ UNCHANGED <<eyes, trackers, mark>>
      /\ spent' = spent \/ Spend("fails")
  BY DEF StreamingLoop, NetworkFails, OnLingbotPoints
<1>2. Counts(spent, spent')
  BY <1>1, TypeParts, SpentStays, SpendCounts DEF Budget
<1>3. CASE OnLingbotPoints(i)
  <2>1. workers' \in Seq(Worker) /\ daemon' \in Daemon /\ IsFiniteSet(daemon'.voxels) /\ backend' = backend
    BY <1>3, DeliverMoves DEF WorkerBecomes, OnLingbotPoints
  <2> QED
    BY <1>1, <1>2, <2>1, TypeParts DEF DaemonTypes
<1>4. CASE StreamingLoop(i) \/ NetworkFails(i)
  <2>1. daemon' = daemon
    BY <1>4 DEF StreamingLoop, NetworkFails
  <2>2. workers' \in Seq(Worker) /\ backend' \in Backend
    <3>1. CASE WorkerWait(i)
      BY <3>1, WaitMoves, TypeParts DEF WorkerBecomes, WorkerWait
    <3>2. CASE WorkerGrab(i)
      BY <3>2, GrabMoves DEF WorkerBecomes, WorkerGrabs
    <3>3. CASE WorkerPromote(i)
      BY <3>3, PromoteMoves DEF WorkerBecomes
    <3>4. CASE ExecuteScalePass(i)
      BY <3>4, ScaleMoves DEF WorkerBecomes, WorkerStores, ScalePassEnds, Predicts
    <3>5. CASE ExecuteStreamingStep(i)
      BY <3>5, StepMoves DEF WorkerBecomes, WorkerStores, Predicts
    <3>6. CASE ABotStreamingStep(i)
      BY <3>6, ABotStepMoves DEF WorkerBecomes, WorkerStores, Predicts
    <3>7. CASE WorkerFail(i)
      BY <3>7, FailMoves, TypeParts DEF WorkerBecomes
    <3> QED
      BY <1>4, <3>1, <3>2, <3>3, <3>4, <3>5, <3>6, <3>7 DEF StreamingLoop, NetworkFails
  <2> QED
    BY <1>1, <1>2, <2>1, <2>2, TypeParts DEF DaemonTypes
<1> QED
  BY <1>3, <1>4

-----------------------------------------------------------------------------
(* The camera thread                                                        *)

EyeAts == {"enter", "model", "reset", "start", "check", "read", "done"}
EyeBecomes(i, e) == e \in Eye /\ eyes' \in Seq(Eye) /\ Put(eyes, eyes', i, e)

LEMMA EyePut ==
  ASSUME WellTyped, NEW i \in 1..Len(eyes), NEW e \in Eye, eyes' = [eyes EXCEPT ![i] = e]
  PROVE  EyeBecomes(i, e)
BY TypeParts, PutIs DEF EyeBecomes

LEMMA EyeAtPut ==
  ASSUME WellTyped, NEW i \in 1..Len(eyes), NEW at \in EyeAts, EyeAt(i, at)
  PROVE  \E e : EyeBecomes(i, e) /\ e.at = at /\ e.open = eyes[i].open
<1>1. PICK e : e = [eyes[i] EXCEPT !.at = at]
  OBVIOUS
<1>2. eyes[i] \in Eye
  BY TypeParts
<1>3. e \in Eye /\ e.at = at /\ e.open = eyes[i].open
  BY <1>1, <1>2 DEF Eye, EyeAts
<1>4. eyes' = [eyes EXCEPT ![i] = e]
  BY <1>1 DEF EyeAt
<1> QED
  BY <1>3, <1>4, EyePut, Zenon

LEMMA EnterMoves ==
  ASSUME WellTyped, NEW i \in 1..Len(eyes), EyeEnter(i)
  PROVE  /\ Counts(spent, spent') /\ UNCHANGED <<backend, daemon, workers, mark>>
         /\ \E e : EyeBecomes(i, e) /\ e.at \in {"model", "done"}
<1>1. PICK opened \in BOOLEAN :
        /\ Costs("fails", opened = daemon.hardware)
        /\ eyes' = [eyes EXCEPT ![i] = [at |-> IF opened THEN "model" ELSE "done", open |-> opened]]
  BY DEF EyeEnter
<1>2. PICK at : at = IF opened THEN "model" ELSE "done"
  OBVIOUS
<1>3. PICK e : e = [at |-> at, open |-> opened]
  OBVIOUS
<1>4. at \in {"model", "done"}
  BY <1>2
<1>5. e \in Eye /\ e.at = at
  BY <1>3, <1>4 DEF Eye
<1>6. eyes' = [eyes EXCEPT ![i] = e]
  BY <1>1, <1>2, <1>3, Zenon
<1>7. PICK harmless \in BOOLEAN : harmless = (opened = daemon.hardware)
  OBVIOUS
<1>8. Costs("fails", harmless)
  BY <1>1, <1>7, Zenon
<1>9. Counts(spent, spent')
  BY <1>8, CostsCounts, TypeParts
<1>10. EyeBecomes(i, e)
  BY <1>5, <1>6, EyePut
<1> QED
  BY <1>4, <1>5, <1>9, <1>10 DEF EyeEnter

LEMMA ModelMoves ==
  ASSUME WellTyped, NEW i \in 1..Len(eyes), EyeModel(i)
  PROVE  /\ Counts(spent, spent') /\ UNCHANGED <<backend, daemon, workers, mark>>
         /\ \E e : /\ EyeBecomes(i, e)
                   /\ \/ e.at = "check" /\ spent'.late # 0
                      \/ e.at = "reset" /\ UNCHANGED spent
<1>1. CASE model = "loading"
  <2>1. Spend("late") /\ EyeAt(i, "check")
    BY <1>1 DEF EyeModel
  <2>2. PICK e : EyeBecomes(i, e) /\ e.at = "check"
    BY <2>1, EyeAtPut DEF EyeAts
  <2>3. Counts(spent, spent') /\ spent'.late # 0
    BY <2>1, SpendCounts, TypeParts DEF Budget
  <2> QED
    BY <2>2, <2>3 DEF EyeModel
<1>2. CASE model # "loading"
  <2>1. UNCHANGED spent /\ EyeAt(i, "reset")
    BY <1>2 DEF EyeModel
  <2>2. PICK e : EyeBecomes(i, e) /\ e.at = "reset"
    BY <2>1, EyeAtPut DEF EyeAts
  <2>3. Counts(spent, spent')
    BY <2>1, SpentStays, TypeParts
  <2> QED
    BY <2>1, <2>2, <2>3 DEF EyeModel
<1> QED
  BY <1>1, <1>2

LEMMA ResetMoves ==
  ASSUME WellTyped, NEW i \in 1..Len(eyes), EyeReset(i)
  PROVE  /\ UNCHANGED <<daemon, workers, spent>> /\ backend' = LingBotReset(backend) /\ backend' \in Backend /\ mark' = 0
         /\ \E e : EyeBecomes(i, e) /\ e.at = "start"
<1>1. EyeAt(i, "start")
  BY DEF EyeReset
<1>2. PICK e : EyeBecomes(i, e) /\ e.at = "start"
  BY <1>1, EyeAtPut DEF EyeAts
<1>3. LingBotReset(backend) \in Backend
  BY StartsType, TypeParts
<1> QED
  BY <1>2, <1>3 DEF EyeReset

\* A start of the engine: nothing, or a new worker.
EngineGoes ==
  /\ ~backend.running /\ backend'.running
  /\ backend' = IF kind = "ABOT" THEN ABotStart(backend) ELSE LingBotStart(backend)
  /\ workers' \in Seq(Worker) /\ Adds(workers, workers', Waiting)
  /\ mark' = Len(backend'.voxels)

LEMMA EngineMoves ==
  ASSUME WellTyped, EngineStart
  PROVE  /\ backend' \in Backend /\ mark' \in Nat /\ workers' \in Seq(Worker)
         /\ \/ ~EngineStarts /\ UNCHANGED <<backend, workers, mark>>
            \/ EngineStarts /\ EngineGoes
<1>1. CASE ~EngineStarts
  BY <1>1, TypeParts DEF EngineStart
<1>2. CASE EngineStarts
  <2>1. /\ backend' = IF kind = "ABOT" THEN ABotStart(backend) ELSE LingBotStart(backend)
        /\ workers' = Append(workers, Waiting)
        /\ mark' = Len(backend'.voxels)
    BY <1>2 DEF EngineStart
  <2>2. backend' \in Backend
    BY <2>1, StartsType, TypeParts
  <2>3. workers' \in Seq(Worker) /\ Adds(workers, workers', Waiting)
    BY <2>1, AddsIs, TypeParts, WaitingType
  <2>4. mark' \in Nat
    BY <2>1, <2>2 DEF Backend
  <2>5. ~backend.running /\ backend'.running
    BY <1>2, <2>1, TypeParts DEF EngineStarts, ABotStart, LingBotStart, Backend
  <2> QED
    BY <1>2, <2>1, <2>2, <2>3, <2>4, <2>5 DEF EngineGoes
<1> QED
  BY <1>1, <1>2

LEMMA NextWorkerType ==
  ASSUME WellTyped PROVE NextWorker \in Nat
<1>1. Len(workers) \in Nat /\ daemon.worker \in Nat
  BY TypeParts DEF Daemon
<1> QED
  BY <1>1 DEF NextWorker

\* What most steps do not touch.
SameFlags(d, e) ==
  /\ e.running = d.running /\ e.capturing = d.capturing /\ e.camera = d.camera /\ e.hardware = d.hardware
  /\ e.eye = d.eye /\ e.tracker = d.tracker

LEMMA EngineDaemon ==
  ASSUME WellTyped, daemon' = [daemon EXCEPT !.worker = NextWorker]
  PROVE  /\ daemon' \in Daemon /\ SameFlags(daemon, daemon') /\ daemon'.worker = NextWorker
         /\ daemon'.voxels = daemon.voxels /\ daemon'.buffer = daemon.buffer
BY NextWorkerType, TypeParts DEF Daemon, SameFlags

LEMMA StartMoves ==
  ASSUME WellTyped, NEW i \in 1..Len(eyes), EyeStart(i)
  PROVE  /\ UNCHANGED spent
         /\ EngineStart
         /\ daemon' = [daemon EXCEPT !.worker = NextWorker]
         /\ \E e : EyeBecomes(i, e) /\ e.at = "check"
<1>1. PICK e : EyeBecomes(i, e) /\ e.at = "check"
  BY EyeAtPut DEF EyeStart, EyeAts
<1> QED
  BY <1>1 DEF EyeStart

LEMMA CheckMoves ==
  ASSUME WellTyped, NEW i \in 1..Len(eyes), EyeCheck(i)
  PROVE  /\ UNCHANGED <<backend, daemon, workers, mark, spent>>
         /\ \E e : EyeBecomes(i, e) /\ e.at = IF Recording THEN "read" ELSE "done"
<1>1. CASE ~Recording
  <2>1. PICK e : e = [at |-> "done", open |-> FALSE]
    OBVIOUS
  <2>2. e \in Eye /\ e.at = "done"
    BY <2>1 DEF Eye
  <2>3. eyes' = [eyes EXCEPT ![i] = e]
    BY <1>1, <2>1 DEF EyeCheck
  <2>4. EyeBecomes(i, e)
    BY <2>2, <2>3, EyePut
  <2> QED
    BY <1>1, <2>2, <2>4 DEF EyeCheck
<1>2. CASE Recording
  <2>1. EyeAt(i, "read")
    BY <1>2 DEF EyeCheck
  <2>2. PICK e : EyeBecomes(i, e) /\ e.at = "read"
    BY <2>1, EyeAtPut DEF EyeAts
  <2> QED
    BY <1>2, <2>2 DEF EyeCheck
<1> QED
  BY <1>1, <1>2

\* A frame, as it goes to the slot.
FrameTaken(f) ==
  /\ f \in Frame /\ f.n = spent.frames + 1 /\ f.n = spent'.frames
  /\ backend' = IF kind = "ABOT" THEN ABotPush(backend, f) ELSE LingBotFeed(backend, f)

LEMMA ReadMoves ==
  ASSUME WellTyped, NEW i \in 1..Len(eyes), EyeRead(i)
  PROVE  /\ UNCHANGED <<daemon, workers, mark>> /\ Counts(spent, spent')
         /\ \/ UNCHANGED <<backend, spent>>
            \/ spent'.late = spent.late /\ \E f : FrameTaken(f)
         /\ backend' \in Backend /\ SameEngine(backend, backend')
         /\ \E e : EyeBecomes(i, e) /\ e.at = "check"
<1>1. PICK e : EyeBecomes(i, e) /\ e.at = "check"
  BY EyeAtPut DEF EyeRead, EyeAts
<1>2. UNCHANGED <<daemon, workers, mark>>
  BY DEF EyeRead
<1>3. CASE UNCHANGED <<backend, spent>>
  <2>1. backend' \in Backend /\ SameEngine(backend, backend') /\ Counts(spent, spent')
    BY <1>3, TypeParts, SpentStays DEF SameEngine
  <2> QED
    BY <1>1, <1>2, <1>3, <2>1
<1>4. CASE ~UNCHANGED <<backend, spent>>
  <2>1. Spend("frames")
    BY <1>4 DEF EyeRead
  <2>2. Counts(spent, spent') /\ spent.frames < MaxFrames /\ spent'.frames = spent.frames + 1
    BY <2>1, SpendCounts, TypeParts DEF Budget
  <2>3. spent'.late = spent.late
    BY <2>1, TypeParts DEF Spend, Budget
  <2>4. PICK n : n = spent.frames + 1
    OBVIOUS
  <2>5. n \in 1..MaxFrames
    BY <2>2, <2>4, TypeParts, DaemonBoundsAssumption DEF Budget
  <2>6. PICK f : f = [n |-> n, place |-> View[n]]
    OBVIOUS
  <2>7. f \in Frame /\ f.n = n
    BY <2>5, <2>6, ViewAssumption DEF Frame
  <2>8. backend' = IF kind = "ABOT" THEN ABotPush(backend, f) ELSE LingBotFeed(backend, f)
    BY <1>4, <2>4, <2>6 DEF EyeRead
  <2>9. FrameTaken(f)
    BY <2>2, <2>4, <2>7, <2>8 DEF FrameTaken
  <2>10. backend' \in Backend
    BY <2>7, <2>8, FeedType, TypeParts
  <2>11. SameEngine(backend, backend')
    BY <2>8, TypeParts DEF SameEngine, ABotPush, LingBotFeed, Backend
  <2> QED
    BY <1>1, <1>2, <2>2, <2>3, <2>9, <2>10, <2>11
<1> QED
  BY <1>3, <1>4

LEMMA EyeTypes ==
  ASSUME WellTyped, NEW i \in 1..Len(eyes), CameraLoop(i)
  PROVE  DaemonTypes
<1> USE TypeParts
<1>1. UNCHANGED trackers
  BY DEF CameraLoop
<1>2. UNCHANGED spent => Counts(spent, spent')
  BY SpentStays
<1>3. CASE EyeEnter(i)
  BY <1>1, <1>3, EnterMoves DEF DaemonTypes, EyeBecomes
<1>4. CASE EyeModel(i)
  BY <1>1, <1>4, ModelMoves DEF DaemonTypes, EyeBecomes
<1>5. CASE EyeReset(i)
  BY <1>1, <1>2, <1>5, ResetMoves DEF DaemonTypes, EyeBecomes
<1>6. CASE EyeStart(i)
  BY <1>1, <1>2, <1>6, StartMoves, EngineMoves, EngineDaemon DEF DaemonTypes, EyeBecomes
<1>7. CASE EyeCheck(i)
  BY <1>1, <1>2, <1>7, CheckMoves DEF DaemonTypes, EyeBecomes
<1>8. CASE EyeRead(i)
  BY <1>1, <1>8, ReadMoves DEF DaemonTypes, EyeBecomes
<1> QED
  BY <1>3, <1>4, <1>5, <1>6, <1>7, <1>8 DEF CameraLoop

-----------------------------------------------------------------------------
(* The tracking thread                                                      *)

TrackerBecomes(i, t) == t \in Tracker /\ trackers' \in Seq(Tracker) /\ Put(trackers, trackers', i, t)

LEMMA TrackerPut ==
  ASSUME WellTyped, NEW i \in 1..Len(trackers), NEW t \in Tracker, trackers' = [trackers EXCEPT ![i] = t]
  PROVE  TrackerBecomes(i, t)
BY TypeParts, PutIs DEF TrackerBecomes

\* A voxel is found, which the daemon may have already.
VoxelFound(p, t) ==
  /\ p \in Place
  /\ t.at = "store" /\ t.new = IF p \in daemon.voxels THEN <<>> ELSE <<p>>
  /\ daemon' = [daemon EXCEPT !.voxels = @ \cup {p}]

LEMMA FindMoves ==
  ASSUME WellTyped, NEW i \in 1..Len(trackers), FindVoxels(i)
  PROVE  /\ Counts(spent, spent')
         /\ spent'.late = spent.late
         /\ daemon' \in Daemon /\ IsFiniteSet(daemon'.voxels)
         /\ \E p, t : TrackerBecomes(i, t) /\ VoxelFound(p, t)
<1>1. PICK n \in Images :
        /\ IF n > spent.frames THEN Spend("frames") ELSE UNCHANGED spent
        /\ trackers' = [trackers EXCEPT ![i] =
                         [at |-> "store", new |-> IF View[n] \in daemon.voxels THEN <<>> ELSE <<View[n]>>]]
        /\ daemon' = [daemon EXCEPT !.voxels = @ \cup {View[n]}]
  BY DEF FindVoxels
<1>2. spent.frames \in Nat /\ spent.frames <= MaxFrames /\ MaxFrames \in Nat
  BY TypeParts, DaemonBoundsAssumption DEF Budget
<1>3. n = spent.frames + 1 \/ (n = spent.frames /\ n # 0)
  BY DEF Images
<1>4. /\ Counts(spent, spent') /\ spent'.late = spent.late
      /\ n \in 1..MaxFrames
  <2>1. CASE n > spent.frames
    <3>1. Spend("frames")
      BY <1>1, <2>1
    <3>2. Counts(spent, spent') /\ spent.frames < MaxFrames
      BY <3>1, SpendCounts, TypeParts DEF Budget
    <3>3. spent'.late = spent.late
      BY <3>1, TypeParts DEF Spend, Budget
    <3> QED
      BY <1>2, <1>3, <2>1, <3>2, <3>3
  <2>2. CASE ~(n > spent.frames)
    <3>1. UNCHANGED spent
      BY <1>1, <2>2
    <3>2. n = spent.frames
      BY <1>2, <1>3, <2>2
    <3> QED
      BY <1>2, <1>3, <3>1, <3>2, SpentStays, TypeParts
  <2> QED
    BY <2>1, <2>2
<1>5. PICK p \in Place : p = View[n]
  BY <1>4, ViewAssumption
<1>6. PICK new : new = IF p \in daemon.voxels THEN <<>> ELSE <<p>>
  OBVIOUS
<1>7. new \in Seq(Place)
  BY <1>5, <1>6
<1>8. PICK t : t = [at |-> "store", new |-> new]
  OBVIOUS
<1>9. t \in Tracker /\ t.at = "store" /\ t.new = new
  BY <1>7, <1>8 DEF Tracker
<1>10. trackers' = [trackers EXCEPT ![i] = t]
  BY <1>1, <1>5, <1>6, <1>8, Zenon
<1>11. daemon' = [daemon EXCEPT !.voxels = @ \cup {p}]
  BY <1>1, <1>5, Zenon
<1>12. VoxelFound(p, t)
  BY <1>6, <1>9, <1>11 DEF VoxelFound
<1>13. TrackerBecomes(i, t)
  BY <1>9, <1>10, TrackerPut
<1>14. daemon' \in Daemon /\ IsFiniteSet(daemon'.voxels)
  <2>1. PICK v : v = daemon.voxels \cup {p}
    OBVIOUS
  <2>2. IsFiniteSet(v)
    BY <2>1, TypeParts, FS_AddElement
  <2>3. daemon \in Daemon /\ daemon.voxels \subseteq Place
    BY TypeParts DEF Daemon
  <2>4. v \subseteq Place
    BY <2>1, <2>3
  <2>5. daemon' = [daemon EXCEPT !.voxels = v]
    BY <1>11, <2>1
  <2>6. daemon' \in Daemon /\ daemon'.voxels = v
    BY <2>3, <2>4, <2>5 DEF Daemon
  <2> QED
    BY <2>2, <2>6
<1> QED
  BY <1>4, <1>12, <1>13, <1>14

LEMMA PoseMoves ==
  ASSUME WellTyped, NEW i \in 1..Len(trackers), StorePose(i)
  PROVE  /\ UNCHANGED spent
         /\ TrackerBecomes(i, Polling)
         /\ \E b : /\ b = daemon.buffer \o trackers[i].new /\ b \in Seq(Place)
                   /\ daemon' = [daemon EXCEPT !.poses = <<0>>, !.buffer = b]
         /\ daemon' \in Daemon /\ daemon'.voxels = daemon.voxels
<1>1. PICK new : new = trackers[i].new
  OBVIOUS
<1>2. new \in Seq(Place)
  <2>1. trackers[i] \in Tracker
    BY TypeParts
  <2> QED
    BY <1>1, <2>1 DEF Tracker
<1>3. daemon \in Daemon
  BY TypeParts
<1>4. PICK b : b = daemon.buffer \o new
  OBVIOUS
<1>5. b \in Seq(Place)
  <2>1. daemon.buffer \in Seq(Place)
    BY <1>3 DEF Daemon
  <2> QED
    BY <1>2, <1>4, <2>1, ConcatIs
<1>6. daemon' = [daemon EXCEPT !.poses = <<0>>, !.buffer = b]
  BY <1>1, <1>4, Zenon DEF StorePose
<1>7. <<0>> \in Seq(Nat)
  OBVIOUS
<1>8. daemon' \in Daemon /\ daemon'.voxels = daemon.voxels
  BY <1>3, <1>5, <1>6, <1>7 DEF Daemon
<1>9. Polling \in Tracker
  <2>1. <<>> \in Seq(Place)
    OBVIOUS
  <2> QED
    BY <2>1 DEF Polling, Tracker
<1>10. TrackerBecomes(i, Polling)
  BY <1>9, TrackerPut DEF StorePose
<1> QED
  BY <1>1, <1>4, <1>5, <1>6, <1>8, <1>10 DEF StorePose

LEMMA EndMoves ==
  ASSUME WellTyped, NEW i \in 1..Len(trackers), TrackingEnds(i)
  PROVE  /\ UNCHANGED <<daemon, spent>>
         /\ \E t : TrackerBecomes(i, t) /\ t.at = "done" /\ t.new = trackers[i].new
<1>1. PICK t : t = [trackers[i] EXCEPT !.at = "done"]
  OBVIOUS
<1>2. trackers[i] \in Tracker
  BY TypeParts
<1>3. t \in Tracker /\ t.at = "done" /\ t.new = trackers[i].new
  BY <1>1, <1>2 DEF Tracker
<1>4. trackers' = [trackers EXCEPT ![i] = t]
  BY <1>1 DEF TrackingEnds
<1> QED
  BY <1>3, <1>4, TrackerPut DEF TrackingEnds

LEMMA TrackerTypes ==
  ASSUME WellTyped, NEW i \in 1..Len(trackers), TrackingLoop(i)
  PROVE  DaemonTypes
<1> USE TypeParts
<1>1. UNCHANGED <<backend, workers, eyes, mark>>
  BY DEF TrackingLoop
<1>2. UNCHANGED spent => Counts(spent, spent')
  BY SpentStays
<1>3. CASE FindVoxels(i)
  BY <1>1, <1>3, FindMoves DEF DaemonTypes, TrackerBecomes
<1>4. CASE StorePose(i)
  BY <1>1, <1>2, <1>4, PoseMoves DEF DaemonTypes, TrackerBecomes
<1>5. CASE TrackingEnds(i)
  BY <1>1, <1>2, <1>5, EndMoves DEF DaemonTypes, TrackerBecomes
<1> QED
  BY <1>3, <1>4, <1>5 DEF TrackingLoop

-----------------------------------------------------------------------------
(* The server                                                               *)

\* The request goes on to the step after, and nothing else of it changes.
Proceeds ==
  /\ server' \in Server /\ server'.todo \in AllSteps
  /\ server'.busy = server.busy /\ server'.ok = server.ok
  /\ server.todo \in CameraSteps  => server'.todo \in CameraSteps  /\ <<Stage, Stage'>> \in CameraOrder
  /\ server.todo \in GlassesSteps => server'.todo \in GlassesSteps /\ <<Stage, Stage'>> \in GlassesOrder

LEMMA DoneProceeds ==
  ASSUME WellTyped, NEW s \in Step, AtStep(s), Done
  PROVE  Proceeds /\ Stage = s
<1>1. PICK q \in AllSteps : q = server.todo
  BY TypeParts
<1>2. q # <<>> /\ Head(q) = s
  BY <1>1 DEF AtStep
<1>3. PICK r : r = Tail(q)
  OBVIOUS
<1>4. server' = [server EXCEPT !.todo = r]
  BY <1>1, <1>3 DEF Done
<1>5. r \in AllSteps
  BY <1>1, <1>2, <1>3, CameraTail, GlassesTail DEF AllSteps
<1>6. r \in Seq(Step)
  BY <1>5, StepsType
<1>7. server' \in Server /\ server'.busy = server.busy /\ server'.ok = server.ok /\ server'.todo = r
  BY <1>4, <1>6, TypeParts DEF Server
<1>8. Stage = s /\ Stage' = StageOf(r)
  BY <1>1, <1>2, <1>7 DEF Stage, StageOf
<1>9. server.todo \in CameraSteps  => server'.todo \in CameraSteps  /\ <<Stage, Stage'>> \in CameraOrder
  BY <1>1, <1>2, <1>3, <1>7, <1>8, CameraTail
<1>10. server.todo \in GlassesSteps => server'.todo \in GlassesSteps /\ <<Stage, Stage'>> \in GlassesOrder
  BY <1>1, <1>2, <1>3, <1>7, <1>8, GlassesTail
<1> QED
  BY <1>5, <1>7, <1>8, <1>9, <1>10 DEF Proceeds

LEMMA SkipTypes ==
  ASSUME WellTyped, NEW todo \in AllSteps, NEW ok \in BOOLEAN, Skip(todo, ok)
  PROVE  /\ server' \in Server /\ server'.todo = todo /\ server'.ok = ok /\ server'.busy = server.busy
         /\ Stage' = StageOf(todo)
<1>1. todo \in Seq(Step)
  BY StepsType
<1>2. server' = [server EXCEPT !.todo = todo, !.ok = ok]
  BY DEF Skip
<1>3. server' \in Server /\ server'.todo = todo /\ server'.ok = ok /\ server'.busy = server.busy
  BY <1>1, <1>2, TypeParts DEF Server
<1> QED
  BY <1>3 DEF Stage

LEMMA SkipsIn ==
  /\ <<>> \in AllSteps /\ <<>> \in CameraSteps /\ <<>> \in GlassesSteps
  /\ StageOf(<<>>) = "none"
BY DEF AllSteps, CameraSteps, GlassesSteps, StageOf

LEMMA HaltingIn ==
  <<"halt", "joinWorker", "end">> \in AllSteps /\ <<"halt", "joinWorker", "end">> \in CameraSteps
BY DEF AllSteps, CameraSteps, CameraHalting

LEMMA HaltingStage == StageOf(<<"halt", "joinWorker", "end">>) = "halt"
<1>1. <<"halt", "joinWorker", "end">> # <<>> /\ Head(<<"halt", "joinWorker", "end">>) = "halt"
  OBVIOUS
<1> QED
  BY <1>1, Zenon DEF StageOf

LEMMA JoinCounts ==
  ASSUME WellTyped, NEW i, NEW ended \in BOOLEAN, Join(i, ended)
  PROVE  /\ Counts(spent, spent') /\ spent'.frames = spent.frames /\ spent'.starts = spent.starts
         /\ spent'.late = 0 => i = 0 \/ ended
<1>1. PICK harmless \in BOOLEAN : harmless = (i = 0 \/ ended)
  OBVIOUS
<1>2. Costs("late", harmless)
  BY <1>1, Zenon DEF Join
<1> QED
  BY <1>1, <1>2, CostsCounts, TypeParts

Quietly  == UNCHANGED spent /\ Counts(spent, spent')

LEMMA SpentQuietly ==
  ASSUME WellTyped, UNCHANGED spent
  PROVE  Quietly
BY SpentStays, TypeParts DEF Quietly

LEMMA BeginMoves ==
  ASSUME WellTyped, ServerBegin
  PROVE  /\ Stage = "begin" /\ ~Glasses /\ Quietly /\ UNCHANGED <<backend, threads, mark>>
         /\ \/ daemon.running /\ Skip(<<>>, TRUE) /\ UNCHANGED daemon
            \/ ~daemon.running /\ Proceeds /\ daemon' = [daemon EXCEPT !.running = TRUE]
BY SpentQuietly, DoneProceeds, AtStage, TypeParts DEF ServerBegin, Step

\* A capture of the glasses begins.
GlassesBegin(hardware) ==
  /\ ~daemon.running
  /\ daemon' = [daemon EXCEPT !.running = TRUE, !.voxels = {}, !.poses = <<>>, !.buffer = <<>>,
                              !.hardware = hardware, !.tracker = Len(trackers) + 1,
                              !.eye = IF kind = "VITURE" THEN Len(eyes) + 1 ELSE @]
  /\ eyes' \in Seq(Eye) /\ trackers' \in Seq(Tracker)
  /\ IF kind = "VITURE" THEN Adds(eyes, eyes', [at |-> "enter", open |-> FALSE]) ELSE eyes' = eyes
  /\ Adds(trackers, trackers', Polling)

LEMMA PollingType == Polling \in Tracker
<1>1. <<>> \in Seq(Place)
  OBVIOUS
<1> QED
  BY <1>1 DEF Polling, Tracker

LEMMA VitureBeginMoves ==
  ASSUME WellTyped, VitureBegin
  PROVE  /\ Stage = "begin" /\ Glasses /\ Quietly /\ Proceeds /\ UNCHANGED <<backend, workers, mark>>
         /\ \/ daemon.running /\ UNCHANGED <<daemon, eyes, trackers>>
            \/ \E hardware \in BOOLEAN : GlassesBegin(hardware)
<1>1. Stage = "begin" /\ Proceeds
  BY DoneProceeds DEF VitureBegin, Step
<1>2. CASE daemon.running
  BY <1>1, <1>2, SpentQuietly DEF VitureBegin
<1>3. CASE ~daemon.running
  <2>1. PICK hardware \in BOOLEAN :
          daemon' = [daemon EXCEPT !.running = TRUE, !.voxels = {}, !.poses = <<>>, !.buffer = <<>>,
                                   !.hardware = hardware, !.tracker = Len(trackers) + 1,
                                   !.eye = IF kind = "VITURE" THEN Len(eyes) + 1 ELSE @]
    BY <1>3 DEF VitureBegin, OpenHardware
  <2>2. trackers' = Append(trackers, Polling)
    BY <1>3 DEF VitureBegin
  <2>3. trackers' \in Seq(Tracker) /\ Adds(trackers, trackers', Polling)
    BY <2>2, AddsIs, PollingType, TypeParts
  <2>4. eyes' \in Seq(Eye)
        /\ IF kind = "VITURE" THEN Adds(eyes, eyes', [at |-> "enter", open |-> FALSE]) ELSE eyes' = eyes
    <3>1. CASE kind = "VITURE"
      <4>1. PICK e \in Eye : e = [at |-> "enter", open |-> FALSE]
        BY DEF Eye
      <4>2. eyes' = Append(eyes, e)
        BY <1>3, <3>1, <4>1 DEF VitureBegin, NewEye
      <4>3. eyes' \in Seq(Eye) /\ Adds(eyes, eyes', e)
        BY <4>2, AddsIs, TypeParts
      <4> QED
        BY <3>1, <4>1, <4>3, Zenon
    <3>2. CASE kind # "VITURE"
      BY <1>3, <3>2, TypeParts DEF VitureBegin
    <3> QED
      BY <3>1, <3>2
  <2>5. GlassesBegin(hardware)
    BY <1>3, <2>1, <2>3, <2>4, Zenon DEF GlassesBegin
  <2> QED
    BY <1>1, <2>5, SpentQuietly DEF VitureBegin
<1> QED
  BY <1>2, <1>3

LEMMA GlassesBeginType ==
  ASSUME WellTyped, NEW hardware \in BOOLEAN, GlassesBegin(hardware)
  PROVE  /\ daemon' \in Daemon /\ daemon'.voxels = {} /\ daemon'.buffer = <<>>
         /\ daemon'.running /\ daemon'.hardware = hardware
         /\ daemon'.capturing = daemon.capturing /\ daemon'.camera = daemon.camera
         /\ daemon'.tracker = Len(trackers) + 1
         /\ daemon'.eye = IF kind = "VITURE" THEN Len(eyes) + 1 ELSE daemon.eye
<1>1. <<>> \in Seq(Nat) /\ <<>> \in Seq(Place) /\ Len(trackers) + 1 \in Nat /\ Len(eyes) + 1 \in Nat
  BY TypeParts
<1>2. PICK eye : eye = IF kind = "VITURE" THEN Len(eyes) + 1 ELSE daemon.eye
  OBVIOUS
<1>3. daemon \in Daemon /\ daemon.eye \in Nat
  BY TypeParts DEF Daemon
<1>4. eye \in Nat
  BY <1>1, <1>2, <1>3
<1>5. PICK tracker \in Nat : tracker = Len(trackers) + 1
  BY <1>1
<1>6. daemon' = [daemon EXCEPT !.running = TRUE, !.voxels = {}, !.poses = <<>>, !.buffer = <<>>,
                              !.hardware = hardware, !.tracker = tracker, !.eye = eye]
  BY <1>2, <1>5, Zenon DEF GlassesBegin
<1>7. /\ daemon' \in Daemon /\ daemon'.voxels = {} /\ daemon'.buffer = <<>>
      /\ daemon'.running /\ daemon'.hardware = hardware
      /\ daemon'.capturing = daemon.capturing /\ daemon'.camera = daemon.camera
      /\ daemon'.tracker = tracker /\ daemon'.eye = eye
  BY <1>1, <1>3, <1>4, <1>6 DEF Daemon
<1> QED
  BY <1>2, <1>5, <1>7

LEMMA ModelStepMoves ==
  ASSUME WellTyped, ServerModel
  PROVE  /\ Stage = "model" /\ Quietly /\ UNCHANGED <<eyes, trackers>>
         /\ \/ /\ model = "failed" /\ Skip(<<>>, FALSE) /\ daemon' = [daemon EXCEPT !.running = FALSE]
               /\ UNCHANGED <<backend, workers, mark>>
            \/ /\ model = "loaded" /\ Proceeds /\ EngineStart
               /\ daemon' = [daemon EXCEPT !.worker = NextWorker]
<1>1. Stage = "model"
  BY AtStage, TypeParts DEF ServerModel, Step
<1>2. CASE model = "failed"
  BY <1>1, <1>2, SpentQuietly DEF ServerModel
<1>3. CASE model # "failed"
  BY <1>1, <1>3, SpentQuietly, DoneProceeds, TypeParts DEF ServerModel, Step
<1> QED
  BY <1>2, <1>3

\* The camera thread begins.
CameraBegins ==
  /\ daemon' = [daemon EXCEPT !.camera = TRUE, !.capturing = TRUE, !.eye = Len(eyes) + 1]
  /\ eyes' \in Seq(Eye) /\ \E e : e.at = "check" /\ Adds(eyes, eyes', e)

LEMMA CameraStepMoves ==
  ASSUME WellTyped, ServerCamera
  PROVE  /\ Stage = "camera" /\ Counts(spent, spent') /\ spent'.late = spent.late
         /\ UNCHANGED <<backend, workers, trackers, mark>>
         /\ \/ Proceeds /\ CameraBegins
            \/ Skip(<<"halt", "joinWorker", "end">>, FALSE) /\ UNCHANGED <<daemon, eyes>>
<1>1. Stage = "camera"
  BY AtStage, TypeParts DEF ServerCamera, Step
<1>2. PICK opened \in BOOLEAN :
        /\ Costs("fails", opened)
        /\ IF opened
           THEN /\ Done /\ eyes' = NewEye("check")
                /\ daemon' = [daemon EXCEPT !.camera = TRUE, !.capturing = TRUE, !.eye = Len(eyes) + 1]
           ELSE Skip(<<"halt", "joinWorker", "end">>, FALSE) /\ UNCHANGED <<daemon, eyes>>
  BY DEF ServerCamera
<1>3. Counts(spent, spent')
  BY <1>2, CostsCounts, TypeParts
<1>4. spent'.late = spent.late
  BY <1>2, TypeParts DEF Costs, Spend, Budget
<1>5. ASSUME opened PROVE Proceeds /\ CameraBegins
  <2>1. Proceeds
    BY <1>2, <1>5, DoneProceeds DEF ServerCamera, Step
  <2>2. PICK e \in Eye : e = [at |-> "check", open |-> FALSE]
    BY DEF Eye
  <2>3. eyes' = Append(eyes, e) /\ e.at = "check"
    BY <1>2, <1>5, <2>2 DEF NewEye
  <2>4. eyes' \in Seq(Eye) /\ Adds(eyes, eyes', e)
    BY <2>3, AddsIs, TypeParts
  <2>5. CameraBegins
    BY <1>2, <1>5, <2>3, <2>4 DEF CameraBegins
  <2> QED
    BY <2>1, <2>5
<1>6. UNCHANGED <<backend, workers, trackers, mark>>
  BY DEF ServerCamera
<1>7. CASE opened
  BY <1>1, <1>3, <1>4, <1>5, <1>6, <1>7
<1>8. CASE ~opened
  BY <1>1, <1>2, <1>3, <1>4, <1>6, <1>8
<1> QED
  BY <1>7, <1>8

LEMMA FlagMoves ==
  ASSUME WellTyped, ServerFlag
  PROVE  /\ Stage = "flag" /\ Quietly /\ UNCHANGED <<backend, threads, mark>>
         /\ \/ Glasses /\ ~daemon.running /\ Skip(<<>>, TRUE) /\ UNCHANGED daemon
            \/ Glasses /\ daemon.running /\ Proceeds /\ daemon' = [daemon EXCEPT !.running = FALSE]
            \/ ~Glasses /\ Proceeds /\ daemon' = [daemon EXCEPT !.capturing = FALSE]
<1>1. Stage = "flag"
  BY AtStage, TypeParts DEF ServerFlag, Step
<1>2. CASE Glasses /\ ~daemon.running
  BY <1>1, <1>2, SpentQuietly DEF ServerFlag
<1>3. CASE ~(Glasses /\ ~daemon.running)
  <2>1. Done /\ daemon' = IF Glasses THEN [daemon EXCEPT !.running = FALSE] ELSE [daemon EXCEPT !.capturing = FALSE]
    BY <1>3 DEF ServerFlag
  <2>2. Proceeds
    BY <2>1, DoneProceeds DEF ServerFlag, Step
  <2> QED
    BY <1>1, <1>3, <2>1, <2>2, SpentQuietly DEF ServerFlag
<1> QED
  BY <1>2, <1>3

\* The engine is told to stop; LingBot's, when it does not run, is left alone.
HaltSkips ==
  /\ kind # "ABOT" /\ ~backend.running /\ UNCHANGED backend
  /\ server' \in Server /\ server'.todo \in AllSteps
  /\ server'.busy = server.busy /\ server'.ok = server.ok
  /\ server.todo \in CameraSteps  => server'.todo \in CameraSteps  /\ Stage' = "end"
  /\ server.todo \in GlassesSteps => server'.todo \in GlassesSteps /\ Stage' = "joinEye"

LEMMA HaltMoves ==
  ASSUME WellTyped, ServerHalt
  PROVE  /\ Stage = "halt" /\ Quietly /\ UNCHANGED <<daemon, threads, mark>>
         /\ \/ HaltSkips
            \/ (kind = "ABOT" \/ backend.running) /\ Proceeds /\ backend' = [backend EXCEPT !.running = FALSE]
<1>1. Stage = "halt"
  BY AtStage, TypeParts DEF ServerHalt, Step
<1>2. CASE kind # "ABOT" /\ ~backend.running
  <2>1. PICK q \in AllSteps : q = server.todo
    BY TypeParts
  <2>2. q # <<>> /\ Head(q) = "halt"
    BY <2>1 DEF ServerHalt, AtStep
  <2>3. PICK r : r = Tail(Tail(q))
    OBVIOUS
  <2>4. PICK ok \in BOOLEAN : ok = server.ok
    BY TypeParts DEF Server
  <2>5. r \in AllSteps
    BY <2>2, <2>3, CameraHalt, GlassesHalt DEF AllSteps
  <2>6. Skip(r, ok) /\ UNCHANGED backend
    BY <1>2, <2>1, <2>3, <2>4 DEF ServerHalt
  <2>7. server' \in Server /\ server'.todo = r /\ server'.ok = ok /\ server'.busy = server.busy /\ Stage' = StageOf(r)
    BY <2>5, <2>6, SkipTypes
  <2>8. HaltSkips
    BY <1>2, <2>1, <2>2, <2>3, <2>4, <2>5, <2>6, <2>7, CameraHalt, GlassesHalt DEF HaltSkips
  <2> QED
    BY <1>1, <2>8, SpentQuietly DEF ServerHalt
<1>3. CASE ~(kind # "ABOT" /\ ~backend.running)
  <2>1. Done /\ backend' = [backend EXCEPT !.running = FALSE]
    BY <1>3 DEF ServerHalt
  <2>2. Proceeds
    BY <2>1, DoneProceeds DEF ServerHalt, Step
  <2> QED
    BY <1>1, <1>3, <2>1, <2>2, SpentQuietly DEF ServerHalt
<1> QED
  BY <1>2, <1>3

LEMMA JoinWorkerMoves ==
  ASSUME WellTyped, ServerJoinWorker
  PROVE  /\ Stage = "joinWorker" /\ Proceeds /\ Counts(spent, spent')
         /\ spent'.late = 0 => daemon.worker = 0 \/ workers[daemon.worker].at = "done" \/ backend.running
         /\ backend' = [backend EXCEPT !.state = "STOPPED"]
         /\ daemon' = IF kind = "ABOT" THEN [daemon EXCEPT !.worker = 0] ELSE daemon
         /\ UNCHANGED <<threads, mark>> /\ spent'.frames = spent.frames
<1>1. Proceeds /\ Stage = "joinWorker"
  BY DoneProceeds DEF ServerJoinWorker, Step
<1>2. PICK ended \in BOOLEAN : ended = (workers[daemon.worker].at = "done" \/ backend.running)
  OBVIOUS
<1>3. PICK w : w = daemon.worker
  OBVIOUS
<1>4. Join(w, ended)
  BY <1>2, <1>3, Zenon DEF ServerJoinWorker
<1>5. /\ Counts(spent, spent') /\ spent'.frames = spent.frames
      /\ spent'.late = 0 => w = 0 \/ ended
  BY <1>4, JoinCounts
<1> QED
  BY <1>1, <1>2, <1>3, <1>5 DEF ServerJoinWorker

LEMMA JoinEyeMoves ==
  ASSUME WellTyped, ServerJoinEye
  PROVE  /\ Stage = "joinEye" /\ Proceeds /\ Counts(spent, spent')
         /\ spent'.late = 0 => daemon.eye = 0 \/ eyes[daemon.eye].at = "done"
         /\ daemon' = [daemon EXCEPT !.eye = 0]
         /\ UNCHANGED <<backend, threads, mark>> /\ spent'.frames = spent.frames
<1>1. Proceeds /\ Stage = "joinEye"
  BY DoneProceeds DEF ServerJoinEye, Step
<1>2. PICK ended \in BOOLEAN : ended = (eyes[daemon.eye].at = "done")
  OBVIOUS
<1>3. PICK w : w = daemon.eye
  OBVIOUS
<1>4. Join(w, ended)
  BY <1>2, <1>3, Zenon DEF ServerJoinEye
<1>5. /\ Counts(spent, spent') /\ spent'.frames = spent.frames
      /\ spent'.late = 0 => w = 0 \/ ended
  BY <1>4, JoinCounts
<1> QED
  BY <1>1, <1>2, <1>3, <1>5 DEF ServerJoinEye

LEMMA JoinTrackerMoves ==
  ASSUME WellTyped, ServerJoinTracker
  PROVE  /\ Stage = "joinTracker" /\ Proceeds /\ Counts(spent, spent')
         /\ spent'.late = 0 => daemon.tracker = 0 \/ trackers[daemon.tracker].at = "done"
         /\ daemon' = [daemon EXCEPT !.tracker = 0]
         /\ UNCHANGED <<backend, threads, mark>> /\ spent'.frames = spent.frames
<1>1. Proceeds /\ Stage = "joinTracker"
  BY DoneProceeds DEF ServerJoinTracker, Step
<1>2. PICK ended \in BOOLEAN : ended = (trackers[daemon.tracker].at = "done")
  OBVIOUS
<1>3. PICK w : w = daemon.tracker
  OBVIOUS
<1>4. Join(w, ended)
  BY <1>2, <1>3, Zenon DEF ServerJoinTracker
<1>5. /\ Counts(spent, spent') /\ spent'.frames = spent.frames
      /\ spent'.late = 0 => w = 0 \/ ended
  BY <1>4, JoinCounts
<1> QED
  BY <1>1, <1>2, <1>3, <1>5 DEF ServerJoinTracker

LEMMA ReleaseMoves ==
  ASSUME WellTyped, ServerRelease
  PROVE  /\ Stage = "release" /\ Proceeds /\ Quietly /\ UNCHANGED <<backend, threads, mark>>
         /\ daemon' = [daemon EXCEPT !.camera = FALSE]
BY DoneProceeds, SpentQuietly DEF ServerRelease, Step

LEMMA ServerEndMoves ==
  ASSUME WellTyped, ServerEnd
  PROVE  /\ Stage = "end" /\ Proceeds /\ Quietly /\ UNCHANGED <<backend, threads, mark>>
         /\ daemon' = [daemon EXCEPT !.running = FALSE]
BY DoneProceeds, SpentQuietly DEF ServerEnd, Step

LEMMA CloseMoves ==
  ASSUME WellTyped, ServerClose
  PROVE  /\ Stage = "close" /\ Proceeds /\ Quietly /\ UNCHANGED <<backend, workers, trackers, mark>>
         /\ daemon' = [daemon EXCEPT !.hardware = FALSE]
         /\ eyes' \in Seq(Eye) /\ Len(eyes') = Len(eyes)
         /\ \A i \in 1..Len(eyes) : eyes'[i].at = eyes[i].at
<1>1. Proceeds /\ Stage = "close"
  BY DoneProceeds DEF ServerClose, Step
<1>2. Len(eyes) \in Nat /\ \A i \in 1..Len(eyes) : eyes[i] \in Eye
  BY TypeParts
<1>3. \A i \in 1..Len(eyes) : [eyes[i] EXCEPT !.open = FALSE] \in Eye /\ [eyes[i] EXCEPT !.open = FALSE].at = eyes[i].at
  BY <1>2 DEF Eye
<1>4. eyes' = [i \in 1..Len(eyes) |-> [eyes[i] EXCEPT !.open = FALSE]]
  BY DEF ServerClose
<1>5. eyes' \in Seq(Eye) /\ Len(eyes') = Len(eyes)
  BY <1>2, <1>3, <1>4
<1>6. \A i \in 1..Len(eyes) : eyes'[i].at = eyes[i].at
  BY <1>3, <1>4
<1> QED
  BY <1>1, <1>5, <1>6, SpentQuietly DEF ServerClose

LEMMA ServerStepTypes ==
  ASSUME WellTyped, ServerStep
  PROVE  DaemonTypes /\ server' \in Server /\ server'.todo \in AllSteps
<1> USE TypeParts
<1>1. daemon \in Daemon /\ backend \in Backend /\ daemon.voxels = daemon.voxels
  OBVIOUS
<1>2. /\ [daemon EXCEPT !.running = TRUE] \in Daemon
      /\ [daemon EXCEPT !.running = FALSE] \in Daemon
      /\ [daemon EXCEPT !.capturing = FALSE] \in Daemon
      /\ [daemon EXCEPT !.worker = 0] \in Daemon
      /\ [daemon EXCEPT !.eye = 0] \in Daemon
      /\ [daemon EXCEPT !.tracker = 0] \in Daemon
      /\ [daemon EXCEPT !.camera = FALSE] \in Daemon
      /\ [daemon EXCEPT !.hardware = FALSE] \in Daemon
  BY DEF Daemon
<1>3. /\ [daemon EXCEPT !.running = TRUE].voxels = daemon.voxels
      /\ [daemon EXCEPT !.running = FALSE].voxels = daemon.voxels
      /\ [daemon EXCEPT !.capturing = FALSE].voxels = daemon.voxels
      /\ [daemon EXCEPT !.worker = 0].voxels = daemon.voxels
      /\ [daemon EXCEPT !.eye = 0].voxels = daemon.voxels
      /\ [daemon EXCEPT !.tracker = 0].voxels = daemon.voxels
      /\ [daemon EXCEPT !.camera = FALSE].voxels = daemon.voxels
      /\ [daemon EXCEPT !.hardware = FALSE].voxels = daemon.voxels
  BY DEF Daemon
<1>4. [backend EXCEPT !.running = FALSE] \in Backend /\ [backend EXCEPT !.state = "STOPPED"] \in Backend
  BY DEF Backend
<1>5. ASSUME NEW todo \in AllSteps, NEW ok \in BOOLEAN, Skip(todo, ok) PROVE server' \in Server /\ server'.todo \in AllSteps
  BY <1>5, SkipTypes
<1>6. CASE ServerBegin
  BY <1>2, <1>3, <1>5, <1>6, BeginMoves, SkipsIn DEF DaemonTypes, Quietly, Proceeds, threads
<1>7. CASE VitureBegin
  <2>1. CASE UNCHANGED <<daemon, eyes, trackers>>
    BY <1>7, <2>1, VitureBeginMoves DEF DaemonTypes, Quietly, Proceeds
  <2>2. CASE ~UNCHANGED <<daemon, eyes, trackers>>
    <3>1. PICK hardware \in BOOLEAN : GlassesBegin(hardware)
      BY <1>7, <2>2, VitureBeginMoves
    <3>2. daemon' \in Daemon /\ IsFiniteSet(daemon'.voxels)
      BY <3>1, GlassesBeginType, FS_EmptySet
    <3>3. eyes' \in Seq(Eye) /\ trackers' \in Seq(Tracker)
      BY <3>1 DEF GlassesBegin
    <3> QED
      BY <1>7, <3>2, <3>3, VitureBeginMoves DEF DaemonTypes, Quietly, Proceeds
  <2> QED
    BY <2>1, <2>2
<1>8. CASE ServerModel
  <2>1. CASE model = "failed"
    BY <1>2, <1>3, <1>5, <1>8, <2>1, ModelStepMoves, SkipsIn DEF DaemonTypes, Quietly
  <2>2. CASE model # "failed"
    BY <1>8, <2>2, ModelStepMoves, EngineMoves, EngineDaemon DEF DaemonTypes, Quietly, Proceeds
  <2> QED
    BY <2>1, <2>2
<1>9. CASE ServerCamera
  <2>1. CASE CameraBegins
    <3>1. Len(eyes) + 1 \in Nat
      OBVIOUS
    <3>2. daemon' \in Daemon /\ daemon'.voxels = daemon.voxels
      BY <2>1, <3>1 DEF CameraBegins, Daemon
    <3>3. server' \in Server /\ server'.todo \in AllSteps
      BY <1>5, <1>9, CameraStepMoves, HaltingIn DEF Proceeds
    <3> QED
      BY <1>9, <2>1, <3>2, <3>3, CameraStepMoves DEF DaemonTypes, CameraBegins
  <2>2. CASE ~CameraBegins
    BY <1>5, <1>9, <2>2, CameraStepMoves, HaltingIn DEF DaemonTypes
  <2> QED
    BY <2>1, <2>2
<1>10. CASE ServerFlag
  BY <1>2, <1>3, <1>5, <1>10, FlagMoves, SkipsIn DEF DaemonTypes, Quietly, Proceeds, threads
<1>11. CASE ServerHalt
  BY <1>4, <1>11, HaltMoves DEF DaemonTypes, Quietly, Proceeds, HaltSkips, threads
<1>12. CASE ServerJoinWorker
  BY <1>2, <1>3, <1>4, <1>12, JoinWorkerMoves DEF DaemonTypes, Proceeds, threads
<1>13. CASE ServerJoinEye
  BY <1>2, <1>3, <1>13, JoinEyeMoves DEF DaemonTypes, Proceeds, threads
<1>14. CASE ServerJoinTracker
  BY <1>2, <1>3, <1>14, JoinTrackerMoves DEF DaemonTypes, Proceeds, threads
<1>15. CASE ServerRelease
  BY <1>2, <1>3, <1>15, ReleaseMoves DEF DaemonTypes, Quietly, Proceeds, threads
<1>16. CASE ServerEnd
  BY <1>2, <1>3, <1>16, ServerEndMoves DEF DaemonTypes, Quietly, Proceeds, threads
<1>17. CASE ServerClose
  BY <1>2, <1>3, <1>17, CloseMoves DEF DaemonTypes, Quietly, Proceeds
<1> QED
  BY <1>6, <1>7, <1>8, <1>9, <1>10, <1>11, <1>12, <1>13, <1>14, <1>15, <1>16, <1>17 DEF ServerStep

-----------------------------------------------------------------------------
(* The bridge                                                               *)

\* The lists of requests that the bridge works off.
RequestLists ==
  {<<>>, <<"NEW">>, <<"START">>, <<"STOP">>, <<"NEW", "STOP">>, <<"START", "READY", "START">>, <<"READY", "START">>,
   <<"ALL", "STOP", "STOP">>, <<"STOP", "STOP">>}

LEMMA RequestTypes == RequestLists \subseteq Seq(Request)
BY DEF RequestLists, Request

LEMMA DoingType ==
  ASSUME NEW op \in {"idle", "start", "tick", "stop", "hung"}, NEW todo \in Seq(Request)
  PROVE  /\ Doing(op, todo) \in Ui
         /\ Doing(op, todo).op = op /\ Doing(op, todo).todo = todo /\ Doing(op, todo).sent = FALSE
BY DEF Doing, Ui

LEMMA RestingType ==
  Resting \in Ui /\ Resting.op = "idle" /\ Resting.todo = <<>> /\ Resting.sent = FALSE
<1>1. <<>> \in Seq(Request)
  OBVIOUS
<1> QED
  BY <1>1 DEF Resting, Ui

LEMMA OnwardsType ==
  ASSUME WellTyped, Onwards
  PROVE  /\ ui' \in Ui /\ bridge' \in {"READY", "CAPTURING", "STOPPED"}
         /\ \/ Len(ui.todo) > 1 /\ ui' = Doing(ui.op, Tail(ui.todo)) /\ UNCHANGED bridge
            \/ /\ ~(Len(ui.todo) > 1) /\ ui' = Resting
               /\ ui.op = "start" => bridge' = "CAPTURING"
               /\ ui.op = "stop" => bridge' = "STOPPED"
               /\ ui.op \notin {"start", "stop"} => bridge' = bridge
<1>1. PICK op \in {"idle", "start", "tick", "stop", "hung"} : op = ui.op
  BY TypeParts DEF Ui
<1>2. PICK todo \in Seq(Request) : todo = ui.todo
  BY TypeParts DEF Ui
<1>3. CASE Len(todo) > 1
  <2>1. ui' = Doing(ui.op, Tail(ui.todo)) /\ UNCHANGED bridge
    BY <1>2, <1>3 DEF Onwards
  <2>2. PICK r : r = Tail(todo)
    OBVIOUS
  <2>3. todo # <<>>
    <3>1. Len(<<>>) = 0
      OBVIOUS
    <3> QED
      BY <1>3, <3>1
  <2>4. r \in Seq(Request)
    BY <1>2, <2>2, <2>3
  <2>5. ui' = Doing(op, r)
    BY <1>1, <1>2, <2>1, <2>2
  <2>6. Doing(op, r) \in Ui
    BY <2>4, DoingType
  <2>7. ui' \in Ui /\ bridge' \in {"READY", "CAPTURING", "STOPPED"}
    BY <2>1, <2>5, <2>6, TypeParts
  <2> QED
    BY <1>2, <1>3, <2>1, <2>7
<1>4. CASE ~(Len(todo) > 1)
  <2>1. ui' = Resting
    BY <1>2, <1>4 DEF Onwards
  <2>2. op = "start" => bridge' = "CAPTURING"
    BY <1>1, <1>2, <1>4, Zenon DEF Onwards
  <2>3. op = "stop" => bridge' = "STOPPED"
    <3>1. "stop" # "start"
      OBVIOUS
    <3> QED
      BY <1>1, <1>2, <1>4, <3>1, Zenon DEF Onwards
  <2>4. op \notin {"start", "stop"} => bridge' = bridge
    <3>1. op \notin {"start", "stop"} => op # "start" /\ op # "stop"
      OBVIOUS
    <3> QED
      BY <1>1, <1>2, <1>4, <3>1, Zenon DEF Onwards
  <2>5. bridge' \in {"READY", "CAPTURING", "STOPPED"}
    BY <2>2, <2>3, <2>4, TypeParts
  <2> QED
    BY <1>1, <1>2, <1>4, <2>1, <2>2, <2>3, <2>4, <2>5, RestingType
<1> QED
  BY <1>3, <1>4

\* What a request for new points takes, from whom.
LingBotTakes(places) ==
  /\ places = SubSeq(backend.voxels, backend.served + 1, Len(backend.voxels))
  /\ backend' = [backend EXCEPT !.served = Len(backend.voxels)]
ABotTakes(places)    == places = backend.buffer /\ backend' = [backend EXCEPT !.buffer = <<>>]
GlassesTakes(places) == places = daemon.buffer /\ backend' = backend

LEMMA NewPointsMoves ==
  ASSUME WellTyped, FetchNewPoints
  PROVE  /\ backend' \in Backend /\ daemon' \in Daemon /\ daemon' = [daemon EXCEPT !.buffer = <<>>]
         /\ \E places : /\ places \in Seq(Place) /\ client' = client \o places /\ client' \in Seq(Place)
                        /\ kind = "LINGBOT" => LingBotTakes(places)
                        /\ kind = "ABOT" => ABotTakes(places)
                        /\ kind \notin {"LINGBOT", "ABOT"} => GlassesTakes(places)
<1>1. /\ backend' = NewPoints.left /\ daemon' = [daemon EXCEPT !.buffer = <<>>]
      /\ client' = client \o NewPoints.places
  BY DEF FetchNewPoints, ServeNew
<1>2. <<>> \in Seq(Place) /\ backend \in Backend /\ daemon \in Daemon /\ client \in Seq(Place)
  BY TypeParts
<1>3. daemon' \in Daemon
  BY <1>1, <1>2 DEF Daemon
<1>4. PICK places : places = NewPoints.places
  OBVIOUS
<1>5. /\ backend' \in Backend /\ places \in Seq(Place)
      /\ kind = "LINGBOT" => LingBotTakes(places)
      /\ kind = "ABOT" => ABotTakes(places)
      /\ kind \notin {"LINGBOT", "ABOT"} => GlassesTakes(places)
  <2>1. CASE kind = "LINGBOT"
    <3>1. NewPoints = LingBotGetNewPoints(backend)
      BY <2>1, Zenon DEF NewPoints
    <3>2. PICK q : q = SubSeq(backend.voxels, backend.served + 1, Len(backend.voxels))
      OBVIOUS
    <3>3. PICK n : n = Len(backend.voxels)
      OBVIOUS
    <3>4. NewPoints = [places |-> q, left |-> [backend EXCEPT !.served = n]]
      BY <3>1, <3>2, <3>3, Zenon DEF LingBotGetNewPoints
    <3>5. PICK c : c = [backend EXCEPT !.served = n]
      OBVIOUS
    <3>6. NewPoints.places = q /\ NewPoints.left = c
      BY <3>4, <3>5
    <3>7. PICK v \in Seq(Place) : v = backend.voxels
      BY <1>2 DEF Backend
    <3>8. backend.served \in Nat
      BY <1>2 DEF Backend
    <3>9. PICK m \in Nat \ {0} : m = backend.served + 1
      BY <3>8
    <3>10. n \in Nat
      BY <3>3, <3>7
    <3>11. q \in Seq(Place)
      BY <3>2, <3>7, <3>9, SliceType
    <3>12. c \in Backend
      BY <1>2, <3>5, <3>10 DEF Backend
    <3> QED
      BY <1>1, <1>4, <2>1, <3>2, <3>3, <3>5, <3>6, <3>11, <3>12 DEF LingBotTakes
  <2>2. CASE kind = "ABOT"
    <3>1. NewPoints = ABotGetNewPoints(backend)
      BY <2>2, Zenon DEF NewPoints
    <3>2. PICK c : c = [backend EXCEPT !.buffer = <<>>]
      OBVIOUS
    <3>3. NewPoints = [places |-> backend.buffer, left |-> c]
      BY <3>1, <3>2, Zenon DEF ABotGetNewPoints
    <3>4. NewPoints.places = backend.buffer /\ NewPoints.left = c
      BY <3>3
    <3>5. c \in Backend /\ backend.buffer \in Seq(Place)
      BY <1>2, <3>2 DEF Backend
    <3> QED
      BY <1>1, <1>4, <2>2, <3>2, <3>4, <3>5 DEF ABotTakes
  <2>3. CASE kind \notin {"LINGBOT", "ABOT"}
    <3>1. NewPoints = VitureGetNewPoints(backend)
      BY <2>3, Zenon DEF NewPoints
    <3>2. NewPoints = [places |-> daemon.buffer, left |-> backend]
      BY <3>1 DEF VitureGetNewPoints
    <3>3. NewPoints.places = daemon.buffer /\ NewPoints.left = backend
      BY <3>2
    <3>4. daemon.buffer \in Seq(Place)
      BY <1>2 DEF Daemon
    <3> QED
      BY <1>1, <1>2, <1>4, <2>3, <3>3, <3>4 DEF GlassesTakes
  <2> QED
    BY <2>1, <2>2, <2>3
<1>6. PICK q : q = client \o places
  OBVIOUS
<1>7. q \in Seq(Place) /\ client' = q
  BY <1>1, <1>2, <1>4, <1>5, <1>6, ConcatIs
<1> QED
  BY <1>1, <1>3, <1>5, <1>6, <1>7

\* What the final pull of the glasses returns: every voxel, once.
LEMMA AllPointsAre ==
  ASSUME WellTyped
  PROVE  AllPoints \in Seq(Place) /\ Once(AllPoints) /\ ToSet(AllPoints) = daemon.voxels
<1> DEFINE V == daemon.voxels
           n == Cardinality(V)
<1>1. V \subseteq Place /\ IsFiniteSet(V)
  BY TypeParts DEF Daemon
<1>2. n \in Nat /\ ExistsBijection(1..n, V)
  BY <1>1, FS_CardinalityType
<1>3. PICK g : g \in [1..n -> V] /\ IsInjective(g)
  BY <1>2 DEF ExistsBijection, Bijection, Injection
<1>4. PICK f : f = AllPoints
  OBVIOUS
<1>5. f \in [1..n -> V] /\ IsInjective(f)
  BY <1>3, <1>4 DEF AllPoints, SetToSeq
<1>6. f \in Injection(1..n, V)
  BY <1>5, Zenon DEF Injection
<1>7. IsFiniteSet(1..n) /\ Cardinality(1..n) = n
  BY <1>2, FS_Interval
<1>8. f \in Surjection(1..n, V)
  BY <1>1, <1>6, <1>7, FS_Injection
<1>9. \A v \in V : \E i \in 1..n : f[i] = v
  BY <1>8, Zenon DEF Surjection
<1>10. f \in Seq(Place) /\ Len(f) = n
  BY <1>1, <1>2, <1>5
<1>11. Once(f)
  BY <1>5, <1>10 DEF IsInjective, Once
<1>12. ToSet(f) = V
  <2>1. \A v : v \in ToSet(f) <=> \E i \in 1..n : f[i] = v
    BY <1>10, <1>2 DEF ToSet
  <2>2. \A i \in 1..n : f[i] \in V
    BY <1>5
  <2> QED
    BY <2>1, <2>2, <1>9
<1> QED
  BY <1>4, <1>10, <1>11, <1>12

\* What a step of the bridge keeps.
BridgeTypes ==
  /\ Counts(spent, spent')
  /\ backend' \in Backend /\ daemon' \in Daemon /\ IsFiniteSet(daemon'.voxels)
  /\ server' \in Server /\ server'.todo \in AllSteps
  /\ ui' \in Ui /\ bridge' \in {"READY", "CAPTURING", "STOPPED"} /\ client' \in Seq(Place) /\ due' \subseteq Place

LEMMA UserTypes ==
  ASSUME WellTyped, BridgeTypes, UNCHANGED <<kind, model, threads, mark>>
  PROVE  WellTyped'
BY TypeParts DEF BridgeTypes, Counts, WellTyped, TypeOK, Budget, threads

\* A step that leaves the daemon alone.
LEMMA DaemonRests ==
  ASSUME WellTyped, UNCHANGED <<backend, daemon>>
  PROVE  backend' \in Backend /\ daemon' \in Daemon /\ IsFiniteSet(daemon'.voxels)
BY TypeParts

LEMMA ServerRests ==
  ASSUME WellTyped, UNCHANGED server
  PROVE  server' \in Server /\ server'.todo \in AllSteps
BY TypeParts

LEMMA IdleType ==
  Idle \in Server /\ Idle.todo \in AllSteps /\ Idle.todo = <<>> /\ ~Idle.busy /\ Idle.ok
<1>1. <<>> \in Seq(Step)
  OBVIOUS
<1> QED
  BY <1>1 DEF Idle, Server, AllSteps, CameraSteps

LEMMA ListsOfOperations ==
  /\ StartRequests \in Seq(Request) /\ StopRequests \in Seq(Request) /\ TickRequests \in Seq(Request)
  /\ StartRequests # <<>> /\ StopRequests # <<>> /\ TickRequests # <<>>
<1>1. CameraStart \in RequestLists /\ VitureStart \in RequestLists /\ CameraStop \in RequestLists
      /\ VitureStop \in RequestLists /\ TickRequests \in RequestLists
  BY DEF RequestLists, CameraStart, VitureStart, CameraStop, VitureStop, TickRequests
<1>2. CameraStart # <<>> /\ VitureStart # <<>> /\ CameraStop # <<>> /\ VitureStop # <<>> /\ TickRequests # <<>>
  BY DEF CameraStart, VitureStart, CameraStop, VitureStop, TickRequests
<1> QED
  BY <1>1, <1>2, RequestTypes DEF StartRequests, StopRequests

-----------------------------------------------------------------------------
(* The user's buttons *)

StartsCapture ==
  /\ ui.op = "idle" /\ bridge # "CAPTURING"
  /\ Counts(spent, spent') /\ spent'.starts = spent.starts + 1 /\ spent'.late = spent.late /\ spent'.frames = spent.frames
  /\ ui' \in Ui /\ ui' = Doing("start", StartRequests)
  /\ client' = Kept /\ due' = {}
  /\ UNCHANGED <<kind, model, backend, daemon, threads, server, mark, bridge>>

LEMMA StartCaptureMoves ==
  ASSUME WellTyped, StartCapture
  PROVE  StartsCapture /\ client' \in Seq(Place)
<1>1. spent' = [spent EXCEPT !.starts = @ + 1]
  BY DEF StartCapture
<1>2. spent \in [Budget -> Nat] /\ spent.frames <= MaxFrames /\ {"frames", "late", "starts"} \subseteq Budget
  BY TypeParts DEF Budget
<1>3. spent' \in [Budget -> Nat] /\ spent'.starts = spent.starts + 1 /\ spent'.late = spent.late /\ spent'.frames = spent.frames
  BY <1>1, <1>2
<1>4. Counts(spent, spent') /\ spent'.starts = spent.starts + 1 /\ spent'.late = spent.late /\ spent'.frames = spent.frames
  BY <1>2, <1>3 DEF Counts
<1>5. ui' = Doing("start", StartRequests)
  BY DEF StartCapture
<1>6. PICK todo \in Seq(Request) : todo = StartRequests
  BY ListsOfOperations
<1>7. ui' \in Ui
  BY <1>5, <1>6, DoingType
<1>8. <<>> \in Seq(Place)
  OBVIOUS
<1>9. client' \in Seq(Place)
  BY <1>8, TypeParts DEF StartCapture, Kept
<1> QED
  BY <1>4, <1>5, <1>7, <1>9 DEF StartCapture, StartsCapture

NobodyHome(op) ==
  /\ ui.op = "idle" /\ bridge # "CAPTURING" /\ spent.starts = 0
  /\ Counts(spent, spent') /\ spent'.starts = spent.starts /\ spent'.frames = spent.frames
  /\ ui' \in Ui /\ ui'.op = op /\ ui'.todo = <<>> /\ ~ui'.sent
  /\ client' = <<>> /\ due' = {}
  /\ UNCHANGED <<kind, model, backend, daemon, threads, server, mark, bridge>>

LEMMA NoDaemonMoves ==
  ASSUME WellTyped, NEW op \in {"idle", "hung"}, NoDaemon(op)
  PROVE  NobodyHome(op)
<1>1. ui' = [Resting EXCEPT !.op = op]
  BY DEF NoDaemon
<1>2. ui' \in Ui /\ ui'.op = op /\ ui'.todo = <<>> /\ ~ui'.sent
  BY <1>1, RestingType DEF Ui
<1>3. "fails" \in Budget /\ "fails" # "starts" /\ "fails" # "frames"
  BY DEF Budget
<1>4. Counts(spent, spent') /\ spent'.starts = spent.starts /\ spent'.frames = spent.frames
  BY <1>3, SpendCounts, TypeParts DEF NoDaemon
<1> QED
  BY <1>2, <1>4 DEF NoDaemon, NobodyHome

LEMMA TickMoves ==
  ASSUME WellTyped, OnTelemetryTick
  PROVE  /\ ui.op = "idle" /\ bridge = "CAPTURING"
         /\ ui' \in Ui /\ ui' = Doing("tick", TickRequests)
         /\ UNCHANGED <<daemonVars, bridge, client, due>>
<1>1. PICK todo \in Seq(Request) : todo = TickRequests
  BY ListsOfOperations
<1>2. ui' \in Ui
  BY <1>1, DoingType DEF OnTelemetryTick
<1> QED
  BY <1>2 DEF OnTelemetryTick

LEMMA KnownType ==
  ASSUME WellTyped PROVE Known \subseteq Place
<1>1. CASE Glasses
  BY <1>1, TypeParts DEF Known, Daemon
<1>2. CASE ~Glasses
  <2>1. PICK v \in Seq(Place) : v = backend.voxels
    BY TypeParts DEF Backend
  <2>2. PICK m \in Nat \ {0} : m = mark + 1
    BY TypeParts
  <2>3. PICK r : r = SubSeq(v, m, Len(v))
    OBVIOUS
  <2>4. r \in Seq(Place)
    BY <2>1, <2>2, <2>3, SliceType
  <2>5. Known = ToSet(r)
    BY <1>2, <2>1, <2>2, <2>3 DEF Known
  <2>6. ToSet(r) \subseteq Place
    BY <2>4 DEF ToSet
  <2> QED
    BY <2>5, <2>6
<1> QED
  BY <1>1, <1>2

LEMMA StopCaptureMoves ==
  ASSUME WellTyped, StopCapture
  PROVE  /\ ui.op = "idle" /\ bridge = "CAPTURING"
         /\ ui' \in Ui /\ ui' = Doing("stop", StopRequests) /\ due' = Known
         /\ UNCHANGED <<daemonVars, bridge, client>>
<1>1. PICK todo \in Seq(Request) : todo = StopRequests
  BY ListsOfOperations
<1>2. ui' \in Ui
  BY <1>1, DoingType DEF StopCapture
<1> QED
  BY <1>2 DEF StopCapture

LEMMA ButtonTypes ==
  ASSUME WellTyped, StartCapture \/ LingBotUnreachable \/ ABotUnreachable \/ OnTelemetryTick \/ StopCapture
  PROVE  WellTyped'
<1>0. <<>> \in Seq(Place) /\ {} \subseteq Place
  OBVIOUS
<1>1. CASE StartCapture
  BY <1>0, <1>1, StartCaptureMoves, DaemonRests, ServerRests, UserTypes, TypeParts DEF StartsCapture, BridgeTypes
<1>2. CASE LingBotUnreachable \/ ABotUnreachable
  <2>1. PICK op \in {"idle", "hung"} : NoDaemon(op)
    BY <1>2 DEF LingBotUnreachable, ABotUnreachable
  <2>2. NobodyHome(op)
    BY <2>1, NoDaemonMoves
  <2> QED
    BY <1>0, <2>2, DaemonRests, ServerRests, UserTypes, TypeParts DEF NobodyHome, BridgeTypes
<1>3. CASE OnTelemetryTick
  BY <1>3, TickMoves, DaemonRests, ServerRests, UserTypes, SpentStays, TypeParts DEF BridgeTypes, daemonVars, threads
<1>4. CASE StopCapture
  BY <1>4, StopCaptureMoves, KnownType, DaemonRests, ServerRests, UserTypes, SpentStays, TypeParts
     DEF BridgeTypes, daemonVars, threads
<1> QED
  BY <1>1, <1>2, <1>3, <1>4

-----------------------------------------------------------------------------
(* The bridge's requests *)

\* A request that takes its time goes to the server, which had nothing to do.
Sends(todo) ==
  /\ ui.todo # <<>> /\ ~ui.sent /\ server = Idle
  /\ Head(ui.todo) \in {"START", "STOP"}
  /\ todo = IF Head(ui.todo) = "START" THEN StartSteps ELSE StopSteps
  /\ server' \in Server /\ server'.busy /\ server'.ok /\ server'.todo = todo /\ todo \in AllSteps
  /\ ui' \in Ui /\ ui'.op = ui.op /\ ui'.todo = ui.todo /\ ui'.sent
  /\ UNCHANGED <<kind, model, backend, daemon, threads, mark, spent, bridge, client, due>>

LEMMA SendMoves ==
  ASSUME WellTyped, Send
  PROVE  \E todo : Sends(todo)
<1>1. PICK todo : todo = IF Head(ui.todo) = "START" THEN StartSteps ELSE StopSteps
  OBVIOUS
<1>2. server = Idle /\ server' = [busy |-> TRUE, todo |-> todo, ok |-> TRUE]
  BY <1>1, Zenon DEF Send, HandleClient
<1>3. StartSteps \in AllSteps /\ StopSteps \in AllSteps
  BY DEF StartSteps, StopSteps, AllSteps, CameraSteps, GlassesSteps, CameraStarting, CameraStopping, CameraHalting
<1>4. todo \in AllSteps
  BY <1>1, <1>3
<1>5. todo \in Seq(Step)
  BY <1>4, StepsType
<1>6. server' \in Server /\ server'.busy /\ server'.ok /\ server'.todo = todo
  BY <1>2, <1>5 DEF Server
<1>7. ui' = [ui EXCEPT !.sent = TRUE]
  BY DEF Send
<1>8. ui' \in Ui /\ ui'.op = ui.op /\ ui'.todo = ui.todo /\ ui'.sent
  BY <1>7, TypeParts DEF Ui
<1> QED
  BY <1>1, <1>2, <1>4, <1>6, <1>8 DEF Send, Sends

\* An answer is received: the bridge gives a failed start up, or goes on.
GivesUp == ui.op = "start" /\ ~server.ok
LEMMA ReceiveMoves ==
  ASSUME WellTyped, Receive
  PROVE  /\ ui.sent /\ server.busy /\ server.todo = <<>> /\ server' = Idle
         /\ GivesUp => ui' = Resting /\ UNCHANGED bridge
         /\ ~GivesUp => Onwards
         /\ UNCHANGED <<kind, model, backend, daemon, threads, mark, spent, client, due>>
BY DEF Receive, GivesUp

LEMMA ReadyMoves ==
  ASSUME WellTyped, WaitForModelReady
  PROVE  /\ Asking("READY") /\ Onwards
         /\ Counts(spent, spent') /\ spent'.frames = spent.frames /\ spent'.starts = spent.starts
         /\ UNCHANGED <<kind, model, backend, daemon, threads, server, mark, client, due>>
<1>1. PICK harmless \in BOOLEAN : harmless <=> model # "loading"
  OBVIOUS
<1>2. Costs("late", harmless)
  BY <1>1, Zenon DEF WaitForModelReady, Costs
<1> QED
  BY <1>2, CostsCounts, TypeParts DEF WaitForModelReady

LEMMA RequestStepTypes ==
  ASSUME WellTyped, FetchNewPoints \/ FetchAllPoints \/ WaitForModelReady \/ Send \/ Receive
  PROVE  WellTyped'
<1> USE TypeParts
<1>1. CASE FetchNewPoints
  <2>1. ui.todo # <<>> /\ Onwards /\ UNCHANGED <<kind, model, threads, server, mark, spent, due>>
    BY <1>1 DEF FetchNewPoints, Asking
  <2>2. backend' \in Backend /\ daemon' \in Daemon /\ daemon' = [daemon EXCEPT !.buffer = <<>>] /\ client' \in Seq(Place)
    BY <1>1, NewPointsMoves
  <2>3. daemon'.voxels = daemon.voxels
    BY <2>2 DEF Daemon
  <2>4. ui' \in Ui /\ bridge' \in {"READY", "CAPTURING", "STOPPED"}
    BY <2>1, OnwardsType
  <2> QED
    BY <2>1, <2>2, <2>3, <2>4, ServerRests, SpentStays, UserTypes DEF BridgeTypes
<1>2. CASE FetchAllPoints
  <2>1. ui.todo # <<>> /\ Onwards /\ UNCHANGED <<daemonVars, due>> /\ client' = AllPoints
    BY <1>2 DEF FetchAllPoints, Asking
  <2>2. ui' \in Ui /\ bridge' \in {"READY", "CAPTURING", "STOPPED"}
    BY <2>1, OnwardsType
  <2> QED
    BY <2>1, <2>2, AllPointsAre, DaemonRests, ServerRests, SpentStays, UserTypes DEF BridgeTypes, daemonVars, threads
<1>3. CASE WaitForModelReady
  <2>1. ui.todo # <<>> /\ Onwards
    BY <1>3 DEF WaitForModelReady, Asking
  <2>2. ui' \in Ui /\ bridge' \in {"READY", "CAPTURING", "STOPPED"}
    BY <2>1, OnwardsType
  <2> QED
    BY <1>3, <2>2, ReadyMoves, DaemonRests, ServerRests, UserTypes DEF BridgeTypes
<1>4. CASE Send
  <2>1. PICK todo : Sends(todo)
    BY <1>4, SendMoves
  <2> QED
    BY <2>1, DaemonRests, SpentStays, UserTypes DEF BridgeTypes, Sends
<1>5. CASE Receive
  <2>1. ui' \in Ui /\ bridge' \in {"READY", "CAPTURING", "STOPPED"}
    <3>1. CASE GivesUp
      BY <1>5, <3>1, ReceiveMoves, RestingType
    <3>2. CASE ~GivesUp
      BY <1>5, <3>2, ReceiveMoves, OnwardsType
    <3> QED
      BY <3>1, <3>2
  <2> QED
    BY <1>5, <2>1, ReceiveMoves, IdleType, DaemonRests, SpentStays, UserTypes DEF BridgeTypes
<1> QED
  BY <1>1, <1>2, <1>3, <1>4, <1>5

-----------------------------------------------------------------------------
(* Every step                                                               *)

LEMMA WellTypedInit ==
  ASSUME Init PROVE WellTyped
<1>1. backend \in Backend
  <2>1. <<>> \in Seq(Frame) /\ <<>> \in Seq(Nat) /\ <<>> \in Seq(Place)
    OBVIOUS
  <2> QED
    BY <2>1 DEF Init, DaemonInit, Created, Backend
<1>2. daemon \in Daemon /\ daemon.voxels = {}
  <2>1. <<>> \in Seq(Nat) /\ <<>> \in Seq(Place) /\ {} \in SUBSET Place
    OBVIOUS
  <2> QED
    BY <2>1 DEF Init, DaemonInit, Daemon
<1>3. <<>> \in Seq(Worker) /\ <<>> \in Seq(Eye) /\ <<>> \in Seq(Tracker) /\ <<>> \in Seq(Place) /\ {} \subseteq Place
  OBVIOUS
<1>4. spent \in [Budget -> Nat] /\ spent.frames <= MaxFrames
  BY DaemonBoundsAssumption DEF Init, DaemonInit, Budget
<1>5. IsFiniteSet(daemon.voxels)
  BY <1>2, FS_EmptySet
<1> QED
  BY <1>1, <1>2, <1>3, <1>4, <1>5, IdleType, RestingType, TypesOf DEF Init, DaemonInit

LEMMA LoadTypes ==
  ASSUME WellTyped, LoadModel, BridgeWaits
  PROVE  WellTyped'
<1>1. PICK m \in LoadOutcomes : model' = m /\ Costs("fails", m = "loaded")
  BY DEF LoadModel
<1>2. PICK harmless \in BOOLEAN : harmless <=> m = "loaded"
  OBVIOUS
<1>3. Costs("fails", harmless)
  BY <1>1, <1>2, Zenon DEF Costs
<1>4. Counts(spent, spent')
  BY <1>3, CostsCounts, TypeParts
<1>5. model' \in {"loading", "loaded", "failed"}
  BY <1>1 DEF LoadOutcomes
<1> QED
  BY <1>4, <1>5, TypeParts, ThreadTypes DEF LoadModel, DaemonTypes, threads

\* A step of the daemon's: of its server, or of a thread.
DaemonSteps ==
  \/ LoadModel \/ ServerStep
  \/ \E i \in 1..Len(workers)  : StreamingLoop(i) \/ NetworkFails(i) \/ OnLingbotPoints(i)
  \/ \E i \in 1..Len(eyes)     : CameraLoop(i)
  \/ \E i \in 1..Len(trackers) : TrackingLoop(i)

LEMMA DaemonStepTypes ==
  ASSUME WellTyped, DaemonSteps, BridgeWaits
  PROVE  WellTyped'
<1>1. CASE LoadModel
  BY <1>1, LoadTypes
<1>2. CASE ServerStep
  BY <1>2, ServerStepTypes, ServerTypes DEF ServerStep
<1>3. ASSUME NEW i \in 1..Len(workers), StreamingLoop(i) \/ NetworkFails(i) \/ OnLingbotPoints(i) PROVE WellTyped'
  <2>1. UNCHANGED <<kind, model, server>>
    BY <1>3 DEF StreamingLoop, NetworkFails, OnLingbotPoints
  <2> QED
    BY <1>3, <2>1, WorkerTypes, ThreadTypes, TypeParts
<1>4. ASSUME NEW i \in 1..Len(eyes), CameraLoop(i) PROVE WellTyped'
  BY <1>4, EyeTypes, ThreadTypes, TypeParts DEF CameraLoop
<1>5. ASSUME NEW i \in 1..Len(trackers), TrackingLoop(i) PROVE WellTyped'
  BY <1>5, TrackerTypes, ThreadTypes, TypeParts DEF TrackingLoop
<1> QED
  BY <1>1, <1>2, <1>3, <1>4, <1>5 DEF DaemonSteps

\* Next, by who acts.
LEMMA NextSteps ==
  ASSUME Next
  PROVE  \/ StartCapture \/ LingBotUnreachable \/ ABotUnreachable \/ OnTelemetryTick \/ StopCapture
         \/ FetchNewPoints \/ FetchAllPoints \/ WaitForModelReady \/ Send \/ Receive
         \/ DaemonSteps /\ BridgeWaits
BY DEF Next, DaemonSteps

LEMMA WellTypedStep ==
  ASSUME WellTyped, [Next]_vars
  PROVE  WellTyped'
<1>1. CASE Next
  BY <1>1, NextSteps, ButtonTypes, RequestStepTypes, DaemonStepTypes
<1>2. CASE UNCHANGED vars
  BY <1>2 DEF vars, daemonVars, threads, WellTyped, TypeOK
<1> QED
  BY <1>1, <1>2

\* A step of the bench is a step of the neural capture or leaves it alone.
LEMMA BenchNeural ==
  ASSUME [BenchNext]_benchVars
  PROVE  [Next]_vars
BY DEF BenchNext, benchVars, InNeural, InUvc, InResolver, InCatalogue

\* Whatever the camera sees, and for any number of captures, frames and
\* mishaps, the engines, the daemons and their threads have their types.
THEOREM BenchTypes == BenchSpec => []BenchTypeOK
<1>1. BenchInit => WellTyped /\ UvcInv
  BY WellTypedInit, UvcInvInit DEF BenchInit
<1>2. (WellTyped /\ UvcInv) /\ [BenchNext]_benchVars => (WellTyped /\ UvcInv)'
  BY WellTypedStep, BenchNeural, UvcInvStep, BenchUvc
<1>3. WellTyped /\ UvcInv => BenchTypeOK
  BY DEF WellTyped, UvcInv, BenchTypeOK
<1> QED
  BY <1>1, <1>2, <1>3, PTL DEF BenchSpec

-----------------------------------------------------------------------------
(* Who may run when: what the bridge, the server and the flags have to do   *)
(* with each other                                                          *)

LastStop   == <<"STOP">>
TwoStops   == <<"STOP", "STOP">>
ReadyStart == <<"READY", "START">>

LEMMA Lists ==
  /\ TickRequests # <<>> /\ CameraStart # <<>> /\ LastStop # <<>> /\ CameraStop # <<>>
  /\ VitureStart # <<>> /\ ReadyStart # <<>> /\ VitureStop # <<>> /\ TwoStops # <<>>
  /\ Head(TickRequests) = "NEW" /\ Head(CameraStart) = "START" /\ Head(LastStop) = "STOP" /\ Head(CameraStop) = "NEW"
  /\ Head(VitureStart) = "START" /\ Head(ReadyStart) = "READY" /\ Head(VitureStop) = "ALL" /\ Head(TwoStops) = "STOP"
  /\ Len(TickRequests) = 1 /\ Len(CameraStart) = 1 /\ Len(LastStop) = 1 /\ Len(CameraStop) = 2
  /\ Len(VitureStart) = 3 /\ Len(ReadyStart) = 2 /\ Len(VitureStop) = 3 /\ Len(TwoStops) = 2
  /\ Tail(CameraStop) = LastStop /\ Tail(TwoStops) = LastStop /\ Tail(VitureStop) = TwoStops
  /\ Tail(VitureStart) = ReadyStart /\ Tail(ReadyStart) = CameraStart
BY DEF TickRequests, CameraStart, LastStop, CameraStop, VitureStart, ReadyStart, VitureStop, TwoStops

\* What the bridge is about, and what it has still to ask of the daemon.
Asks(op, todo) == ui.op = op /\ ui.todo = todo

\* The daemon records: between its start and its stop.
Records == Stage = "none" /\ daemon.running

CameraStopsNow ==
  /\ server.busy => /\ Stage \in {"none", "flag", "joinEye", "release", "halt", "joinWorker", "end"}
                    /\ Stage = "none" => ~daemon.running
                    /\ server.ok
  /\ ~server.busy => daemon.running
CameraStartsNow ==
  /\ server.busy => /\ Stage \in {"none", "begin", "model", "camera", "halt", "joinWorker", "end"}
                    /\ Stage = "none" => (daemon.running <=> server.ok)
                    /\ Stage \in {"halt", "joinWorker", "end"} => ~server.ok
                    /\ Stage \in {"begin", "model", "camera"} => server.ok
  /\ ~server.busy => ~daemon.running
CameraUi ==
  \/ Asks("idle", <<>>) /\ (daemon.running <=> bridge = "CAPTURING")
  \/ Asks("hung", <<>>) /\ ~daemon.running /\ bridge # "CAPTURING"
  \/ Asks("tick", TickRequests) /\ daemon.running /\ bridge = "CAPTURING"
  \/ Asks("stop", CameraStop) /\ daemon.running /\ bridge = "CAPTURING"
  \/ Asks("stop", LastStop) /\ bridge = "CAPTURING" /\ CameraStopsNow
  \/ Asks("start", CameraStart) /\ bridge # "CAPTURING" /\ CameraStartsNow

GlassesUi ==
  \/ Asks("idle", <<>>) /\ (daemon.running <=> bridge = "CAPTURING")
  \/ Asks("tick", TickRequests) /\ daemon.running /\ bridge = "CAPTURING"
  \/ Asks("stop", VitureStop) /\ daemon.running /\ bridge = "CAPTURING"
  \/ Asks("stop", TwoStops) /\ bridge = "CAPTURING" /\ Stage # "begin"
     /\ (daemon.running <=> ~server.busy \/ Stage = "flag")
  \/ Asks("stop", LastStop) /\ bridge = "CAPTURING" /\ ~daemon.running /\ Stage \in {"none", "flag"}
  \/ Asks("start", VitureStart) /\ bridge # "CAPTURING" /\ Stage \in {"none", "begin"}
     /\ (daemon.running <=> server.busy /\ Stage = "none")
  \/ Asks("start", ReadyStart) /\ bridge # "CAPTURING" /\ Stage \in {"none", "begin"} /\ daemon.running
  \/ Asks("start", CameraStart) /\ bridge # "CAPTURING" /\ Stage \in {"none", "begin"} /\ daemon.running

\* A request is under way exactly while the server is busy with it.
InTouch ==
  /\ ui.sent <=> server.busy
  /\ ~server.busy => server = Idle
  /\ ui.sent => ui.todo # <<>> /\ Head(ui.todo) \in {"START", "STOP"}

CameraFlags ==
  /\ server.todo \in CameraSteps
  /\ Stage = "begin" => ~daemon.running
  /\ Stage \notin {"none", "begin"} => daemon.running
  /\ daemon.capturing <=> Records \/ Stage = "flag"
  /\ daemon.camera <=> Records \/ Stage \in {"flag", "joinEye", "release"}
  /\ ~daemon.hardware /\ trackers = <<>>
  /\ backend.running <=> Records \/ Stage \in {"camera", "flag", "joinEye", "release", "halt"}

\* Of threads that end in time there is one of a kind, and only then.
EyeTurn    == Records \/ Stage \in {"flag", "joinEye"}
WorkerTurn == Records \/ Stage \in {"camera", "flag", "joinEye", "release", "halt", "joinWorker"}
CameraEyes ==
  /\ \A i \in 1..Len(eyes) : eyes[i].at \in {"check", "read", "done"}
  /\ Punctual => \A i \in 1..Len(eyes) : eyes[i].at # "done" => i = daemon.eye /\ EyeTurn
CameraWorkers ==
  Punctual => \A i \in 1..Len(workers) : workers[i].at # "done" => i = daemon.worker /\ WorkerTurn

CameraInv  == CameraFlags /\ CameraEyes /\ CameraWorkers /\ CameraUi

GlassesFlags ==
  /\ server.todo \in GlassesSteps /\ server.ok
  /\ ~daemon.capturing /\ ~daemon.camera
  /\ daemon.running => Stage \in {"none", "begin", "flag"}
  /\ daemon.hardware => daemon.running \/ Stage \in {"halt", "joinWorker", "joinEye", "joinTracker", "close"}
GlassesThreads ==
  Punctual =>
    /\ \A i \in 1..Len(eyes) : eyes[i].at # "done" =>
         i = daemon.eye /\ (daemon.running \/ Stage \in {"halt", "joinWorker", "joinEye"})
    /\ \A i \in 1..Len(trackers) : trackers[i].at # "done" =>
         i = daemon.tracker /\ (daemon.running \/ Stage \in {"halt", "joinWorker", "joinEye", "joinTracker"})

GlassesInv == GlassesFlags /\ GlassesThreads /\ GlassesUi

Control ==
  /\ WellTyped
  /\ InTouch
  /\ Glasses => GlassesInv
  /\ ~Glasses => CameraInv

-----------------------------------------------------------------------------

LEMMA Later ==
  ASSUME Counts(spent, spent'), Punctual'
  PROVE  Punctual
BY DEF Counts, Punctual

LEMMA SameKind ==
  ASSUME kind' = kind
  PROVE  Glasses' <=> Glasses
BY DEF Glasses

LEMMA StageIs ==
  ASSUME WellTyped
  PROVE  Stage \in Step \cup {"none"} /\ (server.todo = <<>> <=> Stage = "none")
BY TypeParts, StagesOf DEF Stage

LEMMA IdleStage ==
  ASSUME server = Idle
  PROVE  Stage = "none" /\ ~server.busy /\ server.ok /\ server.todo = <<>>
BY SkipsIn, IdleType DEF Stage

\* On to the next request.
LEMMA OnwardsMoves ==
  ASSUME WellTyped, Onwards
  PROVE  /\ ~ui'.sent
         /\ Len(ui.todo) > 1 => ui'.op = ui.op /\ ui'.todo = Tail(ui.todo) /\ bridge' = bridge
         /\ ~(Len(ui.todo) > 1) => /\ ui'.op = "idle" /\ ui'.todo = <<>>
                                   /\ ui.op = "start" => bridge' = "CAPTURING"
                                   /\ ui.op = "stop" => bridge' = "STOPPED"
                                   /\ ui.op \notin {"start", "stop"} => bridge' = bridge
<1>1. ui' \in Ui
  BY OnwardsType
<1>2. CASE Len(ui.todo) > 1
  <2>1. ui' = Doing(ui.op, Tail(ui.todo)) /\ UNCHANGED bridge
    BY <1>2, OnwardsType
  <2>2. PICK op, todo : op = ui.op /\ todo = Tail(ui.todo)
    OBVIOUS
  <2>3. ui' = [op |-> op, todo |-> todo, sent |-> FALSE]
    BY <2>1, <2>2, Zenon DEF Doing
  <2>4. ui'.op = op /\ ui'.todo = todo /\ ~ui'.sent
    BY <2>3
  <2> QED
    BY <1>2, <2>1, <2>2, <2>4
<1>3. CASE ~(Len(ui.todo) > 1)
  BY <1>3, OnwardsType, RestingType
<1> QED
  BY <1>2, <1>3

-----------------------------------------------------------------------------
(* The cameras' daemons                                                     *)

CameraState == WellTyped /\ InTouch /\ ~Glasses /\ CameraInv

\* While the server is at work the bridge waits for a start or a stop.
LEMMA CameraAtWork ==
  ASSUME CameraState, Stage # "none"
  PROVE  /\ server.busy
         /\ \/ Asks("stop", LastStop) /\ bridge = "CAPTURING" /\ CameraStopsNow
            \/ Asks("start", CameraStart) /\ bridge # "CAPTURING" /\ CameraStartsNow
<1>1. server.busy
  BY IdleStage DEF CameraState, InTouch
<1> QED
  BY <1>1, Lists DEF CameraState, InTouch, CameraInv, CameraUi, Asks

\* The next stage of a camera's request.
LEMMA CameraNext ==
  ASSUME WellTyped, server.todo \in CameraSteps, Proceeds
  PROVE  /\ server'.todo \in CameraSteps /\ server'.busy = server.busy /\ server'.ok = server.ok
         /\ Stage = "begin" => Stage' = "model"
         /\ Stage = "model" => Stage' = "camera"
         /\ Stage = "camera" => Stage' = "none"
         /\ Stage = "flag" => Stage' = "joinEye"
         /\ Stage = "joinEye" => Stage' = "release"
         /\ Stage = "release" => Stage' = "halt"
         /\ Stage = "halt" => Stage' = "joinWorker"
         /\ Stage = "joinWorker" => Stage' = "end"
         /\ Stage = "end" => Stage' = "none"
<1>1. <<Stage, Stage'>> \in CameraOrder /\ server'.todo \in CameraSteps /\ server'.busy = server.busy /\ server'.ok = server.ok
  BY DEF Proceeds
<1> QED
  BY <1>1 DEF CameraOrder

\* A step of the server keeps the rest when it keeps the flags and the turns.
LEMMA CameraUiKept ==
  ASSUME CameraState, BridgeWaits, Stage # "none", server'.busy = server.busy,
         Asks("stop", LastStop) => CameraStopsNow',
         Asks("start", CameraStart) => CameraStartsNow'
  PROVE  CameraUi' /\ InTouch'
<1>1. UNCHANGED <<ui, bridge>>
  BY DEF BridgeWaits
<1>2. server.busy
  BY CameraAtWork
<1> QED
  BY <1>1, <1>2, CameraAtWork DEF CameraUi, Asks, InTouch, CameraState

LEMMA CameraThreadsKept ==
  ASSUME CameraState, UNCHANGED <<workers, eyes>>, Counts(spent, spent'),
         daemon'.eye = daemon.eye, daemon'.worker = daemon.worker,
         EyeTurn => EyeTurn', WorkerTurn => WorkerTurn'
  PROVE  CameraEyes' /\ CameraWorkers'
BY Later DEF CameraState, CameraInv, CameraEyes, CameraWorkers

LEMMA CameraBegin ==
  ASSUME CameraState, ServerBegin, BridgeWaits, UNCHANGED kind
  PROVE  CameraInv' /\ InTouch'
<1> USE TypeParts DEF CameraState
<1>1. Stage = "begin" /\ ~daemon.running /\ Proceeds /\ daemon' = [daemon EXCEPT !.running = TRUE]
      /\ UNCHANGED <<backend, threads, mark>> /\ Quietly
  BY BeginMoves DEF CameraInv, CameraFlags
<1>2. daemon'.running /\ daemon'.capturing = daemon.capturing /\ daemon'.camera = daemon.camera
      /\ daemon'.hardware = daemon.hardware /\ daemon'.eye = daemon.eye /\ daemon'.worker = daemon.worker
  BY <1>1 DEF Daemon
<1>3. server'.todo \in CameraSteps /\ server'.busy = server.busy /\ server'.ok = server.ok /\ Stage' = "model"
  BY <1>1, CameraNext DEF CameraInv, CameraFlags
<1>4. CameraFlags'
  BY <1>1, <1>2, <1>3 DEF CameraInv, CameraFlags, Records, threads
<1>5. CameraEyes' /\ CameraWorkers'
  BY <1>1, <1>2, <1>3, CameraThreadsKept DEF EyeTurn, WorkerTurn, Records, threads, Quietly
<1>6. server.ok
  BY <1>1, CameraAtWork DEF CameraStartsNow, CameraStopsNow
<1>7. CameraUi' /\ InTouch'
  BY <1>1, <1>3, <1>6, CameraUiKept, CameraAtWork, Lists DEF CameraStopsNow, CameraStartsNow, Asks
<1> QED
  BY <1>4, <1>5, <1>7 DEF CameraInv

LEMMA CameraModel ==
  ASSUME CameraState, ServerModel, BridgeWaits, UNCHANGED kind
  PROVE  CameraInv' /\ InTouch'
<1> USE TypeParts DEF CameraState
<1>1. Stage = "model" /\ Quietly /\ UNCHANGED <<eyes, trackers>>
  BY ModelStepMoves
<1>2. daemon.running /\ ~backend.running /\ ~daemon.capturing /\ ~daemon.camera /\ ~EyeTurn /\ ~WorkerTurn
      /\ server.ok /\ server.busy /\ ~Asks("stop", LastStop)
  <2>1. server.busy /\ Asks("start", CameraStart) /\ CameraStartsNow
    BY <1>1, CameraAtWork DEF CameraStopsNow
  <2>2. server.ok /\ ~Asks("stop", LastStop)
    BY <1>1, <2>1, Lists DEF CameraStartsNow, Asks
  <2> QED
    BY <1>1, <2>1, <2>2 DEF CameraInv, CameraFlags, Records, EyeTurn, WorkerTurn
<1>3. CASE model = "failed"
  <2>1. Skip(<<>>, FALSE) /\ daemon' = [daemon EXCEPT !.running = FALSE] /\ UNCHANGED <<backend, workers, mark>>
    BY <1>3, ModelStepMoves
  <2>2. ~daemon'.running /\ daemon'.capturing = daemon.capturing /\ daemon'.camera = daemon.camera
        /\ daemon'.hardware = daemon.hardware /\ daemon'.eye = daemon.eye /\ daemon'.worker = daemon.worker
    BY <2>1 DEF Daemon
  <2>3. PICK no \in BOOLEAN : ~no
    OBVIOUS
  <2>4. Skip(<<>>, no)
    BY <2>1, <2>3
  <2>5. server'.todo = <<>> /\ ~server'.ok /\ server'.busy = server.busy /\ Stage' = "none"
    BY <2>3, <2>4, SkipTypes, SkipsIn
  <2>6. CameraFlags'
    BY <1>1, <1>2, <2>1, <2>2, <2>5, SkipsIn DEF CameraInv, CameraFlags, Records
  <2>7. CameraEyes' /\ CameraWorkers'
    BY <1>1, <1>2, <2>1, <2>2, CameraThreadsKept DEF Quietly
  <2>8. CameraUi' /\ InTouch'
    BY <1>1, <1>2, <2>2, <2>5, CameraUiKept DEF CameraStartsNow
  <2> QED
    BY <2>6, <2>7, <2>8 DEF CameraInv
<1>4. CASE model # "failed"
  <2>1. model = "loaded" /\ Proceeds /\ EngineStart /\ daemon' = [daemon EXCEPT !.worker = NextWorker]
    BY <1>4, ModelStepMoves
  <2>2. SameFlags(daemon, daemon') /\ daemon'.worker = NextWorker
    BY <2>1, EngineDaemon
  <2>3. EngineStarts
    BY <1>2, <2>1 DEF EngineStarts
  <2>4. backend'.running /\ Adds(workers, workers', Waiting)
    BY <2>1, <2>3, EngineMoves DEF EngineGoes
  <2>5. daemon'.worker = Len(workers) + 1
    BY <2>2, <2>3 DEF NextWorker
  <2>6. server'.todo \in CameraSteps /\ server'.busy = server.busy /\ server'.ok = server.ok /\ Stage' = "camera"
    BY <1>1, <2>1, CameraNext DEF CameraInv, CameraFlags
  <2>7. CameraFlags'
    BY <1>1, <1>2, <2>2, <2>4, <2>6 DEF CameraInv, CameraFlags, Records, SameFlags
  <2>8. CameraEyes'
    BY <1>1, <1>2, Later DEF CameraInv, CameraEyes, Quietly
  <2>9. CameraWorkers'
    <3>1. SUFFICES ASSUME Punctual', NEW i \in 1..Len(workers'), workers'[i].at # "done"
                   PROVE  i = daemon'.worker /\ WorkerTurn'
      BY DEF CameraWorkers
    <3>2. Punctual
      BY <1>1, <3>1, Later DEF Quietly
    <3>3. \A j \in 1..Len(workers) : workers[j].at = "done"
      BY <1>2, <3>2 DEF CameraInv, CameraWorkers
    <3>4. Len(workers) \in Nat
      OBVIOUS
    <3> QED
      BY <2>4, <2>5, <2>6, <3>1, <3>3, <3>4 DEF Adds, WorkerTurn
  <2>10. daemon'.running
    BY <1>2, <2>2 DEF SameFlags
  <2>11. CameraUi' /\ InTouch'
    BY <1>1, <1>2, <2>6, <2>10, CameraUiKept DEF CameraStartsNow
  <2> QED
    BY <2>7, <2>8, <2>9, <2>11 DEF CameraInv
<1> QED
  BY <1>3, <1>4

LEMMA CameraCamera ==
  ASSUME CameraState, ServerCamera, BridgeWaits, UNCHANGED kind
  PROVE  CameraInv' /\ InTouch'
<1> USE TypeParts DEF CameraState
<1>1. Stage = "camera" /\ Counts(spent, spent') /\ UNCHANGED <<backend, workers, trackers, mark>>
  BY CameraStepMoves
<1>2. daemon.running /\ backend.running /\ ~daemon.capturing /\ ~daemon.camera /\ ~EyeTurn /\ WorkerTurn
      /\ server.ok /\ server.busy /\ ~Asks("stop", LastStop)
  <2>1. server.busy /\ Asks("start", CameraStart) /\ CameraStartsNow
    BY <1>1, CameraAtWork DEF CameraStopsNow
  <2>2. server.ok /\ ~Asks("stop", LastStop)
    BY <1>1, <2>1, Lists DEF CameraStartsNow, Asks
  <2> QED
    BY <1>1, <2>1, <2>2 DEF CameraInv, CameraFlags, Records, EyeTurn, WorkerTurn
<1>3. CASE Proceeds /\ CameraBegins
  <2>1. Len(eyes) + 1 \in Nat /\ Len(eyes) \in Nat
    OBVIOUS
  <2>2. daemon'.running = daemon.running /\ daemon'.capturing /\ daemon'.camera
        /\ daemon'.hardware = daemon.hardware /\ daemon'.eye = Len(eyes) + 1 /\ daemon'.worker = daemon.worker
    BY <1>3, <2>1 DEF Daemon, CameraBegins
  <2>3. server'.todo \in CameraSteps /\ server'.busy = server.busy /\ server'.ok = server.ok /\ Stage' = "none"
    BY <1>1, <1>3, CameraNext DEF CameraInv, CameraFlags
  <2>4. CameraFlags'
    BY <1>1, <1>2, <2>2, <2>3 DEF CameraInv, CameraFlags, Records
  <2>5. PICK e : e.at = "check" /\ Adds(eyes, eyes', e)
    BY <1>3 DEF CameraBegins
  <2>6. \A i \in 1..Len(eyes') : eyes'[i].at \in {"check", "read", "done"}
    <3>1. \A i \in 1..Len(eyes) : eyes[i].at \in {"check", "read", "done"}
      BY DEF CameraInv, CameraEyes
    <3>2. Len(eyes') = Len(eyes) + 1
      BY <2>5 DEF Adds
    <3>3. eyes'[Len(eyes')].at = "check" /\ \A j \in 1..Len(eyes) : eyes'[j] = eyes[j]
      BY <2>5 DEF Adds
    <3>4. ASSUME NEW i \in 1..Len(eyes') PROVE i \in 1..Len(eyes) \/ i = Len(eyes')
      BY <2>1, <3>2
    <3> QED
      BY <3>1, <3>3, <3>4
  <2>7. ASSUME Punctual', NEW i \in 1..Len(eyes'), eyes'[i].at # "done" PROVE i = daemon'.eye /\ EyeTurn'
    <3>1. \A j \in 1..Len(eyes) : eyes[j].at = "done"
      BY <1>1, <1>2, <2>7, Later DEF CameraInv, CameraEyes
    <3> QED
      BY <1>2, <2>1, <2>2, <2>3, <2>5, <2>7, <3>1 DEF Adds, EyeTurn, Records
  <2>8. CameraEyes'
    BY <2>6, <2>7 DEF CameraEyes
  <2>9. CameraWorkers'
    BY <1>1, <1>2, <2>2, <2>3, Later DEF CameraInv, CameraWorkers, WorkerTurn, Records
  <2>10. CameraUi' /\ InTouch'
    BY <1>1, <1>2, <2>2, <2>3, CameraUiKept DEF CameraStartsNow
  <2> QED
    BY <2>4, <2>8, <2>9, <2>10 DEF CameraInv
<1>4. CASE ~(Proceeds /\ CameraBegins)
  <2>1. Skip(<<"halt", "joinWorker", "end">>, FALSE) /\ UNCHANGED <<daemon, eyes>>
    BY <1>4, CameraStepMoves
  <2>2. PICK no \in BOOLEAN : ~no
    OBVIOUS
  <2>3. PICK todo \in AllSteps : todo = <<"halt", "joinWorker", "end">> /\ todo \in CameraSteps /\ StageOf(todo) = "halt"
    BY HaltingIn, HaltingStage
  <2>4. Skip(todo, no)
    BY <2>1, <2>2, <2>3
  <2>5. server'.todo \in CameraSteps /\ ~server'.ok /\ server'.busy = server.busy /\ Stage' = "halt"
    BY <2>2, <2>3, <2>4, SkipTypes
  <2>6. CameraFlags'
    BY <1>1, <1>2, <2>1, <2>5 DEF CameraInv, CameraFlags, Records
  <2>7. CameraEyes' /\ CameraWorkers'
    BY <1>1, <1>2, <2>1, <2>5, CameraThreadsKept DEF WorkerTurn
  <2>8. CameraUi' /\ InTouch'
    BY <1>1, <1>2, <2>1, <2>5, CameraUiKept DEF CameraStartsNow
  <2> QED
    BY <2>6, <2>7, <2>8 DEF CameraInv
<1> QED
  BY <1>3, <1>4

LEMMA CameraFlag ==
  ASSUME CameraState, ServerFlag, BridgeWaits, UNCHANGED kind
  PROVE  CameraInv' /\ InTouch'
<1> USE TypeParts DEF CameraState
<1>1. Stage = "flag" /\ Proceeds /\ daemon' = [daemon EXCEPT !.capturing = FALSE]
      /\ UNCHANGED <<backend, threads, mark>> /\ Quietly
  BY FlagMoves
<1>2. daemon'.running = daemon.running /\ ~daemon'.capturing /\ daemon'.camera = daemon.camera
      /\ daemon'.hardware = daemon.hardware /\ daemon'.eye = daemon.eye /\ daemon'.worker = daemon.worker
  BY <1>1 DEF Daemon
<1>3. server'.todo \in CameraSteps /\ server'.busy = server.busy /\ server'.ok = server.ok /\ Stage' = "joinEye"
  BY <1>1, CameraNext DEF CameraInv, CameraFlags
<1>4. CameraFlags'
  BY <1>1, <1>2, <1>3 DEF CameraInv, CameraFlags, Records, threads
<1>5. CameraEyes' /\ CameraWorkers'
  BY <1>1, <1>2, <1>3, CameraThreadsKept DEF EyeTurn, WorkerTurn, Records, threads, Quietly
<1>6. CameraUi' /\ InTouch'
  BY <1>1, <1>3, CameraUiKept, CameraAtWork, Lists DEF CameraStopsNow, CameraStartsNow, Asks
<1> QED
  BY <1>4, <1>5, <1>6 DEF CameraInv

LEMMA CameraRelease ==
  ASSUME CameraState, ServerRelease, BridgeWaits, UNCHANGED kind
  PROVE  CameraInv' /\ InTouch'
<1> USE TypeParts DEF CameraState
<1>1. Stage = "release" /\ Proceeds /\ daemon' = [daemon EXCEPT !.camera = FALSE]
      /\ UNCHANGED <<backend, threads, mark>> /\ Quietly
  BY ReleaseMoves
<1>2. daemon'.running = daemon.running /\ daemon'.capturing = daemon.capturing /\ ~daemon'.camera
      /\ daemon'.hardware = daemon.hardware /\ daemon'.eye = daemon.eye /\ daemon'.worker = daemon.worker
  BY <1>1 DEF Daemon
<1>3. server'.todo \in CameraSteps /\ server'.busy = server.busy /\ server'.ok = server.ok /\ Stage' = "halt"
  BY <1>1, CameraNext DEF CameraInv, CameraFlags
<1>4. CameraFlags'
  BY <1>1, <1>2, <1>3 DEF CameraInv, CameraFlags, Records, threads
<1>5. CameraEyes' /\ CameraWorkers'
  BY <1>1, <1>2, <1>3, CameraThreadsKept DEF EyeTurn, WorkerTurn, Records, threads, Quietly
<1>6. CameraUi' /\ InTouch'
  BY <1>1, <1>3, CameraUiKept, CameraAtWork, Lists DEF CameraStopsNow, CameraStartsNow, Asks
<1> QED
  BY <1>4, <1>5, <1>6 DEF CameraInv

LEMMA CameraJoinEye ==
  ASSUME CameraState, ServerJoinEye, BridgeWaits, UNCHANGED kind
  PROVE  CameraInv' /\ InTouch'
<1> USE TypeParts DEF CameraState
<1>1. Stage = "joinEye" /\ Proceeds /\ daemon' = [daemon EXCEPT !.eye = 0]
      /\ UNCHANGED <<backend, threads, mark>> /\ Counts(spent, spent')
      /\ (spent'.late = 0 => daemon.eye = 0 \/ eyes[daemon.eye].at = "done")
  BY JoinEyeMoves
<1>2. daemon'.running = daemon.running /\ daemon'.capturing = daemon.capturing /\ daemon'.camera = daemon.camera
      /\ daemon'.hardware = daemon.hardware /\ daemon'.worker = daemon.worker
  BY <1>1 DEF Daemon
<1>3. server'.todo \in CameraSteps /\ server'.busy = server.busy /\ server'.ok = server.ok /\ Stage' = "release"
  BY <1>1, CameraNext DEF CameraInv, CameraFlags
<1>4. CameraFlags'
  BY <1>1, <1>2, <1>3 DEF CameraInv, CameraFlags, Records, threads
<1>5. CameraEyes'
  <2>1. Punctual' => \A i \in 1..Len(eyes) : eyes[i].at = "done"
    BY <1>1, Later DEF CameraInv, CameraEyes, Punctual
  <2> QED
    BY <1>1, <2>1 DEF CameraInv, CameraEyes, threads
<1>6. CameraWorkers'
  BY <1>1, <1>2, <1>3, Later DEF CameraInv, CameraWorkers, WorkerTurn, Records, threads
<1>7. CameraUi' /\ InTouch'
  BY <1>1, <1>3, CameraUiKept, CameraAtWork, Lists DEF CameraStopsNow, CameraStartsNow, Asks
<1> QED
  BY <1>4, <1>5, <1>6, <1>7 DEF CameraInv

LEMMA CameraHaltStep ==
  ASSUME CameraState, ServerHalt, BridgeWaits, UNCHANGED kind
  PROVE  CameraInv' /\ InTouch'
<1> USE TypeParts DEF CameraState
<1>0. Stage = "halt" /\ backend.running
  BY HaltMoves DEF CameraInv, CameraFlags
<1>1. Proceeds /\ backend' = [backend EXCEPT !.running = FALSE]
      /\ UNCHANGED <<daemon, threads, mark>> /\ Quietly
  BY <1>0, HaltMoves DEF HaltSkips
<1>2. ~backend'.running
  BY <1>1 DEF Backend
<1>3. server'.todo \in CameraSteps /\ server'.busy = server.busy /\ server'.ok = server.ok /\ Stage' = "joinWorker"
  BY <1>0, <1>1, CameraNext DEF CameraInv, CameraFlags
<1>4. CameraFlags'
  BY <1>0, <1>1, <1>2, <1>3 DEF CameraInv, CameraFlags, Records, threads
<1>5. CameraEyes' /\ CameraWorkers'
  BY <1>0, <1>1, <1>3, CameraThreadsKept DEF EyeTurn, WorkerTurn, Records, threads, Quietly
<1>6. CameraUi' /\ InTouch'
  BY <1>0, <1>1, <1>3, CameraUiKept, CameraAtWork, Lists DEF CameraStopsNow, CameraStartsNow, Asks
<1> QED
  BY <1>4, <1>5, <1>6 DEF CameraInv

LEMMA CameraJoinWorker ==
  ASSUME CameraState, ServerJoinWorker, BridgeWaits, UNCHANGED kind
  PROVE  CameraInv' /\ InTouch'
<1> USE TypeParts DEF CameraState
<1>1. Stage = "joinWorker" /\ Proceeds /\ backend' = [backend EXCEPT !.state = "STOPPED"]
      /\ UNCHANGED <<threads, mark>> /\ Counts(spent, spent')
      /\ daemon' = (IF kind = "ABOT" THEN [daemon EXCEPT !.worker = 0] ELSE daemon)
      /\ (spent'.late = 0 => daemon.worker = 0 \/ workers[daemon.worker].at = "done" \/ backend.running)
  BY JoinWorkerMoves
<1>2. SameFlags(daemon, daemon') /\ backend'.running = backend.running /\ ~backend.running
  BY <1>1 DEF Daemon, SameFlags, Backend, CameraInv, CameraFlags, Records
<1>3. server'.todo \in CameraSteps /\ server'.busy = server.busy /\ server'.ok = server.ok /\ Stage' = "end"
  BY <1>1, CameraNext DEF CameraInv, CameraFlags
<1>4. CameraFlags'
  BY <1>1, <1>2, <1>3 DEF CameraInv, CameraFlags, Records, threads, SameFlags
<1>5. CameraEyes'
  BY <1>1, <1>2, <1>3, Later DEF CameraInv, CameraEyes, EyeTurn, Records, threads, SameFlags
<1>6. CameraWorkers'
  <2>1. Punctual' => \A i \in 1..Len(workers) : workers[i].at = "done"
    BY <1>1, <1>2, Later DEF CameraInv, CameraWorkers, Punctual
  <2> QED
    BY <1>1, <2>1 DEF CameraInv, CameraWorkers, threads
<1>7. CameraUi' /\ InTouch'
  BY <1>1, <1>3, CameraUiKept, CameraAtWork, Lists DEF CameraStopsNow, CameraStartsNow, Asks
<1> QED
  BY <1>4, <1>5, <1>6, <1>7 DEF CameraInv

LEMMA CameraEnd ==
  ASSUME CameraState, ServerEnd, BridgeWaits, UNCHANGED kind
  PROVE  CameraInv' /\ InTouch'
<1> USE TypeParts DEF CameraState
<1>1. Stage = "end" /\ Proceeds /\ daemon' = [daemon EXCEPT !.running = FALSE]
      /\ UNCHANGED <<backend, threads, mark>> /\ Quietly
  BY ServerEndMoves
<1>2. ~daemon'.running /\ daemon'.capturing = daemon.capturing /\ daemon'.camera = daemon.camera
      /\ daemon'.hardware = daemon.hardware /\ daemon'.eye = daemon.eye /\ daemon'.worker = daemon.worker
  BY <1>1 DEF Daemon
<1>3. server'.todo \in CameraSteps /\ server'.busy = server.busy /\ server'.ok = server.ok /\ Stage' = "none"
  BY <1>1, CameraNext DEF CameraInv, CameraFlags
<1>4. CameraFlags'
  BY <1>1, <1>2, <1>3 DEF CameraInv, CameraFlags, Records, threads
<1>5. CameraEyes' /\ CameraWorkers'
  BY <1>1, <1>2, <1>3, CameraThreadsKept DEF EyeTurn, WorkerTurn, Records, threads, Quietly
<1>6. CameraUi' /\ InTouch'
  BY <1>1, <1>2, <1>3, CameraUiKept, CameraAtWork, Lists DEF CameraStopsNow, CameraStartsNow, Asks
<1> QED
  BY <1>4, <1>5, <1>6 DEF CameraInv

LEMMA CameraServes ==
  ASSUME CameraState, ServerStep, BridgeWaits
  PROVE  CameraInv' /\ InTouch'
<1>0. UNCHANGED kind
  BY DEF ServerStep
<1>1. ~VitureBegin
  BY DEF VitureBegin, CameraState
<1>2. ~ServerJoinTracker /\ ~ServerClose
  <2>1. Stage \notin {"joinTracker", "close"}
    <3>1. PICK q \in CameraSteps : q = server.todo
      BY DEF CameraState, CameraInv, CameraFlags
    <3>2. \/ q = <<>>
          \/ Head(q) \in {"begin", "model", "camera", "halt", "joinWorker", "end", "flag", "joinEye", "release"}
      BY DEF CameraSteps, CameraStarting, CameraHalting, CameraStopping
    <3> QED
      BY <3>1, <3>2 DEF Stage, StageOf
  <2> QED
    BY <2>1, JoinTrackerMoves, CloseMoves DEF CameraState
<1> QED
  BY <1>0, <1>1, <1>2, CameraBegin, CameraModel, CameraCamera, CameraFlag, CameraRelease, CameraJoinEye, CameraHaltStep,
     CameraJoinWorker, CameraEnd DEF ServerStep

-----------------------------------------------------------------------------
(* What the steps of the threads leave alone                                *)

LEMMA WorkerActs ==
  ASSUME WellTyped, NEW i \in 1..Len(workers),
         \/ StreamingLoop(i) \/ NetworkFails(i) \/ OnLingbotPoints(i)
  PROVE  /\ workers[i].at # "done" /\ \E w : Put(workers, workers', i, w)
         /\ backend'.running = backend.running
         /\ SameFlags(daemon, daemon') /\ daemon'.worker = daemon.worker
         /\ UNCHANGED <<kind, eyes, trackers, server>> /\ Counts(spent, spent')
<1> USE TypeParts
<1>0. Counts(spent, spent') /\ UNCHANGED <<kind, eyes, trackers, server>>
  BY WorkerTypes DEF DaemonTypes, StreamingLoop, NetworkFails, OnLingbotPoints
<1>1. CASE OnLingbotPoints(i)
  <2>1. \E w : Put(workers, workers', i, w)
    BY <1>1, DeliverMoves DEF WorkerBecomes
  <2>2. PICK b, v : b = daemon.buffer \o workers[i].new /\ v = daemon.voxels \cup ToSet(workers[i].new)
    OBVIOUS
  <2>3. daemon' = [daemon EXCEPT !.buffer = b, !.voxels = v]
    BY <1>1, <2>2 DEF OnLingbotPoints
  <2>4. SameFlags(daemon, daemon') /\ daemon'.worker = daemon.worker
    BY <2>3 DEF SameFlags, Daemon
  <2> QED
    BY <1>0, <1>1, <2>1, <2>4 DEF OnLingbotPoints
<1>2. CASE ~OnLingbotPoints(i)
  <2>1. UNCHANGED daemon
    BY <1>2 DEF StreamingLoop, NetworkFails
  <2>2. SameFlags(daemon, daemon') /\ daemon'.worker = daemon.worker
    BY <2>1 DEF SameFlags
  <2>3. CASE WorkerWait(i)
    BY <1>0, <2>2, <2>3, WaitMoves DEF WorkerWait, WorkerBecomes
  <2>4. CASE WorkerGrab(i)
    BY <1>0, <2>2, <2>4, GrabMoves DEF WorkerGrab, WorkerGrabs, WorkerBecomes, SameEngine
  <2>5. CASE WorkerPromote(i)
    BY <1>0, <2>2, <2>5, PromoteMoves DEF WorkerPromote, WorkerBecomes, SameEngine
  <2>6. CASE ExecuteScalePass(i)
    BY <1>0, <2>2, <2>6, ScaleMoves DEF ExecuteScalePass, WorkerStores, ScalePassEnds, WorkerBecomes, Predicts
  <2>7. CASE ExecuteStreamingStep(i)
    BY <1>0, <2>2, <2>7, StepMoves DEF ExecuteStreamingStep, WorkerStores, WorkerBecomes, Predicts
  <2>8. CASE ABotStreamingStep(i)
    BY <1>0, <2>2, <2>8, ABotStepMoves DEF ABotStreamingStep, WorkerStores, WorkerBecomes, Predicts
  <2>9. CASE WorkerFail(i)
    BY <1>0, <2>2, <2>9, FailMoves DEF WorkerFail, WorkerBecomes
  <2> QED
    BY <1>2, <2>3, <2>4, <2>5, <2>6, <2>7, <2>8, <2>9 DEF StreamingLoop, NetworkFails
<1> QED
  BY <1>1, <1>2

LEMMA EyeActs ==
  ASSUME WellTyped, NEW i \in 1..Len(eyes), CameraLoop(i)
  PROVE  /\ eyes[i].at # "done"
         /\ \E e : /\ Put(eyes, eyes', i, e)
                   /\ eyes[i].at \in {"check", "read"} => e.at \in {"check", "read", "done"}
         /\ eyes[i].at \in {"check", "read"} =>
              UNCHANGED <<daemon, workers>> /\ backend'.running = backend.running
         /\ SameFlags(daemon, daemon')
         /\ UNCHANGED <<kind, trackers, server>> /\ Counts(spent, spent')
<1> USE TypeParts
<1>0. Counts(spent, spent') /\ UNCHANGED <<kind, trackers, server>>
  BY EyeTypes DEF DaemonTypes, CameraLoop
<1>1. CASE EyeEnter(i)
  BY <1>0, <1>1, EnterMoves DEF EyeEnter, SameFlags, EyeBecomes
<1>2. CASE EyeModel(i)
  BY <1>0, <1>2, ModelMoves DEF EyeModel, SameFlags, EyeBecomes
<1>3. CASE EyeReset(i)
  BY <1>0, <1>3, ResetMoves DEF EyeReset, SameFlags, EyeBecomes
<1>4. CASE EyeStart(i)
  BY <1>0, <1>4, StartMoves, EngineDaemon DEF EyeStart, SameFlags, EyeBecomes
<1>5. CASE EyeCheck(i)
  <2>1. PICK e : EyeBecomes(i, e) /\ e.at = IF Recording THEN "read" ELSE "done"
    BY <1>5, CheckMoves
  <2> QED
    BY <1>0, <1>5, <2>1, CheckMoves DEF EyeCheck, SameFlags, EyeBecomes
<1>6. CASE EyeRead(i)
  BY <1>0, <1>6, ReadMoves DEF EyeRead, SameFlags, EyeBecomes, SameEngine
<1> QED
  BY <1>1, <1>2, <1>3, <1>4, <1>5, <1>6 DEF CameraLoop

LEMMA TrackerActs ==
  ASSUME WellTyped, NEW i \in 1..Len(trackers), TrackingLoop(i)
  PROVE  /\ trackers[i].at # "done" /\ \E t : Put(trackers, trackers', i, t)
         /\ SameFlags(daemon, daemon')
         /\ UNCHANGED <<kind, backend, workers, eyes, server>> /\ Counts(spent, spent')
<1> USE TypeParts
<1>0. Counts(spent, spent') /\ UNCHANGED <<kind, backend, workers, eyes, server>>
  BY TrackerTypes DEF DaemonTypes, TrackingLoop
<1>1. CASE FindVoxels(i)
  <2>1. PICK p, t : TrackerBecomes(i, t) /\ VoxelFound(p, t)
    BY <1>1, FindMoves
  <2>2. PICK v : v = daemon.voxels \cup {p}
    OBVIOUS
  <2>3. daemon' = [daemon EXCEPT !.voxels = v]
    BY <2>1, <2>2 DEF VoxelFound
  <2>4. SameFlags(daemon, daemon')
    BY <2>3 DEF SameFlags, Daemon
  <2> QED
    BY <1>0, <1>1, <2>1, <2>4 DEF FindVoxels, TrackerBecomes
<1>2. CASE StorePose(i)
  <2>1. PICK b : daemon' = [daemon EXCEPT !.poses = <<0>>, !.buffer = b]
    BY <1>2, PoseMoves
  <2>2. SameFlags(daemon, daemon')
    BY <2>1 DEF SameFlags, Daemon
  <2> QED
    BY <1>0, <1>2, <2>2, PoseMoves DEF StorePose, TrackerBecomes
<1>3. CASE TrackingEnds(i)
  BY <1>0, <1>3, EndMoves DEF TrackingEnds, TrackerBecomes, SameFlags
<1> QED
  BY <1>1, <1>2, <1>3 DEF TrackingLoop

-----------------------------------------------------------------------------
(* The cameras' threads                                                     *)

\* A step that keeps the flags and the server keeps what only reads them.
LEMMA CameraFlagsKept ==
  ASSUME CameraState, SameFlags(daemon, daemon'), backend'.running = backend.running,
         UNCHANGED <<server, trackers, ui, bridge>>
  PROVE  CameraFlags' /\ CameraUi' /\ InTouch' /\ (EyeTurn' <=> EyeTurn) /\ (WorkerTurn' <=> WorkerTurn)
<1>1. Stage' = Stage /\ daemon'.running = daemon.running /\ (Records' <=> Records)
  BY DEF SameFlags, Stage, Records
<1>2. CameraFlags'
  BY <1>1 DEF CameraState, CameraInv, CameraFlags, SameFlags
<1>3. CameraUi'
  BY <1>1 DEF CameraState, CameraInv, CameraUi, Asks, CameraStopsNow, CameraStartsNow
<1>4. InTouch'
  BY DEF CameraState, InTouch
<1> QED
  BY <1>1, <1>2, <1>3, <1>4 DEF EyeTurn, WorkerTurn

LEMMA CameraWorkerStep ==
  ASSUME CameraState, BridgeWaits, NEW i \in 1..Len(workers),
         \/ StreamingLoop(i) \/ NetworkFails(i) \/ OnLingbotPoints(i)
  PROVE  CameraInv' /\ InTouch'
<1> USE TypeParts DEF CameraState
<1>1. CameraFlags' /\ CameraUi' /\ InTouch' /\ (EyeTurn' <=> EyeTurn) /\ (WorkerTurn' <=> WorkerTurn)
  BY WorkerActs, CameraFlagsKept DEF BridgeWaits
<1>2. CameraEyes'
  BY <1>1, WorkerActs, Later DEF CameraInv, CameraEyes, SameFlags
<1>3. CameraWorkers'
  BY <1>1, WorkerActs, Later DEF CameraInv, CameraWorkers, Put
<1> QED
  BY <1>1, <1>2, <1>3 DEF CameraInv

LEMMA CameraEyeStep ==
  ASSUME CameraState, BridgeWaits, NEW i \in 1..Len(eyes), CameraLoop(i)
  PROVE  CameraInv' /\ InTouch'
<1> USE TypeParts DEF CameraState
<1>0. eyes[i].at \in {"check", "read"}
  BY EyeActs DEF CameraInv, CameraEyes
<1>1. CameraFlags' /\ CameraUi' /\ InTouch' /\ (EyeTurn' <=> EyeTurn) /\ (WorkerTurn' <=> WorkerTurn)
  BY <1>0, EyeActs, CameraFlagsKept DEF BridgeWaits
<1>2. CameraEyes'
  BY <1>0, <1>1, EyeActs, Later DEF CameraInv, CameraEyes, SameFlags, Put
<1>3. CameraWorkers'
  BY <1>0, <1>1, EyeActs, Later DEF CameraInv, CameraWorkers
<1> QED
  BY <1>1, <1>2, <1>3 DEF CameraInv

LEMMA CameraLoad ==
  ASSUME CameraState, BridgeWaits, LoadModel
  PROVE  CameraInv' /\ InTouch'
<1> USE TypeParts DEF CameraState
<1>0. UNCHANGED <<kind, backend, daemon, threads, server, mark>>
  BY DEF LoadModel
<1>1. Counts(spent, spent')
  <2>1. PICK m \in LoadOutcomes : Costs("fails", m = "loaded")
    BY DEF LoadModel
  <2>2. PICK harmless \in BOOLEAN : harmless <=> m = "loaded"
    OBVIOUS
  <2>3. Costs("fails", harmless)
    BY <2>1, <2>2, Zenon DEF Costs
  <2> QED
    BY <2>3, CostsCounts
<1>2. CameraFlags' /\ CameraUi' /\ InTouch' /\ (EyeTurn' <=> EyeTurn) /\ (WorkerTurn' <=> WorkerTurn)
  BY <1>0, CameraFlagsKept DEF BridgeWaits, SameFlags, threads
<1>3. CameraEyes' /\ CameraWorkers'
  BY <1>0, <1>1, <1>2, CameraThreadsKept DEF threads
<1> QED
  BY <1>2, <1>3 DEF CameraInv

LEMMA CameraDaemonStep ==
  ASSUME CameraState, BridgeWaits, DaemonSteps
  PROVE  CameraInv' /\ InTouch'
<1>1. trackers = <<>>
  BY DEF CameraState, CameraInv, CameraFlags
<1> QED
  BY <1>1, CameraServes, CameraLoad, CameraWorkerStep, CameraEyeStep DEF DaemonSteps

-----------------------------------------------------------------------------
(* The bridge of a camera                                                   *)

\* A step of the bridge that the daemon does not notice.
Unnoticed ==
  /\ SameFlags(daemon, daemon') /\ daemon'.worker = daemon.worker /\ backend'.running = backend.running
  /\ UNCHANGED <<kind, threads, server>> /\ Counts(spent, spent')

LEMMA CameraUnnoticed ==
  ASSUME CameraState, Unnoticed
  PROVE  CameraFlags' /\ CameraEyes' /\ CameraWorkers' /\ Stage' = Stage
<1> USE TypeParts DEF CameraState
<1>1. Stage' = Stage /\ daemon'.running = daemon.running /\ (Records' <=> Records)
  BY DEF Unnoticed, SameFlags, Stage, Records
<1>2. CameraFlags'
  BY <1>1 DEF CameraInv, CameraFlags, SameFlags, Unnoticed, threads
<1>3. (EyeTurn' <=> EyeTurn) /\ (WorkerTurn' <=> WorkerTurn)
  BY <1>1 DEF EyeTurn, WorkerTurn
<1>4. CameraEyes' /\ CameraWorkers'
  BY <1>3, CameraThreadsKept DEF Unnoticed, SameFlags, threads
<1> QED
  BY <1>1, <1>2, <1>4

LEMMA NothingNoticed ==
  ASSUME WellTyped, Counts(spent, spent'), UNCHANGED <<kind, backend, daemon, threads, server>>
  PROVE  Unnoticed
BY DEF Unnoticed, SameFlags, threads

LEMMA CameraButtons ==
  ASSUME CameraState, StartCapture \/ LingBotUnreachable \/ ABotUnreachable \/ OnTelemetryTick \/ StopCapture
  PROVE  CameraInv' /\ InTouch'
<1> USE TypeParts DEF CameraState
<1>0. ui.op = "idle"
  BY DEF StartCapture, LingBotUnreachable, ABotUnreachable, NoDaemon, OnTelemetryTick, StopCapture
<1>1. Asks("idle", <<>>) /\ (daemon.running <=> bridge = "CAPTURING") /\ ~ui.sent /\ ~server.busy
  BY <1>0 DEF CameraInv, CameraUi, Asks, InTouch
<1>2. Counts(spent, spent') /\ UNCHANGED <<kind, backend, daemon, threads, server, bridge>>
  <2>1. CASE StartCapture
    BY <2>1, StartCaptureMoves DEF StartsCapture
  <2>2. CASE LingBotUnreachable \/ ABotUnreachable
    BY <2>2, NoDaemonMoves DEF LingBotUnreachable, ABotUnreachable, NobodyHome
  <2>3. CASE OnTelemetryTick
    BY <2>3, TickMoves, SpentStays DEF daemonVars
  <2>4. CASE StopCapture
    BY <2>4, StopCaptureMoves, SpentStays DEF daemonVars
  <2> QED
    BY <2>1, <2>2, <2>3, <2>4
<1>3. CameraFlags' /\ CameraEyes' /\ CameraWorkers'
  BY <1>2, NothingNoticed, CameraUnnoticed
<1>4. ASSUME NEW op, NEW todo, ui' = Doing(op, todo) PROVE ui'.op = op /\ ui'.todo = todo /\ ~ui'.sent
  BY <1>4 DEF Doing
<1>5. CameraUi' /\ ~ui'.sent
  <2>1. CASE StartCapture
    <3>1. ui' = Doing("start", CameraStart) /\ bridge # "CAPTURING"
      BY <2>1 DEF StartCapture, StartRequests
    <3> QED
      BY <1>1, <1>2, <1>4, <3>1 DEF CameraUi, Asks, CameraStartsNow
  <2>2. CASE LingBotUnreachable \/ ABotUnreachable
    <3>1. PICK op \in {"idle", "hung"} : NoDaemon(op)
      BY <2>2 DEF LingBotUnreachable, ABotUnreachable
    <3> QED
      BY <1>1, <1>2, <3>1, NoDaemonMoves DEF NobodyHome, CameraUi, Asks
  <2>3. CASE OnTelemetryTick
    <3>1. ui' = Doing("tick", TickRequests) /\ bridge = "CAPTURING"
      BY <2>3 DEF OnTelemetryTick
    <3> QED
      BY <1>1, <1>2, <1>4, <3>1 DEF CameraUi, Asks
  <2>4. CASE StopCapture
    <3>1. ui' = Doing("stop", CameraStop) /\ bridge = "CAPTURING"
      BY <2>4 DEF StopCapture, StopRequests
    <3> QED
      BY <1>1, <1>2, <1>4, <3>1 DEF CameraUi, Asks
  <2> QED
    BY <2>1, <2>2, <2>3, <2>4
<1>6. InTouch'
  BY <1>1, <1>2, <1>5 DEF InTouch
<1> QED
  BY <1>3, <1>5, <1>6 DEF CameraInv

\* What goes on while the server does nothing.
LEMMA CameraRequests ==
  ASSUME CameraState, FetchNewPoints \/ FetchAllPoints \/ WaitForModelReady
  PROVE  CameraInv' /\ InTouch'
<1> USE TypeParts DEF CameraState
<1>1. ui.todo # <<>> /\ Head(ui.todo) \in {"NEW", "ALL", "READY"} /\ server = Idle /\ Onwards
  BY DEF FetchNewPoints, FetchAllPoints, WaitForModelReady, Asking
<1>2. \/ Asks("tick", TickRequests) /\ daemon.running /\ bridge = "CAPTURING"
      \/ Asks("stop", CameraStop) /\ daemon.running /\ bridge = "CAPTURING"
  BY <1>1, Lists DEF CameraInv, CameraUi, Asks
<1>3. FetchNewPoints
  BY <1>2, Lists DEF Asks, FetchAllPoints, WaitForModelReady, Asking
<1>4. Unnoticed
  <2>1. SameFlags(daemon, daemon') /\ daemon'.worker = daemon.worker
    BY <1>3, NewPointsMoves DEF SameFlags, Daemon
  <2>2. backend'.running = backend.running
    BY <1>3, NewPointsMoves DEF LingBotTakes, ABotTakes, GlassesTakes, Backend
  <2> QED
    BY <1>3, <2>1, <2>2, SpentStays DEF Unnoticed, FetchNewPoints
<1>5. CameraFlags' /\ CameraEyes' /\ CameraWorkers' /\ Stage' = Stage
  BY <1>4, CameraUnnoticed
<1>6. daemon'.running = daemon.running /\ ~server'.busy /\ server' = Idle
  BY <1>1, <1>4, IdleStage DEF Unnoticed, SameFlags
<1>7. CameraUi' /\ ~ui'.sent
  <2>1. CASE Asks("tick", TickRequests)
    <3>1. ui'.op = "idle" /\ ui'.todo = <<>> /\ ~ui'.sent /\ bridge' = bridge
      BY <1>1, <2>1, OnwardsMoves, Lists DEF Asks
    <3> QED
      BY <1>2, <1>6, <2>1, <3>1, Lists DEF CameraUi, Asks
  <2>2. CASE Asks("stop", CameraStop)
    <3>1. Len(ui.todo) = 2 /\ Tail(ui.todo) = LastStop
      BY <2>2, Lists, Zenon DEF Asks
    <3>2. Len(ui.todo) > 1
      BY <3>1
    <3>3. ui'.op = "stop" /\ ui'.todo = LastStop /\ ~ui'.sent /\ bridge' = bridge
      BY <1>1, <2>2, <3>2, <3>1, OnwardsMoves DEF Asks
    <3> QED
      BY <1>2, <1>6, <2>2, <3>3, Lists DEF CameraUi, Asks, CameraStopsNow
  <2> QED
    BY <1>2, <2>1, <2>2
<1>8. InTouch'
  BY <1>6, <1>7 DEF InTouch
<1> QED
  BY <1>5, <1>7, <1>8 DEF CameraInv

LEMMA SendStages ==
  ASSUME WellTyped, NEW todo, Sends(todo)
  PROVE  /\ Stage = "none"
         /\ Head(ui.todo) = "START" => Stage' = "begin"
         /\ Head(ui.todo) = "STOP"  => Stage' = "flag"
         /\ Glasses => server'.todo \in GlassesSteps
         /\ ~Glasses => server'.todo \in CameraSteps
<1>1. /\ StartSteps # <<>> /\ Head(StartSteps) = "begin"
      /\ StopSteps # <<>> /\ Head(StopSteps) = "flag"
      /\ Glasses => StartSteps \in GlassesSteps /\ StopSteps \in GlassesSteps
      /\ ~Glasses => StartSteps \in CameraSteps /\ StopSteps \in CameraSteps
  BY DEF StartSteps, StopSteps, GlassesSteps, CameraSteps, CameraStarting, CameraStopping
<1> QED
  BY <1>1, IdleStage DEF Sends, Stage, StageOf

LEMMA CameraSend ==
  ASSUME CameraState, Send
  PROVE  CameraInv' /\ InTouch'
<1> USE TypeParts DEF CameraState
<1>1. PICK todo : Sends(todo)
  BY SendMoves
<1>2. Stage = "none" /\ ~server.busy /\ server'.busy /\ server'.ok /\ UNCHANGED <<backend, daemon, threads, bridge>>
      /\ ui'.op = ui.op /\ ui'.todo = ui.todo /\ ui'.sent /\ server'.todo \in CameraSteps /\ Counts(spent, spent')
  BY <1>1, SendStages, IdleStage, SpentStays DEF Sends
<1>3. \/ Asks("stop", LastStop) /\ bridge = "CAPTURING" /\ daemon.running /\ Stage' = "flag"
      \/ Asks("start", CameraStart) /\ bridge # "CAPTURING" /\ ~daemon.running /\ Stage' = "begin"
  BY <1>1, <1>2, SendStages, Lists DEF Sends, CameraInv, CameraUi, Asks, CameraStopsNow, CameraStartsNow
<1>4. CameraFlags'
  BY <1>2, <1>3 DEF CameraInv, CameraFlags, Records, threads
<1>5. CameraEyes' /\ CameraWorkers'
  BY <1>2, <1>3, CameraThreadsKept DEF threads, EyeTurn, WorkerTurn, Records
<1>6. CameraUi'
  BY <1>2, <1>3 DEF CameraUi, Asks, CameraStopsNow, CameraStartsNow
<1>7. InTouch'
  BY <1>1, <1>2 DEF InTouch, Sends
<1> QED
  BY <1>4, <1>5, <1>6, <1>7 DEF CameraInv

LEMMA CameraReceive ==
  ASSUME CameraState, Receive
  PROVE  CameraInv' /\ InTouch'
<1> USE TypeParts DEF CameraState
<1>1. ui.sent /\ server.busy /\ server.todo = <<>> /\ server' = Idle
      /\ UNCHANGED <<kind, backend, daemon, threads, spent>> /\ Counts(spent, spent')
  BY ReceiveMoves, SpentStays
<1>2. Stage = "none" /\ Stage' = "none" /\ ~server'.busy /\ server'.todo = <<>>
  BY <1>1, SkipsIn, IdleType DEF Stage
<1>3. \/ Asks("stop", LastStop) /\ bridge = "CAPTURING" /\ ~daemon.running /\ server.ok
      \/ Asks("start", CameraStart) /\ bridge # "CAPTURING" /\ (daemon.running <=> server.ok)
  BY <1>1, <1>2, Lists DEF InTouch, CameraInv, CameraUi, Asks, CameraStopsNow, CameraStartsNow
<1>4. CameraFlags'
  BY <1>1, <1>2, SkipsIn DEF CameraInv, CameraFlags, Records, threads
<1>5. CameraEyes' /\ CameraWorkers'
  BY <1>1, <1>2, CameraThreadsKept DEF threads, EyeTurn, WorkerTurn, Records
<1>6. CameraUi' /\ ~ui'.sent
  <2>1. CASE GivesUp
    BY <1>1, <1>3, <2>1, ReceiveMoves, RestingType DEF CameraUi, Asks, GivesUp
  <2>2. CASE ~GivesUp
    <3>1. Len(ui.todo) = 1
      BY <1>3, Lists, Zenon DEF Asks
    <3>2. Onwards
      BY <2>2, ReceiveMoves
    <3>3. ~(Len(ui.todo) > 1)
      BY <3>1
    <3>4. ui'.op = "idle" /\ ui'.todo = <<>> /\ ~ui'.sent
      BY <3>2, <3>3, OnwardsMoves
    <3>5. bridge' = IF Asks("start", CameraStart) THEN "CAPTURING" ELSE "STOPPED"
      BY <1>3, <3>2, <3>3, OnwardsMoves DEF Asks
    <3> QED
      BY <1>1, <1>3, <2>2, <3>4, <3>5, Lists DEF CameraUi, Asks, GivesUp
  <2> QED
    BY <2>1, <2>2
<1>7. InTouch'
  BY <1>1, <1>2, <1>6 DEF InTouch
<1> QED
  BY <1>4, <1>5, <1>6, <1>7 DEF CameraInv

LEMMA CameraStep ==
  ASSUME CameraState, Next
  PROVE  CameraInv' /\ InTouch'
BY NextSteps, CameraButtons, CameraRequests, CameraSend, CameraReceive, CameraDaemonStep

-----------------------------------------------------------------------------
(* The glasses' daemon                                                      *)

GlassesState == WellTyped /\ InTouch /\ Glasses /\ GlassesInv

\* While the server is at work the bridge waits for one of two stops or starts.
GlassesWaits ==
  \/ Asks("stop", TwoStops) /\ bridge = "CAPTURING" /\ Stage # "begin" /\ (daemon.running <=> Stage = "flag")
  \/ Asks("stop", LastStop) /\ bridge = "CAPTURING" /\ ~daemon.running /\ Stage = "flag"
  \/ Asks("start", VitureStart) /\ bridge # "CAPTURING" /\ Stage = "begin" /\ ~daemon.running
  \/ Asks("start", CameraStart) /\ bridge # "CAPTURING" /\ Stage = "begin" /\ daemon.running

LEMMA GlassesAtWork ==
  ASSUME GlassesState, Stage # "none"
  PROVE  server.busy /\ GlassesWaits
<1>1. server.busy /\ ui.sent
  BY IdleStage DEF GlassesState, InTouch
<1> QED
  BY <1>1, Lists DEF GlassesState, InTouch, GlassesInv, GlassesUi, Asks, GlassesWaits

LEMMA GlassesNext ==
  ASSUME WellTyped, server.todo \in GlassesSteps, Proceeds
  PROVE  /\ server'.todo \in GlassesSteps /\ server'.busy = server.busy /\ server'.ok = server.ok
         /\ Stage = "begin" => Stage' = "none"
         /\ Stage = "flag" => Stage' = "halt"
         /\ Stage = "halt" => Stage' = "joinWorker"
         /\ Stage = "joinWorker" => Stage' = "joinEye"
         /\ Stage = "joinEye" => Stage' = "joinTracker"
         /\ Stage = "joinTracker" => Stage' = "close"
         /\ Stage = "close" => Stage' = "none"
<1>1. <<Stage, Stage'>> \in GlassesOrder /\ server'.todo \in GlassesSteps /\ server'.busy = server.busy /\ server'.ok = server.ok
  BY DEF Proceeds
<1> QED
  BY <1>1 DEF GlassesOrder

LEMMA GlassesInTouch ==
  ASSUME GlassesState, BridgeWaits, Stage # "none", server'.busy = server.busy
  PROVE  InTouch'
BY GlassesAtWork DEF GlassesState, InTouch, BridgeWaits

EyesTurn    == daemon.running \/ Stage \in {"halt", "joinWorker", "joinEye"}
TrackerTurn == daemon.running \/ Stage \in {"halt", "joinWorker", "joinEye", "joinTracker"}

LEMMA GlassesThreadsKept ==
  ASSUME GlassesState, Len(eyes') = Len(eyes), \A i \in 1..Len(eyes) : eyes'[i].at = eyes[i].at,
         UNCHANGED trackers, Counts(spent, spent'),
         daemon'.eye = daemon.eye, daemon'.tracker = daemon.tracker,
         EyesTurn => EyesTurn', TrackerTurn => TrackerTurn'
  PROVE  GlassesThreads'
<1>1. EyesTurn <=> daemon.running \/ Stage \in {"halt", "joinWorker", "joinEye"}
  BY DEF EyesTurn
<1>2. TrackerTurn <=> daemon.running \/ Stage \in {"halt", "joinWorker", "joinEye", "joinTracker"}
  BY DEF TrackerTurn
<1> QED
  BY Later DEF GlassesState, GlassesInv, GlassesThreads, EyesTurn, TrackerTurn

LEMMA GlassesBeginStep ==
  ASSUME GlassesState, VitureBegin, BridgeWaits
  PROVE  GlassesInv' /\ InTouch'
<1> USE TypeParts DEF GlassesState
<1>1. Stage = "begin" /\ Quietly /\ Proceeds /\ UNCHANGED <<backend, workers, mark>>
  BY VitureBeginMoves
<1>2. server'.todo \in GlassesSteps /\ server'.busy = server.busy /\ server'.ok = server.ok /\ Stage' = "none"
  BY <1>1, GlassesNext DEF GlassesInv, GlassesFlags
<1>3. InTouch'
  BY <1>1, <1>2, GlassesInTouch
<1>4. \/ Asks("start", VitureStart) /\ bridge # "CAPTURING" /\ ~daemon.running
      \/ Asks("start", CameraStart) /\ bridge # "CAPTURING" /\ daemon.running
  BY <1>1, GlassesAtWork DEF GlassesWaits
<1>5. server.busy
  BY <1>1, GlassesAtWork
<1>6. CASE daemon.running /\ UNCHANGED <<daemon, eyes, trackers>>
  <2>1. GlassesFlags'
    BY <1>2, <1>6 DEF GlassesInv, GlassesFlags
  <2>2. GlassesThreads'
    BY <1>1, <1>2, <1>6, GlassesThreadsKept DEF EyesTurn, TrackerTurn, Quietly
  <2>3. GlassesUi'
    BY <1>2, <1>4, <1>6 DEF GlassesUi, Asks, BridgeWaits
  <2> QED
    BY <1>3, <2>1, <2>2, <2>3 DEF GlassesInv
<1>7. CASE \E hardware \in BOOLEAN : GlassesBegin(hardware)
  <2>1. PICK hardware \in BOOLEAN : GlassesBegin(hardware)
    BY <1>7
  <2>2. /\ daemon'.running /\ daemon'.capturing = daemon.capturing /\ daemon'.camera = daemon.camera
        /\ daemon'.tracker = Len(trackers) + 1
        /\ daemon'.eye = IF kind = "VITURE" THEN Len(eyes) + 1 ELSE daemon.eye
    BY <2>1, GlassesBeginType
  <2>3. ~daemon.running /\ Adds(trackers, trackers', Polling)
        /\ IF kind = "VITURE" THEN Adds(eyes, eyes', [at |-> "enter", open |-> FALSE]) ELSE eyes' = eyes
    BY <2>1 DEF GlassesBegin
  <2>4. GlassesFlags'
    BY <1>2, <2>2 DEF GlassesInv, GlassesFlags
  <2>5. GlassesThreads'
    <3>1. Punctual' => /\ \A i \in 1..Len(eyes) : eyes[i].at = "done"
                       /\ \A i \in 1..Len(trackers) : trackers[i].at = "done"
      BY <1>1, <2>3, Later DEF GlassesInv, GlassesThreads, Quietly
    <3>2. Len(eyes) \in Nat /\ Len(trackers) \in Nat
      OBVIOUS
    <3>3. PICK e : e = [at |-> "enter", open |-> FALSE]
      OBVIOUS
    <3>4. ASSUME Punctual', NEW i \in 1..Len(eyes'), eyes'[i].at # "done" PROVE i = daemon'.eye
      <4>1. CASE kind = "VITURE"
        <5>1. Adds(eyes, eyes', e) /\ daemon'.eye = Len(eyes) + 1
          BY <2>2, <2>3, <3>3, <4>1
        <5>2. i \in 1..Len(eyes) \/ i = Len(eyes) + 1
          BY <3>2, <5>1 DEF Adds
        <5> QED
          BY <3>1, <3>4, <5>1, <5>2 DEF Adds
      <4>2. CASE kind # "VITURE"
        BY <2>3, <3>1, <3>4, <4>2
      <4> QED
        BY <4>1, <4>2
    <3>5. ASSUME Punctual', NEW i \in 1..Len(trackers'), trackers'[i].at # "done" PROVE i = daemon'.tracker
      <4>1. Adds(trackers, trackers', Polling) /\ daemon'.tracker = Len(trackers) + 1
        BY <2>2, <2>3
      <4>2. i \in 1..Len(trackers) \/ i = Len(trackers) + 1
        BY <3>2, <4>1 DEF Adds
      <4> QED
        BY <3>1, <3>5, <4>1, <4>2 DEF Adds
    <3> QED
      BY <2>2, <3>4, <3>5 DEF GlassesThreads
  <2>6. GlassesUi'
    BY <1>2, <1>4, <1>5, <2>2, <2>3 DEF GlassesUi, Asks, BridgeWaits
  <2> QED
    BY <1>3, <2>4, <2>5, <2>6 DEF GlassesInv
<1> QED
  BY <1>6, <1>7, VitureBeginMoves

LEMMA GlassesFlag ==
  ASSUME GlassesState, ServerFlag, BridgeWaits
  PROVE  GlassesInv' /\ InTouch'
<1> USE TypeParts DEF GlassesState
<1>1. Stage = "flag" /\ Quietly /\ UNCHANGED <<backend, threads, mark>>
  BY FlagMoves
<1>2. \/ Asks("stop", TwoStops) /\ bridge = "CAPTURING" /\ daemon.running
      \/ Asks("stop", LastStop) /\ bridge = "CAPTURING" /\ ~daemon.running
  BY <1>1, GlassesAtWork DEF GlassesWaits
<1>3. server.busy /\ server.ok
  BY <1>1, GlassesAtWork DEF GlassesInv, GlassesFlags
<1>4. CASE ~daemon.running
  <2>1. Skip(<<>>, TRUE) /\ UNCHANGED daemon
    BY <1>4, FlagMoves
  <2>2. PICK yes \in BOOLEAN : yes
    OBVIOUS
  <2>3. Skip(<<>>, yes)
    BY <2>1, <2>2
  <2>4. server'.todo = <<>> /\ server'.ok /\ server'.busy = server.busy /\ Stage' = "none"
    BY <2>2, <2>3, SkipTypes, SkipsIn
  <2>5. GlassesFlags'
    BY <1>1, <1>4, <2>1, <2>4, SkipsIn DEF GlassesInv, GlassesFlags
  <2>6. GlassesThreads'
    BY <1>1, <1>4, <2>1, GlassesThreadsKept DEF EyesTurn, TrackerTurn, Quietly, threads
  <2>7. GlassesUi'
    BY <1>2, <1>4, <2>1, <2>4 DEF GlassesUi, Asks, BridgeWaits
  <2>8. InTouch'
    BY <1>1, <2>4, GlassesInTouch
  <2> QED
    BY <2>5, <2>6, <2>7, <2>8 DEF GlassesInv
<1>5. CASE daemon.running
  <2>1. Proceeds /\ daemon' = [daemon EXCEPT !.running = FALSE]
    BY <1>5, FlagMoves
  <2>2. ~daemon'.running /\ daemon'.capturing = daemon.capturing /\ daemon'.camera = daemon.camera
        /\ daemon'.hardware = daemon.hardware /\ daemon'.eye = daemon.eye /\ daemon'.tracker = daemon.tracker
    BY <2>1 DEF Daemon
  <2>3. server'.todo \in GlassesSteps /\ server'.busy = server.busy /\ server'.ok = server.ok /\ Stage' = "halt"
    BY <1>1, <2>1, GlassesNext DEF GlassesInv, GlassesFlags
  <2>4. GlassesFlags'
    BY <1>1, <2>2, <2>3 DEF GlassesInv, GlassesFlags
  <2>5. GlassesThreads'
    BY <1>1, <2>2, <2>3, GlassesThreadsKept DEF EyesTurn, TrackerTurn, Quietly, threads
  <2>6. GlassesUi'
    BY <1>2, <1>3, <1>5, <2>2, <2>3 DEF GlassesUi, Asks, BridgeWaits
  <2>7. InTouch'
    BY <1>1, <2>3, GlassesInTouch
  <2> QED
    BY <2>4, <2>5, <2>6, <2>7 DEF GlassesInv
<1> QED
  BY <1>4, <1>5

\* From the flag to the close the bridge waits for the first of two stops.
LEMMA GlassesCloses ==
  ASSUME GlassesState, BridgeWaits, Stage \in {"halt", "joinWorker", "joinEye", "joinTracker", "close"},
         server'.todo \in GlassesSteps, server'.busy = server.busy, server'.ok = server.ok,
         Stage' \in {"joinWorker", "joinEye", "joinTracker", "close", "none"},
         daemon'.running = daemon.running, daemon'.capturing = daemon.capturing, daemon'.camera = daemon.camera,
         daemon'.hardware => daemon.hardware /\ Stage' # "none"
  PROVE  GlassesFlags' /\ GlassesUi' /\ InTouch' /\ ~daemon.running
<1> USE DEF GlassesState
<1>1. Asks("stop", TwoStops) /\ bridge = "CAPTURING" /\ ~daemon.running /\ server.busy
  BY GlassesAtWork DEF GlassesWaits
<1>2. GlassesFlags'
  BY <1>1 DEF GlassesInv, GlassesFlags
<1>3. GlassesUi'
  BY <1>1 DEF GlassesUi, Asks, BridgeWaits
<1>4. InTouch'
  BY GlassesInTouch
<1> QED
  BY <1>1, <1>2, <1>3, <1>4

LEMMA GlassesHaltStep ==
  ASSUME GlassesState, ServerHalt, BridgeWaits
  PROVE  GlassesInv' /\ InTouch'
<1> USE TypeParts DEF GlassesState
<1>1. Stage = "halt" /\ Quietly /\ UNCHANGED <<daemon, threads, mark>>
  BY HaltMoves
<1>2. server'.todo \in GlassesSteps /\ server'.busy = server.busy /\ server'.ok = server.ok /\ Stage' \in {"joinWorker", "joinEye"}
  BY <1>1, HaltMoves, GlassesNext DEF GlassesInv, GlassesFlags, HaltSkips
<1>3. GlassesFlags' /\ GlassesUi' /\ InTouch'
  BY <1>1, <1>2, GlassesCloses
<1>4. GlassesThreads'
  BY <1>1, <1>2, GlassesThreadsKept DEF EyesTurn, TrackerTurn, Quietly, threads
<1> QED
  BY <1>3, <1>4 DEF GlassesInv

LEMMA GlassesJoinWorker ==
  ASSUME GlassesState, ServerJoinWorker, BridgeWaits
  PROVE  GlassesInv' /\ InTouch'
<1> USE TypeParts DEF GlassesState
<1>1. Stage = "joinWorker" /\ Proceeds /\ UNCHANGED <<daemon, threads, mark>> /\ Counts(spent, spent')
  BY JoinWorkerMoves DEF Glasses
<1>2. server'.todo \in GlassesSteps /\ server'.busy = server.busy /\ server'.ok = server.ok /\ Stage' = "joinEye"
  BY <1>1, GlassesNext DEF GlassesInv, GlassesFlags
<1>3. GlassesFlags' /\ GlassesUi' /\ InTouch'
  BY <1>1, <1>2, GlassesCloses
<1>4. GlassesThreads'
  BY <1>1, <1>2, GlassesThreadsKept DEF EyesTurn, TrackerTurn, threads
<1> QED
  BY <1>3, <1>4 DEF GlassesInv

LEMMA GlassesJoinEye ==
  ASSUME GlassesState, ServerJoinEye, BridgeWaits
  PROVE  GlassesInv' /\ InTouch'
<1> USE TypeParts DEF GlassesState
<1>1. Stage = "joinEye" /\ Proceeds /\ daemon' = [daemon EXCEPT !.eye = 0]
      /\ UNCHANGED <<backend, threads, mark>> /\ Counts(spent, spent')
      /\ (spent'.late = 0 => daemon.eye = 0 \/ eyes[daemon.eye].at = "done")
  BY JoinEyeMoves
<1>2. daemon'.running = daemon.running /\ daemon'.capturing = daemon.capturing /\ daemon'.camera = daemon.camera
      /\ daemon'.hardware = daemon.hardware /\ daemon'.tracker = daemon.tracker
  BY <1>1 DEF Daemon
<1>3. server'.todo \in GlassesSteps /\ server'.busy = server.busy /\ server'.ok = server.ok /\ Stage' = "joinTracker"
  BY <1>1, GlassesNext DEF GlassesInv, GlassesFlags
<1>4. GlassesFlags' /\ GlassesUi' /\ InTouch'
  BY <1>1, <1>2, <1>3, GlassesCloses
<1>5. GlassesThreads'
  <2>1. Punctual' => \A i \in 1..Len(eyes) : eyes[i].at = "done"
    BY <1>1, Later DEF GlassesInv, GlassesThreads, Punctual
  <2> QED
    BY <1>1, <1>2, <1>3, <2>1, Later DEF GlassesInv, GlassesThreads, threads
<1> QED
  BY <1>4, <1>5 DEF GlassesInv

LEMMA GlassesJoinTracker ==
  ASSUME GlassesState, ServerJoinTracker, BridgeWaits
  PROVE  GlassesInv' /\ InTouch'
<1> USE TypeParts DEF GlassesState
<1>1. Stage = "joinTracker" /\ Proceeds /\ daemon' = [daemon EXCEPT !.tracker = 0]
      /\ UNCHANGED <<backend, threads, mark>> /\ Counts(spent, spent')
      /\ (spent'.late = 0 => daemon.tracker = 0 \/ trackers[daemon.tracker].at = "done")
  BY JoinTrackerMoves
<1>2. daemon'.running = daemon.running /\ daemon'.capturing = daemon.capturing /\ daemon'.camera = daemon.camera
      /\ daemon'.hardware = daemon.hardware /\ daemon'.eye = daemon.eye
  BY <1>1 DEF Daemon
<1>3. server'.todo \in GlassesSteps /\ server'.busy = server.busy /\ server'.ok = server.ok /\ Stage' = "close"
  BY <1>1, GlassesNext DEF GlassesInv, GlassesFlags
<1>4. GlassesFlags' /\ GlassesUi' /\ InTouch' /\ ~daemon.running
  BY <1>1, <1>2, <1>3, GlassesCloses
<1>5. GlassesThreads'
  <2>1. Punctual' => \A i \in 1..Len(trackers) : trackers[i].at = "done"
    BY <1>1, Later DEF GlassesInv, GlassesThreads, Punctual
  <2>2. Punctual' => \A i \in 1..Len(eyes) : eyes[i].at = "done"
    BY <1>1, <1>4, Later DEF GlassesInv, GlassesThreads
  <2> QED
    BY <1>1, <2>1, <2>2 DEF GlassesThreads, threads
<1> QED
  BY <1>4, <1>5 DEF GlassesInv

LEMMA GlassesClose ==
  ASSUME GlassesState, ServerClose, BridgeWaits
  PROVE  GlassesInv' /\ InTouch'
<1> USE TypeParts DEF GlassesState
<1>1. Stage = "close" /\ Proceeds /\ Quietly /\ UNCHANGED trackers /\ daemon' = [daemon EXCEPT !.hardware = FALSE]
      /\ Len(eyes') = Len(eyes) /\ \A i \in 1..Len(eyes) : eyes'[i].at = eyes[i].at
  BY CloseMoves
<1>2. daemon'.running = daemon.running /\ daemon'.capturing = daemon.capturing /\ daemon'.camera = daemon.camera
      /\ ~daemon'.hardware /\ daemon'.tracker = daemon.tracker /\ daemon'.eye = daemon.eye
  BY <1>1 DEF Daemon
<1>3. server'.todo \in GlassesSteps /\ server'.busy = server.busy /\ server'.ok = server.ok /\ Stage' = "none"
  BY <1>1, GlassesNext DEF GlassesInv, GlassesFlags
<1>4. GlassesFlags' /\ GlassesUi' /\ InTouch' /\ ~daemon.running
  BY <1>1, <1>2, <1>3, GlassesCloses
<1>5. GlassesThreads'
  BY <1>1, <1>2, <1>3, <1>4, GlassesThreadsKept DEF EyesTurn, TrackerTurn, Quietly
<1> QED
  BY <1>4, <1>5 DEF GlassesInv

LEMMA GlassesServes ==
  ASSUME GlassesState, ServerStep, BridgeWaits
  PROVE  GlassesInv' /\ InTouch'
<1>1. ~ServerBegin
  BY DEF ServerBegin, GlassesState
<1>2. Stage \notin {"model", "camera", "release", "end"}
  <2>1. PICK q \in GlassesSteps : q = server.todo
    BY DEF GlassesState, GlassesInv, GlassesFlags
  <2>2. \/ q = <<>>
        \/ Head(q) \in {"begin", "flag", "halt", "joinWorker", "joinEye", "joinTracker", "close"}
    BY DEF GlassesSteps
  <2> QED
    BY <2>1, <2>2 DEF Stage, StageOf
<1>3. ~ServerModel /\ ~ServerCamera /\ ~ServerRelease /\ ~ServerEnd
  BY <1>2, ModelStepMoves, CameraStepMoves, ReleaseMoves, ServerEndMoves DEF GlassesState
<1> QED
  BY <1>1, <1>3, GlassesBeginStep, GlassesFlag, GlassesHaltStep, GlassesJoinWorker, GlassesJoinEye, GlassesJoinTracker,
     GlassesClose DEF ServerStep

-----------------------------------------------------------------------------
(* The glasses' threads                                                     *)

LEMMA GlassesFlagsKept ==
  ASSUME GlassesState, SameFlags(daemon, daemon'), UNCHANGED <<server, ui, bridge>>
  PROVE  GlassesFlags' /\ GlassesUi' /\ InTouch' /\ (EyesTurn' <=> EyesTurn) /\ (TrackerTurn' <=> TrackerTurn)
<1>1. Stage' = Stage /\ daemon'.running = daemon.running
  BY DEF SameFlags, Stage
<1>2. GlassesFlags'
  BY <1>1 DEF GlassesState, GlassesInv, GlassesFlags, SameFlags
<1>3. GlassesUi'
  BY <1>1 DEF GlassesState, GlassesInv, GlassesUi, Asks
<1>4. InTouch'
  BY DEF GlassesState, InTouch
<1> QED
  BY <1>1, <1>2, <1>3, <1>4 DEF EyesTurn, TrackerTurn

LEMMA GlassesWorkerStep ==
  ASSUME GlassesState, BridgeWaits, NEW i \in 1..Len(workers),
         \/ StreamingLoop(i) \/ NetworkFails(i) \/ OnLingbotPoints(i)
  PROVE  GlassesInv' /\ InTouch'
<1> USE TypeParts DEF GlassesState
<1>1. GlassesFlags' /\ GlassesUi' /\ InTouch' /\ (EyesTurn' <=> EyesTurn) /\ (TrackerTurn' <=> TrackerTurn)
  BY WorkerActs, GlassesFlagsKept DEF BridgeWaits
<1>2. GlassesThreads'
  BY <1>1, WorkerActs, GlassesThreadsKept DEF SameFlags
<1> QED
  BY <1>1, <1>2 DEF GlassesInv

LEMMA GlassesEyeStep ==
  ASSUME GlassesState, BridgeWaits, NEW i \in 1..Len(eyes), CameraLoop(i)
  PROVE  GlassesInv' /\ InTouch'
<1> USE TypeParts DEF GlassesState
<1>1. GlassesFlags' /\ GlassesUi' /\ InTouch' /\ (EyesTurn' <=> EyesTurn) /\ (TrackerTurn' <=> TrackerTurn)
  BY EyeActs, GlassesFlagsKept DEF BridgeWaits
<1>2. PICK e : Put(eyes, eyes', i, e)
  BY EyeActs
<1>3. eyes[i].at # "done" /\ UNCHANGED trackers /\ Counts(spent, spent') /\ SameFlags(daemon, daemon')
  BY EyeActs
<1>4. GlassesThreads'
  BY <1>1, <1>2, <1>3, Later DEF GlassesInv, GlassesThreads, EyesTurn, TrackerTurn, SameFlags, Put
<1> QED
  BY <1>1, <1>4 DEF GlassesInv

LEMMA GlassesTrackerStep ==
  ASSUME GlassesState, BridgeWaits, NEW i \in 1..Len(trackers), TrackingLoop(i)
  PROVE  GlassesInv' /\ InTouch'
<1> USE TypeParts DEF GlassesState
<1>1. GlassesFlags' /\ GlassesUi' /\ InTouch' /\ (EyesTurn' <=> EyesTurn) /\ (TrackerTurn' <=> TrackerTurn)
  BY TrackerActs, GlassesFlagsKept DEF BridgeWaits
<1>2. PICK t : Put(trackers, trackers', i, t)
  BY TrackerActs
<1>3. trackers[i].at # "done" /\ UNCHANGED eyes /\ Counts(spent, spent') /\ SameFlags(daemon, daemon')
  BY TrackerActs
<1>4. GlassesThreads'
  BY <1>1, <1>2, <1>3, Later DEF GlassesInv, GlassesThreads, EyesTurn, TrackerTurn, SameFlags, Put
<1> QED
  BY <1>1, <1>4 DEF GlassesInv

LEMMA LoadMoves ==
  ASSUME WellTyped, LoadModel
  PROVE  Counts(spent, spent') /\ UNCHANGED <<kind, backend, daemon, threads, server, mark>>
<1>1. PICK m \in LoadOutcomes : Costs("fails", m = "loaded")
  BY DEF LoadModel
<1>2. PICK harmless \in BOOLEAN : harmless <=> m = "loaded"
  OBVIOUS
<1>3. Costs("fails", harmless)
  BY <1>1, <1>2, Zenon DEF Costs
<1> QED
  BY <1>3, CostsCounts, TypeParts DEF LoadModel

LEMMA GlassesLoad ==
  ASSUME GlassesState, BridgeWaits, LoadModel
  PROVE  GlassesInv' /\ InTouch'
<1> USE TypeParts DEF GlassesState
<1>1. SameFlags(daemon, daemon') /\ UNCHANGED <<server, eyes, trackers>> /\ Counts(spent, spent')
  BY LoadMoves DEF SameFlags, threads
<1>2. GlassesFlags' /\ GlassesUi' /\ InTouch' /\ (EyesTurn' <=> EyesTurn) /\ (TrackerTurn' <=> TrackerTurn)
  BY <1>1, GlassesFlagsKept DEF BridgeWaits
<1>3. GlassesThreads'
  BY <1>1, <1>2, GlassesThreadsKept DEF SameFlags
<1> QED
  BY <1>2, <1>3 DEF GlassesInv

LEMMA GlassesDaemonStep ==
  ASSUME GlassesState, BridgeWaits, DaemonSteps
  PROVE  GlassesInv' /\ InTouch'
BY GlassesServes, GlassesLoad, GlassesWorkerStep, GlassesEyeStep, GlassesTrackerStep DEF DaemonSteps

-----------------------------------------------------------------------------
(* The bridge of the glasses                                                *)

LEMMA GlassesUnnoticed ==
  ASSUME GlassesState, Unnoticed
  PROVE  GlassesFlags' /\ GlassesThreads' /\ Stage' = Stage /\ daemon'.running = daemon.running
<1> USE TypeParts DEF GlassesState
<1>1. Stage' = Stage /\ daemon'.running = daemon.running
  BY DEF Unnoticed, SameFlags, Stage
<1>2. GlassesFlags'
  BY <1>1 DEF GlassesInv, GlassesFlags, SameFlags, Unnoticed
<1>3. GlassesThreads'
  BY <1>1, GlassesThreadsKept DEF Unnoticed, SameFlags, threads, EyesTurn, TrackerTurn
<1> QED
  BY <1>1, <1>2, <1>3

LEMMA GlassesButtons ==
  ASSUME GlassesState, StartCapture \/ LingBotUnreachable \/ ABotUnreachable \/ OnTelemetryTick \/ StopCapture
  PROVE  GlassesInv' /\ InTouch'
<1> USE TypeParts DEF GlassesState
<1>0. ui.op = "idle"
  BY DEF StartCapture, LingBotUnreachable, ABotUnreachable, NoDaemon, OnTelemetryTick, StopCapture
<1>1. Asks("idle", <<>>) /\ (daemon.running <=> bridge = "CAPTURING") /\ ~ui.sent /\ ~server.busy
  BY <1>0 DEF GlassesInv, GlassesUi, Asks, InTouch
<1>2. ~LingBotUnreachable /\ ~ABotUnreachable
  BY DEF LingBotUnreachable, ABotUnreachable, Glasses
<1>3. Counts(spent, spent') /\ UNCHANGED <<kind, backend, daemon, threads, server, bridge>>
  <2>1. CASE StartCapture
    BY <2>1, StartCaptureMoves DEF StartsCapture
  <2>2. CASE OnTelemetryTick
    BY <2>2, TickMoves, SpentStays DEF daemonVars
  <2>3. CASE StopCapture
    BY <2>3, StopCaptureMoves, SpentStays DEF daemonVars
  <2> QED
    BY <1>2, <2>1, <2>2, <2>3
<1>4. Stage = "none"
  BY <1>1, IdleStage DEF InTouch
<1>5. GlassesFlags' /\ GlassesThreads' /\ Stage' = Stage
  BY <1>3, NothingNoticed, GlassesUnnoticed
<1>6. ASSUME NEW op, NEW todo, ui' = Doing(op, todo) PROVE ui'.op = op /\ ui'.todo = todo /\ ~ui'.sent
  BY <1>6 DEF Doing
<1>7. GlassesUi' /\ ~ui'.sent
  <2>1. CASE StartCapture
    <3>1. ui' = Doing("start", VitureStart) /\ bridge # "CAPTURING"
      BY <2>1 DEF StartCapture, StartRequests
    <3> QED
      BY <1>1, <1>3, <1>5, <1>6, <1>4, <3>1 DEF GlassesUi, Asks
  <2>2. CASE OnTelemetryTick
    <3>1. ui' = Doing("tick", TickRequests) /\ bridge = "CAPTURING"
      BY <2>2 DEF OnTelemetryTick
    <3> QED
      BY <1>1, <1>3, <1>6, <3>1 DEF GlassesUi, Asks
  <2>3. CASE StopCapture
    <3>1. ui' = Doing("stop", VitureStop) /\ bridge = "CAPTURING"
      BY <2>3 DEF StopCapture, StopRequests
    <3> QED
      BY <1>1, <1>3, <1>6, <3>1 DEF GlassesUi, Asks
  <2> QED
    BY <1>2, <2>1, <2>2, <2>3
<1>8. InTouch'
  BY <1>1, <1>3, <1>7 DEF InTouch
<1> QED
  BY <1>5, <1>7, <1>8 DEF GlassesInv

LEMMA GlassesRequests ==
  ASSUME GlassesState, FetchNewPoints \/ FetchAllPoints \/ WaitForModelReady
  PROVE  GlassesInv' /\ InTouch'
<1> USE TypeParts DEF GlassesState
<1>1. ui.todo # <<>> /\ Head(ui.todo) \in {"NEW", "ALL", "READY"} /\ server = Idle /\ Onwards
  BY DEF FetchNewPoints, FetchAllPoints, WaitForModelReady, Asking
<1>2. Stage = "none" /\ ~server.busy
  BY <1>1, IdleStage
<1>3. Unnoticed
  <2>1. CASE FetchNewPoints
    <3>1. SameFlags(daemon, daemon') /\ daemon'.worker = daemon.worker
      BY <2>1, NewPointsMoves DEF SameFlags, Daemon
    <3>2. backend'.running = backend.running
      BY <2>1, NewPointsMoves DEF LingBotTakes, ABotTakes, GlassesTakes, Backend
    <3> QED
      BY <2>1, <3>1, <3>2, SpentStays DEF Unnoticed, FetchNewPoints
  <2>2. CASE FetchAllPoints
    BY <2>2, SpentStays, NothingNoticed DEF FetchAllPoints, daemonVars
  <2>3. CASE WaitForModelReady
    BY <2>3, ReadyMoves, NothingNoticed
  <2> QED
    BY <2>1, <2>2, <2>3
<1>4. GlassesFlags' /\ GlassesThreads' /\ Stage' = Stage /\ daemon'.running = daemon.running
  BY <1>3, GlassesUnnoticed
<1>5. ~server'.busy /\ server' = Idle
  BY <1>1, <1>3, IdleStage DEF Unnoticed
<1>6. \/ Asks("tick", TickRequests) /\ daemon.running /\ bridge = "CAPTURING"
      \/ Asks("stop", VitureStop) /\ daemon.running /\ bridge = "CAPTURING"
      \/ Asks("start", ReadyStart) /\ daemon.running /\ bridge # "CAPTURING"
  BY <1>1, Lists DEF GlassesInv, GlassesUi, Asks
<1>7. GlassesUi' /\ ~ui'.sent
  <2>1. CASE Asks("tick", TickRequests)
    <3>1. ui'.op = "idle" /\ ui'.todo = <<>> /\ ~ui'.sent /\ bridge' = bridge
      BY <1>1, <2>1, OnwardsMoves, Lists DEF Asks
    <3> QED
      BY <1>4, <1>6, <2>1, <3>1, Lists DEF GlassesUi, Asks
  <2>2. CASE Asks("stop", VitureStop)
    <3>1. Len(ui.todo) = 3 /\ Tail(ui.todo) = TwoStops
      BY <2>2, Lists, Zenon DEF Asks
    <3>2. Len(ui.todo) > 1
      BY <3>1
    <3>3. ui'.op = "stop" /\ ui'.todo = TwoStops /\ ~ui'.sent /\ bridge' = bridge
      BY <1>1, <2>2, <3>2, <3>1, OnwardsMoves DEF Asks
    <3> QED
      BY <1>2, <1>4, <1>5, <1>6, <2>2, <3>3, Lists DEF GlassesUi, Asks
  <2>3. CASE Asks("start", ReadyStart)
    <3>1. Len(ui.todo) = 2 /\ Tail(ui.todo) = CameraStart
      BY <2>3, Lists, Zenon DEF Asks
    <3>2. Len(ui.todo) > 1
      BY <3>1
    <3>3. ui'.op = "start" /\ ui'.todo = CameraStart /\ ~ui'.sent /\ bridge' = bridge
      BY <1>1, <2>3, <3>2, <3>1, OnwardsMoves DEF Asks
    <3> QED
      BY <1>2, <1>4, <1>6, <2>3, <3>3, Lists DEF GlassesUi, Asks
  <2> QED
    BY <1>6, <2>1, <2>2, <2>3
<1>8. InTouch'
  BY <1>5, <1>7 DEF InTouch
<1> QED
  BY <1>4, <1>7, <1>8 DEF GlassesInv

LEMMA GlassesSend ==
  ASSUME GlassesState, Send
  PROVE  GlassesInv' /\ InTouch'
<1> USE TypeParts DEF GlassesState
<1>1. PICK todo : Sends(todo)
  BY SendMoves
<1>2. Stage = "none" /\ ~server.busy /\ server'.busy /\ server'.ok /\ UNCHANGED <<backend, daemon, threads, bridge>>
      /\ ui'.op = ui.op /\ ui'.todo = ui.todo /\ ui'.sent /\ server'.todo \in GlassesSteps /\ Counts(spent, spent')
  BY <1>1, SendStages, IdleStage, SpentStays DEF Sends
<1>3. \/ Asks("stop", TwoStops) /\ bridge = "CAPTURING" /\ daemon.running /\ Stage' = "flag"
      \/ Asks("stop", LastStop) /\ bridge = "CAPTURING" /\ ~daemon.running /\ Stage' = "flag"
      \/ Asks("start", VitureStart) /\ bridge # "CAPTURING" /\ ~daemon.running /\ Stage' = "begin"
      \/ Asks("start", CameraStart) /\ bridge # "CAPTURING" /\ daemon.running /\ Stage' = "begin"
  BY <1>1, <1>2, SendStages, Lists DEF Sends, GlassesInv, GlassesUi, Asks
<1>4. GlassesFlags'
  BY <1>2, <1>3 DEF GlassesInv, GlassesFlags
<1>5. GlassesThreads'
  BY <1>2, <1>3, GlassesThreadsKept DEF threads, EyesTurn, TrackerTurn
<1>6. GlassesUi'
  BY <1>2, <1>3 DEF GlassesUi, Asks
<1>7. InTouch'
  BY <1>1, <1>2 DEF InTouch, Sends
<1> QED
  BY <1>4, <1>5, <1>6, <1>7 DEF GlassesInv

LEMMA GlassesReceive ==
  ASSUME GlassesState, Receive
  PROVE  GlassesInv' /\ InTouch'
<1> USE TypeParts DEF GlassesState
<1>1. ui.sent /\ server.busy /\ server.todo = <<>> /\ server' = Idle
      /\ UNCHANGED <<kind, backend, daemon, threads, spent>> /\ Counts(spent, spent')
  BY ReceiveMoves, SpentStays
<1>2. Stage = "none" /\ Stage' = "none" /\ ~server'.busy /\ server'.todo = <<>> /\ server'.ok
  BY <1>1, SkipsIn, IdleType DEF Stage
<1>3. \/ Asks("stop", TwoStops) /\ bridge = "CAPTURING" /\ ~daemon.running
      \/ Asks("stop", LastStop) /\ bridge = "CAPTURING" /\ ~daemon.running
      \/ Asks("start", VitureStart) /\ bridge # "CAPTURING" /\ daemon.running
      \/ Asks("start", CameraStart) /\ bridge # "CAPTURING" /\ daemon.running
  BY <1>1, <1>2, Lists DEF InTouch, GlassesInv, GlassesUi, Asks
<1>4. GlassesFlags'
  BY <1>1, <1>2, SkipsIn DEF GlassesInv, GlassesFlags
<1>5. GlassesThreads'
  BY <1>1, <1>2, GlassesThreadsKept DEF threads, EyesTurn, TrackerTurn
<1>6. Onwards
  BY ReceiveMoves DEF GivesUp, GlassesInv, GlassesFlags
<1>7. GlassesUi' /\ ~ui'.sent
  <2>1. CASE Asks("stop", TwoStops)
    <3>1. Len(ui.todo) = 2 /\ Tail(ui.todo) = LastStop
      BY <2>1, Lists, Zenon DEF Asks
    <3>2. Len(ui.todo) > 1
      BY <3>1
    <3>3. ui'.op = "stop" /\ ui'.todo = LastStop /\ ~ui'.sent /\ bridge' = bridge
      BY <1>6, <2>1, <3>2, <3>1, OnwardsMoves DEF Asks
    <3> QED
      BY <1>1, <1>2, <1>3, <2>1, <3>3, Lists DEF GlassesUi, Asks
  <2>2. CASE Asks("start", VitureStart)
    <3>1. Len(ui.todo) = 3 /\ Tail(ui.todo) = ReadyStart
      BY <2>2, Lists, Zenon DEF Asks
    <3>2. Len(ui.todo) > 1
      BY <3>1
    <3>3. ui'.op = "start" /\ ui'.todo = ReadyStart /\ ~ui'.sent /\ bridge' = bridge
      BY <1>6, <2>2, <3>2, <3>1, OnwardsMoves DEF Asks
    <3> QED
      BY <1>1, <1>2, <1>3, <2>2, <3>3, Lists DEF GlassesUi, Asks
  <2>3. CASE Asks("stop", LastStop) \/ Asks("start", CameraStart)
    <3>1. Len(ui.todo) = 1
      BY <2>3, Lists, Zenon DEF Asks
    <3>2. ~(Len(ui.todo) > 1)
      BY <3>1
    <3>3. ui'.op = "idle" /\ ui'.todo = <<>> /\ ~ui'.sent
      BY <1>6, <3>2, OnwardsMoves
    <3>4. bridge' = IF Asks("start", CameraStart) THEN "CAPTURING" ELSE "STOPPED"
      BY <1>6, <2>3, <3>2, OnwardsMoves DEF Asks
    <3> QED
      BY <1>1, <1>3, <2>3, <3>3, <3>4, Lists DEF GlassesUi, Asks
  <2> QED
    BY <1>3, <2>1, <2>2, <2>3
<1>8. InTouch'
  BY <1>1, <1>2, <1>7 DEF InTouch
<1> QED
  BY <1>4, <1>5, <1>7, <1>8 DEF GlassesInv

LEMMA GlassesStep ==
  ASSUME GlassesState, Next
  PROVE  GlassesInv' /\ InTouch'
BY NextSteps, GlassesButtons, GlassesRequests, GlassesSend, GlassesReceive, GlassesDaemonStep

-----------------------------------------------------------------------------

LEMMA KindStays ==
  ASSUME Next PROVE UNCHANGED kind
<1>1. DaemonSteps => UNCHANGED kind
  BY DEF DaemonSteps, LoadModel, ServerStep, StreamingLoop, NetworkFails, OnLingbotPoints, CameraLoop, TrackingLoop
<1> QED
  BY <1>1, NextSteps DEF StartCapture, LingBotUnreachable, ABotUnreachable, NoDaemon, OnTelemetryTick, StopCapture,
     FetchNewPoints, FetchAllPoints, WaitForModelReady, Send, Receive, daemonVars

LEMMA ControlInit ==
  ASSUME Init PROVE Control
<1>1. server = Idle /\ ui = Resting /\ bridge = "READY" /\ eyes = <<>> /\ workers = <<>> /\ trackers = <<>>
      /\ ~daemon.running /\ ~daemon.capturing /\ ~daemon.camera /\ ~daemon.hardware /\ ~backend.running
  BY DEF Init, DaemonInit, Created
<1>2. Stage = "none" /\ ~server.busy /\ server.ok /\ server.todo = <<>>
  BY <1>1, IdleStage
<1>3. InTouch /\ Asks("idle", <<>>)
  BY <1>1, <1>2, RestingType DEF InTouch, Asks
<1>4. GlassesInv
  BY <1>1, <1>2, <1>3, SkipsIn DEF GlassesInv, GlassesFlags, GlassesThreads, GlassesUi
<1>5. CameraInv
  BY <1>1, <1>2, <1>3, SkipsIn DEF CameraInv, CameraFlags, CameraEyes, CameraWorkers, CameraUi, Records
<1> QED
  BY <1>3, <1>4, <1>5, WellTypedInit DEF Control

LEMMA ControlStep ==
  ASSUME Control, [Next]_vars
  PROVE  Control'
<1>0. WellTyped'
  BY WellTypedStep DEF Control
<1>1. CASE Next
  <2>1. Glasses' <=> Glasses
    BY <1>1, KindStays, SameKind
  <2>2. CASE Glasses
    BY <1>0, <1>1, <2>1, <2>2, GlassesStep DEF Control, GlassesState
  <2>3. CASE ~Glasses
    BY <1>0, <1>1, <2>1, <2>3, CameraStep DEF Control, CameraState
  <2> QED
    BY <2>2, <2>3
<1>2. CASE UNCHANGED vars
  <2>1. UNCHANGED <<kind, backend, daemon, workers, eyes, trackers, server, spent, ui, bridge>>
    BY <1>2 DEF vars, daemonVars, threads
  <2>2. InTouch <=> InTouch'
    BY <2>1 DEF InTouch
  <2>3. Glasses' <=> Glasses
    BY <2>1 DEF Glasses
  <2>4. GlassesInv => GlassesInv'
    BY <2>1 DEF GlassesInv, GlassesFlags, GlassesThreads, GlassesUi, Asks, Stage, Punctual
  <2>5. CameraInv => CameraInv'
    BY <2>1 DEF CameraInv, CameraFlags, CameraEyes, CameraWorkers, CameraUi, Asks, Stage, Punctual, Records, EyeTurn, WorkerTurn,
       CameraStopsNow, CameraStartsNow
  <2> QED
    BY <1>0, <2>2, <2>3, <2>4, <2>5 DEF Control
<1> QED
  BY <1>1, <1>2

LEMMA ControlIsQuiet ==
  ASSUME Control PROVE Quiet
<1>1. SUFFICES ASSUME Punctual, IdleAfter
      PROVE  /\ ~daemon.running /\ ~daemon.capturing /\ ~daemon.camera /\ ~daemon.hardware
             /\ \A i \in 1..Len(eyes) : eyes[i].at = "done"
             /\ \A i \in 1..Len(trackers) : trackers[i].at = "done"
             /\ ~Glasses => \A i \in 1..Len(workers) : workers[i].at = "done"
  BY DEF Quiet
<1>2. CASE Glasses
  <2>1. Asks("idle", <<>>) /\ ~daemon.running
    BY <1>1, <1>2 DEF Control, GlassesInv, GlassesUi, Asks, IdleAfter
  <2>2. Stage = "none"
    BY <2>1, IdleStage DEF Control, InTouch, Asks
  <2> QED
    BY <1>1, <1>2, <2>1, <2>2 DEF Control, GlassesInv, GlassesFlags, GlassesThreads
<1>3. CASE ~Glasses
  <2>1. Asks("idle", <<>>) /\ ~daemon.running
    BY <1>1, <1>3 DEF Control, CameraInv, CameraUi, Asks, IdleAfter
  <2>2. Stage = "none"
    BY <2>1, IdleStage DEF Control, InTouch, Asks
  <2>3. ~EyeTurn /\ ~WorkerTurn /\ ~Records
    BY <2>1, <2>2 DEF EyeTurn, WorkerTurn, Records
  <2> QED
    BY <1>1, <1>3, <2>1, <2>2, <2>3 DEF Control, CameraInv, CameraFlags, CameraEyes, CameraWorkers
<1> QED
  BY <1>2, <1>3

\* When a stop has returned, or a start that failed, and every thread ended
\* within the time its join allows, nothing of the daemon runs and its camera
\* is free: with any of the four daemons, after any number of captures.
THEOREM StopsAreQuiet == BenchSpec => []Quiet
<1>1. BenchInit => Control
  BY ControlInit DEF BenchInit
<1>2. Control /\ [BenchNext]_benchVars => Control'
  BY ControlStep, BenchNeural
<1>3. Control => Quiet
  BY ControlIsQuiet
<1> QED
  BY <1>1, <1>2, <1>3, PTL DEF BenchSpec

-----------------------------------------------------------------------------
(* Points in three hands                                                    *)

\* s is p, then q, then r.
Strung(p, q, r, s) ==
  /\ p \in Seq(Place) /\ q \in Seq(Place) /\ r \in Seq(Place) /\ s \in Seq(Place)
  /\ Len(s) = Len(p) + Len(q) + Len(r)
  /\ \A j \in 1..Len(p) : s[j] = p[j]
  /\ \A j \in 1..Len(q) : s[Len(p) + j] = q[j]
  /\ \A j \in 1..Len(r) : s[Len(p) + Len(q) + j] = r[j]

LEMMA StrungFetched ==
  ASSUME NEW p, NEW q, NEW r, NEW s, Strung(p, q, r, s), NEW t, t = p \o q
  PROVE  Strung(t, <<>>, r, s)
<1>1. p \in Seq(Place) /\ q \in Seq(Place) /\ r \in Seq(Place) /\ <<>> \in Seq(Place) /\ Len(<<>>) = 0
  BY DEF Strung
<1>2. /\ t \in Seq(Place) /\ Len(t) = Len(p) + Len(q)
      /\ \A j \in 1..Len(p) : t[j] = p[j]
      /\ \A j \in 1..Len(q) : t[Len(p) + j] = q[j]
  BY <1>1, ConcatIs
<1>3. ASSUME NEW j \in 1..Len(t) PROVE s[j] = t[j]
  <2>1. CASE j <= Len(p)
    <3>1. j \in 1..Len(p)
      BY <1>1, <1>2, <1>3, <2>1
    <3> QED
      BY <1>2, <3>1 DEF Strung
  <2>2. CASE ~(j <= Len(p))
    <3>1. PICK k \in 1..Len(q) : j = Len(p) + k
      <4>1. j - Len(p) \in 1..Len(q) /\ j = Len(p) + (j - Len(p))
        BY <1>1, <1>2, <1>3, <2>2
      <4> QED
        BY <4>1
    <3> QED
      BY <1>2, <3>1 DEF Strung
  <2> QED
    BY <2>1, <2>2
<1> QED
  BY <1>1, <1>2, <1>3 DEF Strung

LEMMA StrungDelivered ==
  ASSUME NEW p, NEW q, NEW r, NEW s, Strung(p, q, r, s), NEW t, t = q \o r
  PROVE  Strung(p, t, <<>>, s)
<1>1. p \in Seq(Place) /\ q \in Seq(Place) /\ r \in Seq(Place) /\ <<>> \in Seq(Place) /\ Len(<<>>) = 0
  BY DEF Strung
<1>2. /\ t \in Seq(Place) /\ Len(t) = Len(q) + Len(r)
      /\ \A j \in 1..Len(q) : t[j] = q[j]
      /\ \A j \in 1..Len(r) : t[Len(q) + j] = r[j]
  BY <1>1, ConcatIs
<1>3. ASSUME NEW j \in 1..Len(t) PROVE s[Len(p) + j] = t[j]
  <2>1. CASE j <= Len(q)
    <3>1. j \in 1..Len(q)
      BY <1>1, <1>2, <1>3, <2>1
    <3> QED
      BY <1>2, <3>1 DEF Strung
  <2>2. CASE ~(j <= Len(q))
    <3>1. PICK k \in 1..Len(r) : j = Len(q) + k
      <4>1. j - Len(q) \in 1..Len(r) /\ j = Len(q) + (j - Len(q))
        BY <1>1, <1>2, <1>3, <2>2
      <4> QED
        BY <4>1
    <3>2. t[j] = r[k] /\ s[Len(p) + Len(q) + k] = r[k]
      BY <1>2, <3>1 DEF Strung
    <3>3. Len(p) + j = Len(p) + Len(q) + k
      BY <1>1, <3>1
    <3> QED
      BY <3>2, <3>3
  <2> QED
    BY <2>1, <2>2
<1> QED
  BY <1>1, <1>2, <1>3 DEF Strung

\* What Beyond cuts off follows what was there.
LEMMA StrungGrown ==
  ASSUME NEW p, NEW q, NEW s, Strung(p, q, <<>>, s), NEW w, Grown(s, w), NEW r, r = Beyond(w, s)
  PROVE  Strung(p, q, r, w)
<1>1. p \in Seq(Place) /\ q \in Seq(Place) /\ s \in Seq(Place) /\ w \in Seq(Place) /\ Len(s) <= Len(w) /\ Len(<<>>) = 0
  BY DEF Strung, Grown
<1>2. PICK m \in Nat \ {0} : m = Len(s) + 1
  BY <1>1
<1>3. PICK n \in Nat : n = Len(w)
  BY <1>1
<1>4. r = SubSeq(w, m, n)
  BY <1>2, <1>3 DEF Beyond
<1>5. r \in Seq(Place) /\ Len(r) = n - m + 1 /\ \A j \in 1..Len(r) : r[j] = w[m + j - 1]
  BY <1>1, <1>2, <1>3, <1>4, SliceIs
<1>6. Len(s) = Len(p) + Len(q)
  BY <1>1 DEF Strung
<1>7. Len(w) = Len(p) + Len(q) + Len(r)
  BY <1>1, <1>2, <1>3, <1>5, <1>6
<1>8. ASSUME NEW j \in 1..Len(p) PROVE w[j] = p[j]
  <2>1. j \in 1..Len(s)
    BY <1>1, <1>6, <1>8
  <2> QED
    BY <2>1 DEF Strung, Grown
<1>9. ASSUME NEW j \in 1..Len(q) PROVE w[Len(p) + j] = q[j]
  <2>1. Len(p) + j \in 1..Len(s)
    BY <1>1, <1>6, <1>9
  <2> QED
    BY <2>1 DEF Strung, Grown
<1>10. ASSUME NEW j \in 1..Len(r) PROVE w[Len(p) + Len(q) + j] = r[j]
  <2>1. Len(p) + Len(q) + j = m + j - 1
    BY <1>1, <1>2, <1>5, <1>6, <1>10
  <2> QED
    BY <1>5, <2>1
<1> QED
  BY <1>1, <1>5, <1>7, <1>8, <1>9, <1>10 DEF Strung

LEMMA StrungAdded ==
  ASSUME NEW p, NEW q, NEW s, Strung(p, q, <<>>, s), NEW x \in Place, NEW w, w = Append(s, x)
  PROVE  Strung(p, q, <<x>>, w)
<1>1. p \in Seq(Place) /\ q \in Seq(Place) /\ s \in Seq(Place) /\ Len(<<>>) = 0 /\ Len(s) = Len(p) + Len(q)
  BY DEF Strung
<1>2. w \in Seq(Place) /\ Adds(s, w, x)
  BY <1>1, AddsIs
<1>3. <<x>> \in Seq(Place) /\ Len(<<x>>) = 1 /\ <<x>>[1] = x
  OBVIOUS
<1>4. Len(w) = Len(s) + 1 /\ w[Len(s) + 1] = x /\ \A j \in 1..Len(s) : w[j] = s[j]
  BY <1>1, <1>2 DEF Adds
<1>5. ASSUME NEW j \in 1..Len(p) PROVE w[j] = p[j]
  <2>1. j \in 1..Len(s)
    BY <1>1, <1>5
  <2> QED
    BY <1>4, <2>1 DEF Strung
<1>6. ASSUME NEW j \in 1..Len(q) PROVE w[Len(p) + j] = q[j]
  <2>1. Len(p) + j \in 1..Len(s)
    BY <1>1, <1>6
  <2> QED
    BY <1>4, <2>1 DEF Strung
<1>7. PICK r : r = <<x>>
  OBVIOUS
<1>8. r \in Seq(Place) /\ Len(r) = 1 /\ r[1] = x
  BY <1>3, <1>7
<1>9. \A j \in 1..Len(r) : w[Len(p) + Len(q) + j] = r[j]
  BY <1>1, <1>4, <1>8
<1>10. Len(w) = Len(p) + Len(q) + Len(r)
  BY <1>1, <1>4, <1>8
<1>11. Strung(p, q, r, w)
  BY <1>1, <1>2, <1>5, <1>6, <1>8, <1>9, <1>10 DEF Strung
<1> QED
  BY <1>7, <1>11

LEMMA StrungOnce ==
  ASSUME NEW p, NEW q, NEW r, NEW s, Strung(p, q, r, s), Once(s)
  PROVE  Once(p)
<1>1. Len(p) \in Nat /\ Len(q) \in Nat /\ Len(r) \in Nat /\ Len(s) = Len(p) + Len(q) + Len(r)
  BY DEF Strung
<1>2. \A j \in 1..Len(p) : j \in 1..Len(s) /\ s[j] = p[j]
  BY <1>1 DEF Strung
<1> QED
  BY <1>2 DEF Once

\* One followed by nothing is itself, and holds what it holds.
LEMMA StrungAll ==
  ASSUME NEW p, NEW s, Strung(p, <<>>, <<>>, s)
  PROVE  \A x : x \in ToSet(s) => x \in ToSet(p)
<1>1. p \in Seq(Place) /\ s \in Seq(Place) /\ Len(<<>>) = 0 /\ Len(s) = Len(p)
  BY DEF Strung
<1>2. \A j \in 1..Len(p) : s[j] = p[j]
  BY DEF Strung
<1> QED
  BY <1>1, <1>2 DEF ToSet

LEMMA StrungNothing ==
  ASSUME NEW s \in Seq(Place) PROVE Strung(<<>>, <<>>, <<>>, <<>>) /\ Strung(s, <<>>, <<>>, s)
<1>1. <<>> \in Seq(Place) /\ Len(<<>>) = 0
  OBVIOUS
<1> QED
  BY <1>1 DEF Strung

LEMMA EmptyOnce == Once(<<>>)
<1>1. Len(<<>>) = 0
  OBVIOUS
<1> QED
  BY <1>1 DEF Once

-----------------------------------------------------------------------------
(* The points of a capture                                                  *)

\* The final pull has been made; it has still to be made.
Pulled   == bridge = "STOPPED" \/ Asks("stop", LastStop) \/ Asks("stop", TwoStops)
Unpulled == Asks("stop", CameraStop) \/ Asks("stop", VitureStop)

\* LingBot serves a stretch of its voxels, which begins no later than the
\* capture did.
LingBotPoints ==
  /\ backend.served <= Len(backend.voxels) /\ mark <= Len(backend.voxels)
  /\ Once(backend.voxels)
  /\ Len(client) <= backend.served
  /\ \A j \in 1..Len(client) : client[j] = backend.voxels[backend.served - Len(client) + j]
  /\ backend.running => backend.served - Len(client) <= mark
  /\ ui.op = "start" => client = <<>>
  /\ Unpulled => \A x \in due : \E j \in 1..Len(backend.voxels) : j > mark /\ backend.voxels[j] = x

\* ABot's map and its buffer are its voxels.
ABotPoints ==
  /\ Once(backend.voxels) /\ Once(client)
  /\ backend.running => Strung(client, backend.buffer, <<>>, backend.voxels)
  /\ ui.op = "start" => client = <<>>
  /\ Unpulled => due \subseteq ToSet(backend.voxels)
  /\ \A i \in 1..Len(workers) : workers[i].at # "scale"

\* The glasses have taken nothing yet; their first capture is not pulled yet.
Untouched ==
  \/ spent.starts = 0
  \/ spent.starts = 1 /\ Asks("start", VitureStart) /\ ~daemon.running
FirstTake == spent.starts <= 1 /\ bridge # "STOPPED" /\ ~Asks("stop", LastStop) /\ ~Asks("stop", TwoStops)
Held(members) == IF members = <<>> THEN <<>> ELSE members[1].new
GlassesPoints ==
  /\ Untouched => /\ client = <<>> /\ daemon.buffer = <<>> /\ backend.voxels = <<>>
                  /\ workers = <<>> /\ eyes = <<>> /\ trackers = <<>>
  /\ spent.starts = 0 => Asks("idle", <<>>) /\ bridge = "READY"
  /\ spent.starts <= 1 /\ bridge = "STOPPED" => ui.op = "idle"
  /\ bridge # "CAPTURING" \/ Pulled => Once(client)
  /\ Unpulled => due \subseteq daemon.voxels
VitureFirst ==
  /\ Len(workers) <= 1 /\ Len(eyes) <= 1
  /\ Once(backend.voxels)
  /\ Strung(client, daemon.buffer, Held(workers), backend.voxels)
  /\ \A i \in 1..Len(eyes) : eyes[i].at \in {"enter", "model", "reset", "start"} => workers = <<>> /\ backend.voxels = <<>>
  /\ eyes = <<>> => workers = <<>>
  /\ \A i \in 1..Len(workers) : workers[i].at = "scale" => Len(workers[i].frames) <= Len(backend.scale)
  /\ \A i \in 1..Len(workers) : workers[i].at # "deliver" => workers[i].new = <<>>
  /\ \A i \in 1..Len(trackers) : trackers[i].at # "store" /\ trackers[i].new = <<>>
StereoFirst ==
  /\ workers = <<>> /\ eyes = <<>>
  /\ Len(trackers) <= 1
  /\ \A i \in 1..Len(trackers) : trackers[i].at # "store" => trackers[i].new = <<>>
  /\ \E s : Strung(client, daemon.buffer, Held(trackers), s) /\ Once(s) /\ ToSet(s) \subseteq daemon.voxels

Points ==
  /\ kind = "LINGBOT" => LingBotPoints
  /\ kind = "ABOT" => ABotPoints
  /\ Glasses => GlassesPoints
  /\ kind = "VITURE" /\ FirstTake => VitureFirst
  /\ kind = "STEREO" /\ FirstTake => StereoFirst
  /\ Pulled => due \subseteq ToSet(client)

-----------------------------------------------------------------------------
(* What the bridge of a camera does to the points                           *)

\* A capture begins, or cannot begin; its stop is asked for; the bridge and the
\* server talk of something else.
Anew ==
  /\ client' = <<>> /\ due' = {} /\ ~backend.running /\ ui'.op # "stop" /\ bridge' = bridge
  /\ UNCHANGED <<backend, workers, mark>>
StopAsked ==
  /\ ~Pulled' /\ ui'.op = "stop" /\ due' = Known
  /\ UNCHANGED <<client, backend, workers, mark>>
Talks ==
  /\ Pulled' => Pulled
  /\ Unpulled' => Unpulled
  /\ ui'.op = "start" => ui.op = "start"
  /\ UNCHANGED <<client, due, backend, workers, mark>>
Fetches ==
  /\ backend.running /\ ~Unpulled' /\ ui'.op # "start"
  /\ Pulled' => Unpulled
  /\ UNCHANGED <<due, workers, mark>>

LEMMA StopsDiffer ==
  /\ CameraStop # LastStop /\ CameraStop # TwoStops /\ VitureStop # LastStop /\ VitureStop # TwoStops
  /\ CameraStop # <<>> /\ VitureStop # <<>>
<1>1. \A q : q = CameraStop => Head(q) = "NEW"
  BY Lists
<1>2. \A q : q = VitureStop => Head(q) = "ALL"
  BY Lists
<1>3. \A q : q \in {LastStop, TwoStops} => Head(q) = "STOP"
  BY Lists
<1> QED
  BY <1>1, <1>2, <1>3, Lists

LEMMA CameraRests ==
  ASSUME CameraState, ui.op = "idle"
  PROVE  /\ Asks("idle", <<>>) /\ (daemon.running <=> bridge = "CAPTURING") /\ ~ui.sent /\ ~server.busy
         /\ backend.running <=> daemon.running
<1>1. Asks("idle", <<>>) /\ (daemon.running <=> bridge = "CAPTURING") /\ ~ui.sent /\ ~server.busy
  BY DEF CameraState, CameraInv, CameraUi, Asks, InTouch
<1>2. Stage = "none"
  BY <1>1, IdleStage DEF CameraState, InTouch
<1>3. backend.running <=> daemon.running
  BY <1>2 DEF CameraState, CameraInv, CameraFlags, Records
<1> QED
  BY <1>1, <1>3

LEMMA CameraAnew ==
  ASSUME CameraState, StartCapture \/ LingBotUnreachable \/ ABotUnreachable
  PROVE  Anew
<1>1. ui.op = "idle" /\ bridge # "CAPTURING"
  BY DEF StartCapture, LingBotUnreachable, ABotUnreachable, NoDaemon
<1>2. ~backend.running
  BY <1>1, CameraRests
<1>3. CASE StartCapture
  <2>1. StartsCapture
    BY <1>3, StartCaptureMoves DEF CameraState
  <2>2. client' = <<>>
    BY <2>1 DEF StartsCapture, Kept, CameraState
  <2>3. ui' = Doing("start", StartRequests)
    BY <2>1 DEF StartsCapture
  <2>4. ui'.op = "start"
    BY <2>3 DEF Doing
  <2> QED
    BY <1>2, <2>1, <2>2, <2>4 DEF Anew, StartsCapture, threads
<1>4. CASE LingBotUnreachable \/ ABotUnreachable
  <2>1. PICK op \in {"idle", "hung"} : NoDaemon(op)
    BY <1>4 DEF LingBotUnreachable, ABotUnreachable
  <2>2. NobodyHome(op)
    BY <2>1, NoDaemonMoves DEF CameraState
  <2> QED
    BY <1>2, <2>2 DEF Anew, NobodyHome, threads
<1> QED
  BY <1>3, <1>4

LEMMA CameraStopAsked ==
  ASSUME CameraState, StopCapture
  PROVE  StopAsked
<1>1. /\ ui' = Doing("stop", StopRequests) /\ due' = Known
      /\ UNCHANGED <<daemonVars, bridge, client>> /\ bridge = "CAPTURING"
  BY StopCaptureMoves DEF CameraState
<1>2. ui' = Doing("stop", CameraStop)
  BY <1>1 DEF StopRequests, CameraState
<1>3. ui'.op = "stop" /\ ui'.todo = CameraStop
  BY <1>2 DEF Doing
<1>4. ~Pulled'
  BY <1>1, <1>3, StopsDiffer DEF Pulled, Asks
<1> QED
  BY <1>1, <1>3, <1>4 DEF StopAsked, daemonVars, threads

LEMMA CameraTalks ==
  ASSUME CameraState, OnTelemetryTick \/ Send \/ Receive
  PROVE  Talks
<1>1. CASE OnTelemetryTick
  <2>1. /\ ui' = Doing("tick", TickRequests) /\ bridge = "CAPTURING"
        /\ UNCHANGED <<daemonVars, bridge, client, due>>
    BY <1>1, TickMoves DEF CameraState
  <2>2. ui'.op = "tick"
    BY <2>1 DEF Doing
  <2> QED
    BY <2>1, <2>2 DEF Talks, Pulled, Unpulled, Asks, daemonVars, threads
<1>2. CASE Send
  <2>1. PICK todo : Sends(todo)
    BY <1>2, SendMoves DEF CameraState
  <2>2. ui'.op = ui.op /\ ui'.todo = ui.todo /\ bridge' = bridge /\ UNCHANGED <<client, due, backend, threads, mark>>
    BY <2>1 DEF Sends
  <2> QED
    BY <2>2 DEF Talks, Pulled, Unpulled, Asks, threads
<1>3. CASE Receive
  <2>1. ui.sent /\ server.busy /\ server.todo = <<>> /\ UNCHANGED <<client, due, backend, threads, mark>>
    BY <1>3, ReceiveMoves DEF CameraState
  <2>2. ui.todo # <<>> /\ Head(ui.todo) \in {"START", "STOP"}
    BY <2>1 DEF CameraState, InTouch
  <2>3. \/ Asks("stop", LastStop) /\ bridge = "CAPTURING"
        \/ Asks("start", CameraStart) /\ bridge # "CAPTURING"
    BY <2>2, Lists DEF CameraState, CameraInv, CameraUi, Asks
  <2>4. Len(ui.todo) = 1
    BY <2>3, Lists, Zenon DEF Asks
  <2>5. CASE GivesUp
    <3>1. ui' = Resting /\ UNCHANGED bridge /\ ui.op = "start"
      BY <1>3, <2>5, ReceiveMoves DEF CameraState, GivesUp
    <3>2. ui'.op = "idle"
      BY <3>1, RestingType
    <3> QED
      BY <2>1, <3>1, <3>2 DEF Talks, Pulled, Unpulled, Asks, threads
  <2>6. CASE ~GivesUp
    <3>1. Onwards
      BY <1>3, <2>6, ReceiveMoves DEF CameraState
    <3>2. ~(Len(ui.todo) > 1)
      BY <2>4
    <3>3. ui'.op = "idle" /\ (ui.op = "start" => bridge' = "CAPTURING") /\ (ui.op = "stop" => bridge' = "STOPPED")
      BY <3>1, <3>2, OnwardsMoves DEF CameraState
    <3>4. Pulled' => Pulled
      BY <2>3, <3>3 DEF Pulled, Asks
    <3> QED
      BY <2>1, <3>3, <3>4 DEF Talks, Unpulled, Asks, threads
  <2> QED
    BY <2>5, <2>6
<1> QED
  BY <1>1, <1>2, <1>3

LEMMA CameraFetches ==
  ASSUME CameraState, FetchNewPoints
  PROVE  Fetches
<1>1. ui.todo # <<>> /\ Head(ui.todo) = "NEW" /\ server = Idle /\ Onwards /\ UNCHANGED <<due, threads, mark>>
  BY DEF FetchNewPoints, Asking
<1>2. \/ Asks("tick", TickRequests) /\ daemon.running /\ bridge = "CAPTURING"
      \/ Asks("stop", CameraStop) /\ daemon.running /\ bridge = "CAPTURING"
  BY <1>1, Lists DEF CameraState, CameraInv, CameraUi, Asks
<1>3. backend.running
  BY <1>1, <1>2, IdleStage DEF CameraState, CameraInv, CameraFlags, Records
<1>4. CASE Asks("tick", TickRequests)
  <2>1. Len(ui.todo) = 1
    BY <1>4, Lists, Zenon DEF Asks
  <2>2. ~(Len(ui.todo) > 1)
    BY <2>1
  <2>3. ui'.op = "idle" /\ bridge' = bridge
    BY <1>1, <1>4, <2>2, OnwardsMoves DEF Asks, CameraState
  <2> QED
    BY <1>1, <1>2, <1>3, <2>3 DEF Fetches, Pulled, Unpulled, Asks, threads
<1>5. CASE Asks("stop", CameraStop)
  <2>1. Len(ui.todo) = 2 /\ Tail(ui.todo) = LastStop
    BY <1>5, Lists, Zenon DEF Asks
  <2>2. Len(ui.todo) > 1
    BY <2>1
  <2>3. ui'.op = "stop" /\ ui'.todo = LastStop
    BY <1>1, <1>5, <2>1, <2>2, OnwardsMoves DEF Asks, CameraState
  <2>4. ~Unpulled'
    BY <2>3, StopsDiffer DEF Unpulled, Asks
  <2> QED
    BY <1>1, <1>3, <1>5, <2>3, <2>4 DEF Fetches, Unpulled, Asks, threads
<1> QED
  BY <1>2, <1>4, <1>5

\* Nothing else is asked of a camera's daemon.
LEMMA CameraAsksNoMore ==
  ASSUME CameraState, FetchAllPoints \/ WaitForModelReady
  PROVE  FALSE
<1>1. ui.todo # <<>> /\ Head(ui.todo) \in {"ALL", "READY"}
  BY DEF FetchAllPoints, WaitForModelReady, Asking
<1> QED
  BY <1>1, Lists DEF CameraState, CameraInv, CameraUi, Asks

-----------------------------------------------------------------------------
(* What the daemon of a camera does to the points                           *)

\* The engine goes on; ABot's buffer takes what its voxels take.
EngineRuns ==
  /\ mark' = mark /\ backend' \in Backend
  /\ backend'.running => backend.running
  /\ backend'.served = backend.served
  /\ Grown(backend.voxels, backend'.voxels)
  /\ kind = "ABOT" =>
       \/ backend'.voxels = backend.voxels /\ backend'.buffer = backend.buffer
       \/ \E r : /\ r = Beyond(backend'.voxels, backend.voxels) /\ r \in Seq(Place)
                 /\ backend'.buffer = backend.buffer \o r
NeverScales(members) == \A i \in 1..Len(members) : members[i].at # "scale"

LEMMA GrownSame ==
  ASSUME NEW v \in Seq(Place)
  PROVE  Grown(v, v)
BY DEF Grown

LEMMA EngineStays ==
  ASSUME WellTyped, mark' = mark, backend' \in Backend, SameEngine(backend, backend')
  PROVE  EngineRuns
<1>1. backend.voxels \in Seq(Place)
  BY TypeParts DEF Backend
<1> QED
  BY <1>1, GrownSame DEF EngineRuns, SameEngine

LEMMA EngineHalts ==
  ASSUME WellTyped, mark' = mark,
         \/ UNCHANGED backend
         \/ backend' = [backend EXCEPT !.running = FALSE]
         \/ backend' = [backend EXCEPT !.state = "STOPPED"]
  PROVE  EngineRuns
<1>1. backend \in Backend /\ backend.voxels \in Seq(Place)
  BY TypeParts DEF Backend
<1>2. backend' \in Backend /\ backend'.voxels = backend.voxels /\ backend'.served = backend.served
      /\ backend'.buffer = backend.buffer /\ (backend'.running => backend.running)
  BY <1>1 DEF Backend
<1> QED
  BY <1>1, <1>2, GrownSame DEF EngineRuns

LEMMA WorkerEngine ==
  ASSUME WellTyped, kind = "ABOT" => NeverScales(workers), NEW i \in 1..Len(workers),
         \/ StreamingLoop(i) \/ NetworkFails(i) \/ OnLingbotPoints(i)
  PROVE  EngineRuns
<1>1. backend \in Backend
  BY TypeParts
<1>2. mark' = mark
  BY DEF StreamingLoop, NetworkFails, OnLingbotPoints
<1>3. CASE WorkerWait(i) \/ WorkerFail(i) \/ OnLingbotPoints(i)
  <2>1. UNCHANGED backend
    BY <1>3 DEF WorkerWait, WorkerFail, OnLingbotPoints
  <2> QED
    BY <1>2, <2>1, EngineHalts
<1>4. CASE WorkerGrab(i)
  BY <1>2, <1>4, GrabMoves, EngineStays DEF WorkerGrabs
<1>5. CASE WorkerPromote(i)
  BY <1>2, <1>5, PromoteMoves, EngineStays
<1>6. CASE ExecuteScalePass(i)
  <2>1. kind # "ABOT"
    BY <1>6 DEF NeverScales, ExecuteScalePass
  <2> QED
    BY <1>2, <1>6, <2>1, ScaleMoves DEF EngineRuns, Predicts
<1>7. CASE ExecuteStreamingStep(i)
  <2>1. kind # "ABOT"
    BY <1>7 DEF ExecuteStreamingStep
  <2> QED
    BY <1>2, <1>7, <2>1, StepMoves DEF EngineRuns, Predicts
<1>8. CASE ABotStreamingStep(i)
  BY <1>2, <1>8, ABotStepMoves DEF EngineRuns, Predicts
<1> QED
  BY <1>3, <1>4, <1>5, <1>6, <1>7, <1>8 DEF StreamingLoop, NetworkFails

LEMMA CameraEyeEngine ==
  ASSUME CameraState, NEW i \in 1..Len(eyes), CameraLoop(i)
  PROVE  EngineRuns /\ UNCHANGED workers
<1>1. eyes[i].at \in {"check", "read"}
  BY EyeActs DEF CameraState, CameraInv, CameraEyes
<1>2. EyeCheck(i) \/ EyeRead(i)
  BY <1>1 DEF CameraLoop, EyeEnter, EyeModel, EyeReset, EyeStart
<1>3. CASE EyeCheck(i)
  BY <1>3, CheckMoves, EngineHalts DEF CameraState
<1>4. CASE EyeRead(i)
  BY <1>4, ReadMoves, EngineStays DEF CameraState
<1> QED
  BY <1>2, <1>3, <1>4

\* The engine starts when a start has been asked for.
LEMMA CameraServerEngine ==
  ASSUME CameraState, ServerStep
  PROVE  \/ EngineGoes /\ ui.op = "start" /\ backend' \in Backend
         \/ EngineRuns /\ UNCHANGED workers
<1> USE DEF CameraState
<1>1. CASE ServerBegin
  BY <1>1, BeginMoves, EngineHalts DEF threads
<1>2. CASE VitureBegin
  BY <1>2 DEF VitureBegin
<1>3. CASE ServerModel
  <2>1. Stage = "model"
    BY <1>3, ModelStepMoves
  <2>2. ui.op = "start"
    BY <2>1, CameraAtWork DEF CameraStopsNow, Asks
  <2>3. \/ UNCHANGED <<backend, workers, mark>> \/ EngineStart
    BY <1>3, ModelStepMoves
  <2> QED
    BY <2>2, <2>3, EngineMoves, EngineHalts
<1>4. CASE ServerCamera
  BY <1>4, CameraStepMoves, EngineHalts
<1>5. CASE ServerFlag
  BY <1>5, FlagMoves, EngineHalts DEF threads
<1>6. CASE ServerHalt
  BY <1>6, HaltMoves, EngineHalts DEF threads, HaltSkips
<1>7. CASE ServerJoinWorker
  BY <1>7, JoinWorkerMoves, EngineHalts DEF threads
<1>8. CASE ServerJoinEye
  BY <1>8, JoinEyeMoves, EngineHalts DEF threads
<1>9. CASE ServerJoinTracker
  BY <1>9, JoinTrackerMoves, EngineHalts DEF threads
<1>10. CASE ServerRelease
  BY <1>10, ReleaseMoves, EngineHalts DEF threads
<1>11. CASE ServerEnd
  BY <1>11, ServerEndMoves, EngineHalts DEF threads
<1>12. CASE ServerClose
  BY <1>12, CloseMoves, EngineHalts
<1> QED
  BY <1>1, <1>2, <1>3, <1>4, <1>5, <1>6, <1>7, <1>8, <1>9, <1>10, <1>11, <1>12 DEF ServerStep

LEMMA CameraEngine ==
  ASSUME CameraState, DaemonSteps, kind = "ABOT" => NeverScales(workers)
  PROVE  \/ EngineGoes /\ ui.op = "start" /\ backend' \in Backend
         \/ EngineRuns
<1>1. CASE LoadModel
  BY <1>1, LoadMoves, EngineHalts DEF CameraState
<1>2. CASE ServerStep
  BY <1>2, CameraServerEngine
<1>3. ASSUME NEW i \in 1..Len(workers), StreamingLoop(i) \/ NetworkFails(i) \/ OnLingbotPoints(i)
      PROVE  EngineRuns
  BY <1>3, WorkerEngine DEF CameraState
<1>4. ASSUME NEW i \in 1..Len(eyes), CameraLoop(i)
      PROVE  EngineRuns
  BY <1>4, CameraEyeEngine
<1>5. ASSUME NEW i \in 1..Len(trackers), TrackingLoop(i)
      PROVE  FALSE
  BY <1>5 DEF CameraState, CameraInv, CameraFlags
<1> QED
  BY <1>1, <1>2, <1>3, <1>4, <1>5 DEF DaemonSteps

\* ABot has no scale to fix.
LEMMA ABotWorkers ==
  ASSUME CameraState, kind = "ABOT", NeverScales(workers), workers' # workers, DaemonSteps
  PROVE  NeverScales(workers')
<1> USE DEF CameraState
<1>1. CASE LoadModel
  BY <1>1, LoadMoves DEF threads
<1>2. CASE ServerStep
  <2>1. Adds(workers, workers', Waiting) /\ Waiting.at = "wait"
    BY <1>2, CameraServerEngine DEF EngineGoes, Waiting
  <2>2. ASSUME NEW i \in 1..Len(workers') PROVE i \in 1..Len(workers) \/ i = Len(workers')
    BY <2>1, TypeParts DEF Adds
  <2> QED
    BY <2>1, <2>2 DEF Adds, NeverScales
<1>3. ASSUME NEW i \in 1..Len(workers), StreamingLoop(i) \/ NetworkFails(i) \/ OnLingbotPoints(i)
      PROVE  NeverScales(workers')
  <2>1. \E w : Put(workers, workers', i, w) /\ w.at # "scale"
    <3>1. CASE WorkerWait(i)
      BY <3>1, WaitMoves DEF WorkerBecomes
    <3>2. CASE WorkerGrab(i)
      BY <3>2, GrabMoves DEF WorkerGrabs, WorkerBecomes
    <3>3. CASE WorkerPromote(i)
      BY <3>3, PromoteMoves DEF WorkerBecomes, Waiting
    <3>4. CASE ExecuteScalePass(i)
      BY <3>4 DEF ExecuteScalePass, NeverScales
    <3>5. CASE ExecuteStreamingStep(i)
      BY <3>5 DEF ExecuteStreamingStep
    <3>6. CASE ABotStreamingStep(i)
      BY <3>6, ABotStepMoves DEF WorkerStores, WorkerBecomes
    <3>7. CASE WorkerFail(i)
      BY <3>7, FailMoves DEF WorkerBecomes
    <3>8. CASE OnLingbotPoints(i)
      <4>1. workers[i].next \in {"wait", "promote"}
        BY RecordTypes, TypeParts
      <4> QED
        BY <3>8, <4>1, DeliverMoves DEF WorkerBecomes
    <3> QED
      BY <1>3, <3>1, <3>2, <3>3, <3>4, <3>5, <3>6, <3>7, <3>8 DEF StreamingLoop, NetworkFails
  <2> QED
    BY <2>1 DEF Put, NeverScales
<1>4. ASSUME NEW i \in 1..Len(eyes), CameraLoop(i)
      PROVE  NeverScales(workers')
  BY <1>4, CameraEyeEngine
<1>5. ASSUME NEW i \in 1..Len(trackers), TrackingLoop(i)
      PROVE  FALSE
  BY <1>5 DEF CameraInv, CameraFlags
<1> QED
  BY <1>1, <1>2, <1>3, <1>4, <1>5 DEF DaemonSteps

-----------------------------------------------------------------------------
(* LingBot's points                                                         *)

\* What LingBot has served is a stretch of its voxels.
Stretch(c, v, served) ==
  /\ Len(c) <= served /\ served <= Len(v)
  /\ \A j \in 1..Len(c) : c[j] = v[served - Len(c) + j]
\* A voxel is in the part of them that a capture has found.
FoundIn(v, m, x) == \E j \in 1..Len(v) : j > m /\ v[j] = x

LEMMA StretchGrows ==
  ASSUME NEW c \in Seq(Place), NEW v \in Seq(Place), NEW served \in Nat, Stretch(c, v, served), NEW w, Grown(v, w)
  PROVE  Stretch(c, w, served)
<1>1. ASSUME NEW j \in 1..Len(c) PROVE c[j] = w[served - Len(c) + j]
  <2>1. served - Len(c) + j \in 1..Len(v)
    BY <1>1 DEF Stretch
  <2> QED
    BY <1>1, <2>1 DEF Stretch, Grown
<1> QED
  BY <1>1 DEF Stretch, Grown

\* To its end, from where it began.
Ended(c, v, served, t) == t \in Seq(Place) /\ Stretch(t, v, Len(v)) /\ Len(v) - Len(t) = served - Len(c)

LEMMA StretchServed ==
  ASSUME NEW c \in Seq(Place), NEW v \in Seq(Place), NEW served \in Nat, Stretch(c, v, served),
         NEW m \in Nat \ {0}, m = served + 1, NEW n \in Nat, n = Len(v),
         NEW r, r = SubSeq(v, m, n), NEW t, t = c \o r
  PROVE  Ended(c, v, served, t)
<1>0. n = Len(v)
  OBVIOUS
<1>1. r = SubSeq(v, m, n) /\ m <= n + 1
  BY <1>0 DEF Stretch
<1>2. r \in Seq(Place) /\ Len(r) = n - m + 1 /\ \A j \in 1..Len(r) : r[j] = v[m + j - 1]
  BY <1>0, <1>1, SliceIs
<1>3. /\ t \in Seq(Place) /\ Len(t) = Len(c) + Len(r)
      /\ \A j \in 1..Len(c) : t[j] = c[j]
      /\ \A j \in 1..Len(r) : t[Len(c) + j] = r[j]
  BY <1>2, ConcatIs
<1>4. PICK a \in Nat : a = Len(c)
  OBVIOUS
<1>5. PICK b : b = Len(r)
  OBVIOUS
<1>6. b \in Nat
  BY <1>2, <1>5
<1>7. a = Len(c) /\ b = Len(r) /\ a \in Nat /\ b \in Nat
  BY <1>4, <1>5, <1>6
<1>8. a <= served /\ b = n - m + 1 /\ Len(t) = a + b
  BY <1>2, <1>3, <1>7 DEF Stretch
<1>9. n - (a + b) = served - a /\ a + b <= n
  BY <1>1, <1>8
<1>10. ASSUME NEW j \in 1..(a + b) PROVE t[j] = v[n - (a + b) + j]
  <2>1. CASE j <= a
    <3>1. j \in 1..Len(c)
      BY <1>7, <2>1
    <3>2. n - (a + b) + j = served - a + j
      BY <1>9, <1>8
    <3>3. c[j] = v[served - a + j]
      BY <1>7, <3>1 DEF Stretch
    <3> QED
      BY <1>3, <3>1, <3>2, <3>3
  <2>2. CASE ~(j <= a)
    <3>1. PICK k \in 1..b : j = a + k
      <4>1. j - a \in 1..b /\ j = a + (j - a)
        BY <1>7, <2>2
      <4> QED
        BY <4>1
    <3>2. n - (a + b) + j = m + k - 1
      BY <1>8, <3>1
    <3>3. t[a + k] = r[k] /\ r[k] = v[m + k - 1]
      BY <1>2, <1>3, <1>7, <3>1
    <3> QED
      BY <3>1, <3>2, <3>3
  <2> QED
    BY <2>1, <2>2
<1>11. Len(t) <= n /\ \A j \in 1..Len(t) : t[j] = v[n - Len(t) + j]
  BY <1>9, <1>10, <1>7, <1>8
<1>12. Stretch(t, v, Len(v))
  BY <1>0, <1>11 DEF Stretch
<1> QED
  BY <1>0, <1>3, <1>9, <1>8, <1>4, <1>12, <1>6 DEF Ended

\* A stretch that begins no later than the capture and ends with the voxels has
\* what the capture has found.
LEMMA StretchHolds ==
  ASSUME NEW c \in Seq(Place), NEW v \in Seq(Place), Stretch(c, v, Len(v)), NEW m \in Nat, Len(v) - Len(c) <= m,
         NEW x, FoundIn(v, m, x)
  PROVE  x \in ToSet(c)
<1>1. PICK j \in 1..Len(v) : j > m /\ v[j] = x
  BY DEF FoundIn
<1>2. PICK a \in Nat, n \in Nat : a = Len(c) /\ n = Len(v)
  OBVIOUS
<1>3. PICK k \in 1..a : n - a + k = j
  <2>1. j - (n - a) \in 1..a /\ n - a + (j - (n - a)) = j
    BY <1>1, <1>2 DEF Stretch
  <2> QED
    BY <2>1
<1>4. c[k] = x
  BY <1>1, <1>3, <1>2 DEF Stretch
<1> QED
  BY <1>3, <1>4, <1>2 DEF ToSet

LEMMA StretchOnce ==
  ASSUME NEW c \in Seq(Place), NEW v \in Seq(Place), NEW served \in Nat, Stretch(c, v, served), Once(v)
  PROVE  Once(c)
<1>1. \A j \in 1..Len(c) : served - Len(c) + j \in 1..Len(v) /\ c[j] = v[served - Len(c) + j]
  BY DEF Stretch
<1> QED
  BY <1>1 DEF Once

LEMMA FoundGrows ==
  ASSUME NEW v \in Seq(Place), NEW w, Grown(v, w), NEW m, NEW x, FoundIn(v, m, x)
  PROVE  FoundIn(w, m, x)
<1>1. PICK j \in 1..Len(v) : j > m /\ v[j] = x
  BY DEF FoundIn
<1>2. j \in 1..Len(w) /\ w[j] = x
  BY <1>1 DEF Grown
<1> QED
  BY <1>1, <1>2 DEF FoundIn

\* What LingBot has found in a capture.
LEMMA KnownFound ==
  ASSUME WellTyped, ~Glasses, mark <= Len(backend.voxels), NEW x \in Known
  PROVE  FoundIn(backend.voxels, mark, x)
<1>1. PICK v \in Seq(Place) : v = backend.voxels
  BY TypeParts DEF Backend
<1>2. PICK m \in Nat \ {0} : m = mark + 1
  BY TypeParts
<1>3. PICK n \in Nat : n = Len(v)
  OBVIOUS
<1>4. PICK r : r = SubSeq(v, m, n)
  OBVIOUS
<1>5. n <= Len(v) /\ m <= n + 1
  BY <1>1, <1>2, <1>3, TypeParts
<1>6. r \in Seq(Place) /\ Len(r) = n - m + 1 /\ \A j \in 1..Len(r) : r[j] = v[m + j - 1]
  BY <1>4, <1>5, SliceIs
<1>7. x \in ToSet(r)
  BY <1>1, <1>2, <1>3, <1>4 DEF Known
<1>8. PICK j \in 1..Len(r) : r[j] = x
  BY <1>7 DEF ToSet
<1>9. mark \in Nat /\ j \in 1..(n - m + 1)
  BY <1>6, <1>8, TypeParts
<1>10. m + j - 1 \in 1..Len(v) /\ m + j - 1 > mark /\ v[m + j - 1] = x
  <2>1. m + j - 1 \in 1..n /\ m + j - 1 > mark
    BY <1>2, <1>9
  <2> QED
    BY <1>3, <1>6, <1>8, <2>1
<1> QED
  BY <1>1, <1>10 DEF FoundIn

LEMMA LingBotIs ==
  LingBotPoints <=>
    /\ mark <= Len(backend.voxels) /\ Once(backend.voxels)
    /\ Stretch(client, backend.voxels, backend.served)
    /\ backend.running => backend.served - Len(client) <= mark
    /\ ui.op = "start" => client = <<>>
    /\ Unpulled => \A x \in due : FoundIn(backend.voxels, mark, x)
BY DEF LingBotPoints, Stretch, FoundIn

LEMMA LingBotNext ==
  ASSUME mark' <= Len(backend'.voxels), Once(backend'.voxels),
         Stretch(client', backend'.voxels, backend'.served),
         backend'.running => backend'.served - Len(client') <= mark',
         ui'.op = "start" => client' = <<>>,
         Unpulled' => \A x \in due' : FoundIn(backend'.voxels, mark', x)
  PROVE  LingBotPoints'
BY DEF LingBotPoints, Stretch, FoundIn

LEMMA LingBotParts ==
  ASSUME WellTyped
  PROVE  /\ backend \in Backend /\ backend.voxels \in Seq(Place) /\ backend.served \in Nat /\ mark \in Nat
         /\ client \in Seq(Place) /\ backend.running \in BOOLEAN
BY TypeParts DEF Backend

LEMMA LingBotWorks ==
  ASSUME CameraState, kind = "LINGBOT", LingBotPoints, BridgeWaits, DaemonSteps
  PROVE  LingBotPoints'
<1>1. WellTyped /\ backend \in Backend /\ backend.voxels \in Seq(Place) /\ backend.served \in Nat /\ mark \in Nat
      /\ client \in Seq(Place)
  BY LingBotParts DEF CameraState
<1>2. client' = client /\ due' = due /\ ui' = ui /\ (Unpulled' <=> Unpulled)
  BY DEF BridgeWaits, Unpulled, Asks
<1>3. CASE EngineGoes /\ ui.op = "start"
  <2>1. backend' = LingBotStart(backend) /\ mark' = Len(backend'.voxels)
    BY <1>3 DEF EngineGoes
  <2>2. backend'.voxels = backend.voxels /\ backend'.served = backend.served
    BY <1>1, <2>1 DEF LingBotStart, Backend
  <2>3. client = <<>> /\ Len(client) = 0 /\ ~Unpulled
    BY <1>3, LingBotIs DEF Unpulled, Asks
  <2>4. mark' \in Nat /\ backend'.served <= mark' /\ mark' <= Len(backend'.voxels)
    BY <1>1, <2>1, <2>2, LingBotIs DEF Stretch
  <2>5. backend'.served - Len(client') <= mark'
    BY <1>1, <1>2, <2>2, <2>3, <2>4
  <2> QED
    BY <1>1, <1>2, <2>2, <2>3, <2>4, <2>5, LingBotIs, LingBotNext
<1>4. CASE EngineRuns
  <2>1. mark' = mark /\ (backend'.running => backend.running) /\ backend'.served = backend.served
        /\ Grown(backend.voxels, backend'.voxels) /\ backend'.voxels \in Seq(Place)
    BY <1>4 DEF EngineRuns, Grown
  <2>2. PICK v, w : v = backend.voxels /\ w = backend'.voxels
    OBVIOUS
  <2>3. Len(v) <= Len(w) /\ Once(w) /\ mark' <= Len(w)
    BY <1>1, <2>1, <2>2, LingBotIs DEF Grown
  <2>4. Stretch(client, w, backend.served)
    BY <1>1, <2>1, <2>2, LingBotIs, StretchGrows
  <2>5. Unpulled => \A x \in due : FoundIn(w, mark, x)
    BY <1>1, <2>1, <2>2, LingBotIs, FoundGrows
  <2> QED
    BY <1>2, <2>1, <2>2, <2>3, <2>4, <2>5, LingBotIs, LingBotNext
<1> QED
  BY <1>3, <1>4, CameraEngine

LEMMA LingBotFetches ==
  ASSUME CameraState, kind = "LINGBOT", LingBotPoints, FetchNewPoints
  PROVE  LingBotPoints' /\ (Pulled' => due' \subseteq ToSet(client'))
<1>1. WellTyped /\ backend \in Backend /\ backend.voxels \in Seq(Place) /\ backend.served \in Nat /\ mark \in Nat
      /\ client \in Seq(Place)
  BY LingBotParts DEF CameraState
<1>2. Fetches
  BY CameraFetches
<1>3. PICK places : client' = client \o places /\ LingBotTakes(places)
  BY <1>1, NewPointsMoves
<1>4. backend'.voxels = backend.voxels /\ backend'.served = Len(backend.voxels) /\ backend'.running = backend.running
  BY <1>1, <1>3 DEF LingBotTakes, Backend
<1>5. PICK v \in Seq(Place) : v = backend.voxels
  BY <1>1
<1>6. PICK m \in Nat \ {0} : m = backend.served + 1
  BY <1>1
<1>7. PICK n \in Nat : n = Len(v)
  OBVIOUS
<1>8. places = SubSeq(v, m, n)
  BY <1>3, <1>5, <1>6, <1>7 DEF LingBotTakes
<1>9. PICK served \in Nat : served = backend.served
  BY <1>1
<1>10. Stretch(client, v, served)
  BY <1>5, <1>9, LingBotIs
<1>11. PICK t : t = client'
  OBVIOUS
<1>12. m = served + 1 /\ t = client \o places
  BY <1>3, <1>6, <1>9, <1>11
<1>13. PICK c \in Seq(Place) : c = client
  BY <1>1
<1>14. t = c \o places /\ Stretch(c, v, served) /\ m = served + 1
  BY <1>10, <1>12, <1>13
<1>15. Ended(c, v, served, t)
  BY <1>8, <1>7, <1>14, StretchServed
<1>16. t \in Seq(Place) /\ Stretch(t, v, Len(v)) /\ Len(v) - Len(t) = served - Len(client)
  BY <1>13, <1>15 DEF Ended
<1>17. client' \in Seq(Place) /\ Stretch(client', v, Len(v)) /\ Len(v) - Len(client') = served - Len(client)
  BY <1>11, <1>16
<1>18. served - Len(client) <= mark /\ mark' = mark /\ due' = due
  BY <1>2, <1>9, LingBotIs DEF Fetches
<1>19. LingBotPoints'
  BY <1>2, <1>4, <1>5, <1>17, <1>18, LingBotIs, LingBotNext DEF Fetches
<1>20. ASSUME Pulled' PROVE due' \subseteq ToSet(client')
  <2>1. Unpulled
    BY <1>2, <1>20 DEF Fetches
  <2>2. \A x \in due : FoundIn(v, mark, x)
    BY <1>5, <2>1, LingBotIs
  <2>3. PICK d : d = client'
    OBVIOUS
  <2>4. d \in Seq(Place) /\ Stretch(d, v, Len(v)) /\ Len(v) - Len(d) <= mark
    BY <1>17, <1>18, <2>3
  <2>5. \A x \in due : x \in ToSet(d)
    BY <1>1, <2>2, <2>4, StretchHolds
  <2> QED
    BY <1>18, <2>3, <2>5
<1> QED
  BY <1>19, <1>20

LEMMA LingBotStep ==
  ASSUME CameraState, kind = "LINGBOT", LingBotPoints, Pulled => due \subseteq ToSet(client), Next
  PROVE  LingBotPoints' /\ (Pulled' => due' \subseteq ToSet(client'))
<1>1. WellTyped /\ backend.served \in Nat /\ client \in Seq(Place) /\ backend.voxels \in Seq(Place) /\ mark \in Nat
  BY LingBotParts DEF CameraState
<1>2. CASE Anew
  <2>1. client' = <<>> /\ Len(client') = 0 /\ due' = {} /\ ~backend'.running /\ ui'.op # "stop"
        /\ backend' = backend /\ mark' = mark
    BY <1>2 DEF Anew
  <2>2. Stretch(client', backend'.voxels, backend'.served)
    BY <1>1, <2>1, LingBotIs DEF Stretch
  <2>3. LingBotPoints'
    BY <2>1, <2>2, LingBotIs, LingBotNext
  <2> QED
    BY <2>1, <2>3
<1>3. CASE StopAsked
  <2>1. due' = Known /\ UNCHANGED <<client, backend, mark>> /\ ~Pulled' /\ ui'.op = "stop"
    BY <1>3 DEF StopAsked
  <2>2. \A x \in due' : FoundIn(backend.voxels, mark, x)
    BY <1>1, <2>1, KnownFound, LingBotIs DEF CameraState
  <2> QED
    BY <2>1, <2>2, LingBotIs, LingBotNext
<1>4. CASE Talks
  <2>1. UNCHANGED <<client, backend, mark, due>>
    BY <1>4 DEF Talks
  <2> QED
    BY <1>4, <2>1, LingBotIs, LingBotNext DEF Talks
<1>5. CASE DaemonSteps /\ BridgeWaits
  <2>1. (Pulled' <=> Pulled) /\ due' = due /\ client' = client
    BY <1>5 DEF BridgeWaits, Pulled, Asks
  <2> QED
    BY <1>5, <2>1, LingBotWorks
<1> QED
  BY <1>2, <1>3, <1>4, <1>5, NextSteps, CameraAnew, CameraStopAsked, CameraTalks, LingBotFetches, CameraAsksNoMore

-----------------------------------------------------------------------------
(* ABot's points                                                            *)

LEMMA ABotParts ==
  ASSUME WellTyped
  PROVE  /\ backend \in Backend /\ backend.voxels \in Seq(Place) /\ backend.buffer \in Seq(Place)
         /\ client \in Seq(Place) /\ backend.running \in BOOLEAN
BY TypeParts DEF Backend

LEMMA GrownHolds ==
  ASSUME NEW v, NEW w, Grown(v, w)
  PROVE  ToSet(v) \subseteq ToSet(w)
<1>1. ASSUME NEW x \in ToSet(v) PROVE x \in ToSet(w)
  <2>1. PICK j \in 1..Len(v) : v[j] = x
    BY <1>1 DEF ToSet
  <2>2. Len(v) <= Len(w) /\ w[j] = x
    BY <2>1 DEF Grown
  <2>3. j \in 1..Len(w)
    BY <2>1, <2>2 DEF Grown
  <2> QED
    BY <2>2, <2>3 DEF ToSet
<1> QED
  BY <1>1

LEMMA SliceHolds ==
  ASSUME WellTyped, ~Glasses
  PROVE  Known \subseteq ToSet(backend.voxels)
<1>1. PICK v \in Seq(Place) : v = backend.voxels
  BY TypeParts DEF Backend
<1>2. PICK m \in Nat \ {0} : m = mark + 1
  BY TypeParts
<1>3. PICK n \in Nat : n = Len(v)
  OBVIOUS
<1>4. PICK r : r = SubSeq(v, m, n)
  OBVIOUS
<1>5. Known = ToSet(r)
  BY <1>1, <1>2, <1>3, <1>4 DEF Known
<1>6. CASE m <= n + 1
  <2>1. r \in Seq(Place) /\ Len(r) = n - m + 1 /\ \A j \in 1..Len(r) : r[j] = v[m + j - 1]
    BY <1>3, <1>4, <1>6, SliceIs
  <2>2. ASSUME NEW x \in ToSet(r) PROVE x \in ToSet(v)
    <3>1. PICK j \in 1..Len(r) : r[j] = x
      BY <2>2 DEF ToSet
    <3>2. j \in 1..(n - m + 1)
      BY <2>1, <3>1
    <3>3. m + j - 1 \in 1..n
      BY <3>2
    <3>4. v[m + j - 1] = x
      BY <2>1, <3>1
    <3> QED
      BY <1>3, <3>3, <3>4 DEF ToSet
  <2> QED
    BY <1>1, <1>5, <2>2
<1>7. CASE ~(m <= n + 1)
  <2>1. r = <<>>
    BY <1>3, <1>4, <1>7
  <2>2. Len(r) = 0
    BY <2>1
  <2>3. ToSet(r) = {}
    BY <2>2 DEF ToSet
  <2> QED
    BY <1>5, <2>3
<1> QED
  BY <1>6, <1>7

LEMMA ABotWorks ==
  ASSUME CameraState, kind = "ABOT", ABotPoints, BridgeWaits, DaemonSteps
  PROVE  ABotPoints'
<1>1. WellTyped /\ backend \in Backend /\ backend.voxels \in Seq(Place) /\ backend.buffer \in Seq(Place)
      /\ client \in Seq(Place) /\ NeverScales(workers)
  BY ABotParts DEF CameraState, ABotPoints, NeverScales
<1>2. client' = client /\ due' = due /\ ui' = ui /\ (Unpulled' <=> Unpulled)
  BY DEF BridgeWaits, Unpulled, Asks
<1>3. NeverScales(workers')
  BY <1>1, ABotWorkers
<1>4. CASE EngineGoes /\ ui.op = "start"
  <2>1. backend' = ABotStart(backend)
    BY <1>4 DEF EngineGoes
  <2>2. backend'.voxels = <<>> /\ backend'.buffer = <<>>
    BY <1>1, <2>1 DEF ABotStart, Backend
  <2>3. client = <<>> /\ ~Unpulled
    BY <1>4 DEF Unpulled, Asks, ABotPoints
  <2>4. Strung(<<>>, <<>>, <<>>, <<>>) /\ Once(<<>>)
    BY <1>1, StrungNothing, EmptyOnce
  <2> QED
    BY <1>2, <1>3, <2>2, <2>3, <2>4 DEF ABotPoints, NeverScales
<1>5. CASE EngineRuns
  <2>1. PICK v, w, q : v = backend.voxels /\ w = backend'.voxels /\ q = backend.buffer
    OBVIOUS
  <2>2. Grown(v, w) /\ Once(v) /\ Once(w) /\ ToSet(v) \subseteq ToSet(w)
    BY <1>5, <2>1, GrownHolds DEF EngineRuns, Grown, ABotPoints
  <2>3. ASSUME backend'.running PROVE Strung(client, backend'.buffer, <<>>, w)
    <3>1. Strung(client, q, <<>>, v)
      BY <1>5, <2>1, <2>3 DEF EngineRuns, ABotPoints
    <3>2. CASE w = v /\ backend'.buffer = q
      BY <3>1, <3>2
    <3>3. CASE \E r : /\ r = Beyond(w, v) /\ r \in Seq(Place)
                      /\ backend'.buffer = q \o r
      <4>1. PICK r : r = Beyond(w, v) /\ r \in Seq(Place) /\ backend'.buffer = q \o r
        BY <3>3
      <4>2. Strung(client, q, r, w)
        BY <2>2, <3>1, <4>1, StrungGrown
      <4>3. PICK t : t = backend'.buffer
        OBVIOUS
      <4>4. t = q \o r
        BY <4>1, <4>3
      <4>5. Strung(client, t, <<>>, w)
        BY <4>2, <4>4, StrungDelivered
      <4> QED
        BY <4>3, <4>5
    <3> QED
      BY <1>5, <2>1, <3>2, <3>3 DEF EngineRuns
  <2>4. Unpulled => due \subseteq ToSet(w)
    BY <2>1, <2>2 DEF ABotPoints
  <2> QED
    BY <1>2, <1>3, <2>1, <2>2, <2>3, <2>4 DEF ABotPoints, NeverScales
<1> QED
  BY <1>1, <1>4, <1>5, CameraEngine

LEMMA ABotFetches ==
  ASSUME CameraState, kind = "ABOT", ABotPoints, FetchNewPoints
  PROVE  ABotPoints' /\ (Pulled' => due' \subseteq ToSet(client'))
<1>1. WellTyped /\ backend \in Backend /\ backend.voxels \in Seq(Place) /\ backend.buffer \in Seq(Place)
      /\ client \in Seq(Place)
  BY ABotParts DEF CameraState
<1>2. Fetches
  BY CameraFetches
<1>3. PICK places : client' = client \o places /\ ABotTakes(places)
  BY <1>1, NewPointsMoves
<1>4. backend'.voxels = backend.voxels /\ backend'.buffer = <<>> /\ backend'.running = backend.running
  BY <1>1, <1>3 DEF ABotTakes, Backend
<1>5. PICK v, q, t : v = backend.voxels /\ q = backend.buffer /\ t = client'
  OBVIOUS
<1>6. Strung(client, q, <<>>, v) /\ Once(v)
  BY <1>2, <1>5 DEF Fetches, ABotPoints
<1>7. t = client \o q
  BY <1>3, <1>5 DEF ABotTakes
<1>8. Strung(t, <<>>, <<>>, v)
  BY <1>6, <1>7, StrungFetched
<1>9. Once(t)
  BY <1>6, <1>8, StrungOnce
<1>10. ABotPoints'
  BY <1>2, <1>4, <1>5, <1>6, <1>8, <1>9 DEF ABotPoints, Fetches
<1>11. ASSUME Pulled' PROVE due' \subseteq ToSet(client')
  <2>1. due \subseteq ToSet(v)
    BY <1>2, <1>5, <1>11 DEF Fetches, ABotPoints
  <2>2. \A x : x \in ToSet(v) => x \in ToSet(t)
    BY <1>8, StrungAll
  <2> QED
    BY <1>2, <1>5, <2>1, <2>2 DEF Fetches
<1> QED
  BY <1>10, <1>11

LEMMA ABotStep ==
  ASSUME CameraState, kind = "ABOT", ABotPoints, Pulled => due \subseteq ToSet(client), Next
  PROVE  ABotPoints' /\ (Pulled' => due' \subseteq ToSet(client'))
<1>1. CASE Anew
  <2>1. client' = <<>> /\ due' = {} /\ ~backend'.running /\ ui'.op # "stop" /\ UNCHANGED <<backend, workers>>
    BY <1>1 DEF Anew
  <2> QED
    BY <2>1, EmptyOnce DEF ABotPoints
<1>2. CASE StopAsked
  <2>1. due' = Known /\ UNCHANGED <<client, backend, workers>> /\ ~Pulled' /\ ui'.op = "stop"
    BY <1>2 DEF StopAsked
  <2>2. due' \subseteq ToSet(backend.voxels)
    BY <2>1, SliceHolds DEF CameraState
  <2> QED
    BY <2>1, <2>2 DEF ABotPoints
<1>3. CASE Talks
  BY <1>3 DEF Talks, ABotPoints
<1>4. CASE DaemonSteps /\ BridgeWaits
  <2>1. (Pulled' <=> Pulled) /\ due' = due /\ client' = client
    BY <1>4 DEF BridgeWaits, Pulled, Asks
  <2> QED
    BY <1>4, <2>1, ABotWorks
<1> QED
  BY <1>1, <1>2, <1>3, <1>4, NextSteps, CameraAnew, CameraStopAsked, CameraTalks, ABotFetches, CameraAsksNoMore

-----------------------------------------------------------------------------
(* What the bridge of the glasses does to the points                        *)

GlassesHands == <<client, due, kind, backend, daemon, workers, eyes, trackers>>
GlassesTalk ==
  /\ UNCHANGED GlassesHands /\ spent'.starts = spent.starts /\ spent.starts # 0
  /\ Pulled' => Pulled
  /\ ~Unpulled' \/ Unpulled
  /\ FirstTake' => FirstTake
  /\ ~Untouched'
  /\ spent.starts <= 1 /\ bridge' = "STOPPED" => ui'.op = "idle"
  /\ bridge' # "CAPTURING" => bridge # "CAPTURING" \/ Pulled

LEMMA ListsDiffer ==
  /\ ReadyStart # VitureStart /\ CameraStart # VitureStart
  /\ LastStop # VitureStop /\ LastStop # CameraStop /\ TwoStops # VitureStop /\ TwoStops # CameraStop
  /\ CameraStart # <<>> /\ ReadyStart # <<>> /\ VitureStart # <<>> /\ LastStop # <<>> /\ TwoStops # <<>>
<1>1. \A q : q = ReadyStart => Head(q) = "READY"
  BY Lists
<1>2. \A q : q = VitureStart => Head(q) = "START"
  BY Lists
<1>3. \A q : q = CameraStart => Len(q) = 1
  BY Lists
<1>4. \A q : q = VitureStart => Len(q) = 3
  BY Lists
<1> QED
  BY <1>1, <1>2, <1>3, <1>4, Lists, StopsDiffer

\* Before the first start nothing is asked.
LEMMA NotTheFirst ==
  ASSUME GlassesState, GlassesPoints, ui.todo # <<>> \/ bridge = "CAPTURING" \/ ui.op # "idle"
  PROVE  spent.starts # 0
BY DEF GlassesPoints, Asks

LEMMA GlassesTick ==
  ASSUME GlassesState, GlassesPoints, OnTelemetryTick
  PROVE  GlassesTalk
<1>1. /\ ui' = Doing("tick", TickRequests) /\ bridge = "CAPTURING" /\ ui.op = "idle"
      /\ UNCHANGED <<daemonVars, bridge, client, due>>
  BY TickMoves DEF GlassesState
<1>2. ui'.op = "tick"
  BY <1>1 DEF Doing
<1>3. spent.starts # 0
  BY <1>1, NotTheFirst
<1> QED
  BY <1>1, <1>2, <1>3 DEF GlassesTalk, GlassesHands, daemonVars, threads, Pulled, Unpulled, FirstTake, Untouched, Asks

LEMMA GlassesReady ==
  ASSUME GlassesState, GlassesPoints, WaitForModelReady
  PROVE  GlassesTalk
<1>1. ui.todo # <<>> /\ Head(ui.todo) = "READY" /\ Onwards /\ spent'.starts = spent.starts
      /\ UNCHANGED <<kind, backend, daemon, threads, client, due>>
  BY ReadyMoves DEF Asking, GlassesState
<1>2. Asks("start", ReadyStart) /\ bridge # "CAPTURING"
  BY <1>1, Lists DEF GlassesState, GlassesInv, GlassesUi, Asks
<1>3. Len(ui.todo) = 2 /\ Tail(ui.todo) = CameraStart
  BY <1>2, Lists, Zenon DEF Asks
<1>4. Len(ui.todo) > 1
  BY <1>3
<1>5. ui'.op = "start" /\ ui'.todo = CameraStart /\ bridge' = bridge
  BY <1>1, <1>2, <1>3, <1>4, OnwardsMoves DEF Asks, GlassesState
<1>6. spent.starts # 0
  BY <1>1, NotTheFirst
<1>7. spent.starts <= 1 => bridge # "STOPPED"
  BY <1>2 DEF GlassesPoints, Asks
<1> QED
  BY <1>1, <1>2, <1>5, <1>6, <1>7, ListsDiffer
  DEF GlassesTalk, GlassesHands, threads, Pulled, Unpulled, FirstTake, Untouched, Asks

LEMMA GlassesSends ==
  ASSUME GlassesState, GlassesPoints, Send
  PROVE  \/ GlassesTalk
         \/ /\ UNCHANGED GlassesHands /\ spent'.starts = spent.starts /\ spent.starts # 0
            /\ Asks("start", VitureStart) /\ Asks("start", VitureStart)' /\ bridge' = bridge
<1>1. PICK todo : Sends(todo)
  BY SendMoves DEF GlassesState
<1>2. ui'.op = ui.op /\ ui'.todo = ui.todo /\ ui.todo # <<>> /\ UNCHANGED <<kind, backend, daemon, threads, spent, bridge, client, due>>
  BY <1>1 DEF Sends
<1>3. spent.starts # 0
  BY <1>2, NotTheFirst
<1>4. spent.starts <= 1 /\ bridge = "STOPPED" => ui.op = "idle"
  BY DEF GlassesPoints
<1>5. CASE Asks("start", VitureStart)
  BY <1>2, <1>3, <1>5 DEF GlassesHands, threads, Asks
<1>6. CASE ~Asks("start", VitureStart)
  BY <1>2, <1>3, <1>4, <1>6
  DEF GlassesTalk, GlassesHands, threads, Pulled, Unpulled, FirstTake, Untouched, Asks
<1> QED
  BY <1>5, <1>6

LEMMA GlassesReceives ==
  ASSUME GlassesState, GlassesPoints, Receive
  PROVE  GlassesTalk
<1>1. ui.sent /\ server.busy /\ server.todo = <<>>
      /\ UNCHANGED <<kind, backend, daemon, threads, spent, client, due>>
  BY ReceiveMoves DEF GlassesState
<1>2. Stage = "none"
  BY <1>1, SkipsIn DEF Stage
<1>3. \/ Asks("stop", TwoStops) /\ bridge = "CAPTURING"
      \/ Asks("stop", LastStop) /\ bridge = "CAPTURING"
      \/ Asks("start", VitureStart) /\ bridge # "CAPTURING"
      \/ Asks("start", CameraStart) /\ bridge # "CAPTURING"
  BY <1>1, <1>2, Lists DEF GlassesState, InTouch, GlassesInv, GlassesUi, Asks
<1>4. Onwards
  BY ReceiveMoves DEF GivesUp, GlassesState, GlassesInv, GlassesFlags
<1>5. spent.starts # 0
  BY <1>3, NotTheFirst, ListsDiffer DEF Asks
<1>6. spent.starts <= 1 /\ bridge = "STOPPED" => ui.op = "idle"
  BY DEF GlassesPoints
<1> USE DEF GlassesTalk, GlassesHands, threads, Pulled, Unpulled, FirstTake, Untouched, Asks
<1>7. CASE Asks("stop", TwoStops)
  <2>1. Len(ui.todo) = 2 /\ Tail(ui.todo) = LastStop
    BY <1>7, Lists, Zenon DEF Asks
  <2>2. Len(ui.todo) > 1
    BY <2>1
  <2>3. ui'.op = "stop" /\ ui'.todo = LastStop /\ bridge' = bridge
    BY <1>4, <1>7, <2>1, <2>2, OnwardsMoves DEF GlassesState
  <2> QED
    BY <1>1, <1>3, <1>5, <1>7, <2>3, ListsDiffer
<1>8. CASE Asks("start", VitureStart)
  <2>1. Len(ui.todo) = 3 /\ Tail(ui.todo) = ReadyStart
    BY <1>8, Lists, Zenon DEF Asks
  <2>2. Len(ui.todo) > 1
    BY <2>1
  <2>3. ui'.op = "start" /\ ui'.todo = ReadyStart /\ bridge' = bridge
    BY <1>4, <1>8, <2>1, <2>2, OnwardsMoves DEF GlassesState
  <2> QED
    BY <1>1, <1>3, <1>5, <1>6, <1>8, <2>3, ListsDiffer
<1>9. CASE Asks("stop", LastStop) \/ Asks("start", CameraStart)
  <2>1. Len(ui.todo) = 1
    BY <1>9, Lists, Zenon DEF Asks
  <2>2. ~(Len(ui.todo) > 1)
    BY <2>1
  <2>3. ui'.op = "idle" /\ (ui.op = "start" => bridge' = "CAPTURING") /\ (ui.op = "stop" => bridge' = "STOPPED")
    BY <1>4, <2>2, OnwardsMoves DEF GlassesState
  <2> QED
    BY <1>1, <1>3, <1>5, <1>6, <1>9, <2>3
<1> QED
  BY <1>3, <1>7, <1>8, <1>9

\* What GlassesPoints says goes on after talk.
LEMMA GlassesTalkKeeps ==
  ASSUME GlassesState, GlassesPoints, GlassesTalk
  PROVE  GlassesPoints'
BY DEF GlassesPoints, GlassesTalk, GlassesHands

\* A sensor asked to start for the first time.
LEMMA GlassesBeginsTalk ==
  ASSUME GlassesState, GlassesPoints, UNCHANGED GlassesHands, spent'.starts = spent.starts,
         Asks("start", VitureStart), Asks("start", VitureStart)', bridge' = bridge, spent.starts # 0
  PROVE  GlassesPoints' /\ (FirstTake' => FirstTake) /\ (Pulled' => Pulled)
<1>1. (Untouched' => Untouched) /\ (Pulled' => Pulled) /\ ~Unpulled' /\ (FirstTake' => FirstTake)
  BY DEF Untouched, Pulled, Unpulled, FirstTake, Asks, GlassesHands
<1>2. spent.starts <= 1 => bridge # "STOPPED"
  BY DEF GlassesPoints, Asks
<1> QED
  BY <1>1, <1>2 DEF GlassesPoints, GlassesHands

\* A stretch of points in the same hands stays what it is.
LEMMA FirstTakeKept ==
  ASSUME UNCHANGED <<client, backend, daemon, workers, eyes, trackers>>
  PROVE  (VitureFirst => VitureFirst') /\ (StereoFirst => StereoFirst')
BY DEF VitureFirst, StereoFirst, Held

LEMMA GlassesStartCapture ==
  ASSUME GlassesState, GlassesPoints, StartCapture
  PROVE  /\ GlassesPoints' /\ (FirstTake' => FirstTake) /\ due' = {}
         /\ UNCHANGED <<client, kind, backend, daemon, workers, eyes, trackers>>
<1>1. StartsCapture
  BY StartCaptureMoves DEF GlassesState
<1>2. ui' = Doing("start", VitureStart) /\ client' = client
  BY <1>1 DEF StartsCapture, StartRequests, Kept, GlassesState
<1>3. ui'.op = "start" /\ ui'.todo = VitureStart
  BY <1>2 DEF Doing
<1>4. ui.op = "idle" /\ bridge # "CAPTURING" /\ bridge' = bridge /\ spent'.starts = spent.starts + 1 /\ due' = {}
      /\ UNCHANGED <<kind, backend, daemon, workers, eyes, trackers>>
  BY <1>1 DEF StartsCapture, threads
<1>5. spent.starts \in Nat
  BY TypeParts DEF GlassesState, Budget
<1>6. spent'.starts # 0 /\ (spent'.starts <= 1 => spent.starts = 0)
  BY <1>4, <1>5
<1>7. spent.starts = 0 => Untouched /\ bridge = "READY" /\ FirstTake
  BY <1>4 DEF Untouched, FirstTake, Asks, GlassesPoints
<1>8. ~Unpulled' /\ Once(client)
  BY <1>3, <1>4 DEF Unpulled, Asks, GlassesPoints
<1>9. Untouched' => Untouched
  BY <1>6, <1>7 DEF Untouched
<1>10. GlassesPoints'
  BY <1>2, <1>4, <1>6, <1>7, <1>8, <1>9 DEF GlassesPoints
<1> QED
  BY <1>2, <1>4, <1>6, <1>7, <1>10 DEF FirstTake

LEMMA GlassesStopCapture ==
  ASSUME GlassesState, GlassesPoints, StopCapture
  PROVE  /\ GlassesPoints' /\ (FirstTake' => FirstTake) /\ ~Pulled'
         /\ UNCHANGED <<client, kind, backend, daemon, workers, eyes, trackers>>
<1>1. /\ ui' = Doing("stop", StopRequests) /\ due' = Known /\ bridge = "CAPTURING" /\ ui.op = "idle"
      /\ UNCHANGED <<daemonVars, bridge, client>>
  BY StopCaptureMoves DEF GlassesState
<1>2. ui' = Doing("stop", VitureStop) /\ Known = daemon.voxels
  BY <1>1 DEF StopRequests, Known, GlassesState
<1>3. ui'.op = "stop" /\ ui'.todo = VitureStop
  BY <1>2 DEF Doing
<1>4. spent.starts # 0 /\ spent'.starts = spent.starts
  BY <1>1, NotTheFirst DEF daemonVars
<1>5. ~Pulled' /\ ~Untouched'
  BY <1>1, <1>3, <1>4, StopsDiffer DEF Pulled, Untouched, Asks
<1>6. FirstTake' => FirstTake
  BY <1>1, <1>4 DEF FirstTake, Asks
<1>7. GlassesPoints'
  BY <1>1, <1>2, <1>4, <1>5 DEF GlassesPoints, daemonVars
<1> QED
  BY <1>1, <1>5, <1>6, <1>7 DEF daemonVars, threads

\* The poll of a capture: the map takes the daemon's buffer.
LEMMA GlassesFetches ==
  ASSUME GlassesState, GlassesPoints, FetchNewPoints
  PROVE  /\ GlassesPoints' /\ (FirstTake' => FirstTake) /\ ~Pulled'
         /\ client' = client \o daemon.buffer /\ daemon'.buffer = <<>> /\ daemon'.voxels = daemon.voxels
         /\ UNCHANGED <<kind, backend, workers, eyes, trackers>>
<1>1. ui.todo # <<>> /\ Head(ui.todo) = "NEW" /\ Onwards /\ UNCHANGED <<kind, threads, spent, due>>
  BY DEF FetchNewPoints, Asking
<1>2. Asks("tick", TickRequests) /\ bridge = "CAPTURING"
  BY <1>1, Lists DEF GlassesState, GlassesInv, GlassesUi, Asks
<1>3. Len(ui.todo) = 1
  BY <1>2, Lists, Zenon DEF Asks
<1>4. ~(Len(ui.todo) > 1)
  BY <1>3
<1>5. ui'.op = "idle" /\ bridge' = bridge
  BY <1>1, <1>2, <1>4, OnwardsMoves DEF Asks, GlassesState
<1>6. spent.starts # 0
  BY <1>1, NotTheFirst
<1>7. PICK places : client' = client \o places /\ GlassesTakes(places)
  BY NewPointsMoves DEF GlassesState, Glasses
<1>8. daemon' = [daemon EXCEPT !.buffer = <<>>] /\ daemon \in Daemon
  BY NewPointsMoves, TypeParts DEF GlassesState
<1>9. daemon'.buffer = <<>> /\ daemon'.voxels = daemon.voxels
  BY <1>8 DEF Daemon
<1>10. client' = client \o daemon.buffer /\ backend' = backend
  BY <1>7 DEF GlassesTakes
<1>11. ~Pulled' /\ ~Unpulled' /\ ~Untouched' /\ (FirstTake' => FirstTake)
  BY <1>1, <1>2, <1>5, <1>6 DEF Pulled, Unpulled, Untouched, FirstTake, Asks
<1>12. GlassesPoints'
  BY <1>1, <1>2, <1>5, <1>6, <1>11 DEF GlassesPoints
<1> QED
  BY <1>1, <1>9, <1>10, <1>11, <1>12 DEF threads

\* The final pull: the map is replaced by the daemon's.
LEMMA GlassesFetchesAll ==
  ASSUME GlassesState, GlassesPoints, FetchAllPoints
  PROVE  GlassesPoints' /\ ~FirstTake' /\ due' \subseteq ToSet(client')
<1>1. ui.todo # <<>> /\ Head(ui.todo) = "ALL" /\ Onwards /\ UNCHANGED <<daemonVars, due>> /\ client' = AllPoints
  BY DEF FetchAllPoints, Asking
<1>2. Asks("stop", VitureStop) /\ bridge = "CAPTURING"
  BY <1>1, Lists DEF GlassesState, GlassesInv, GlassesUi, Asks
<1>3. Len(ui.todo) = 3 /\ Tail(ui.todo) = TwoStops
  BY <1>2, Lists, Zenon DEF Asks
<1>4. Len(ui.todo) > 1
  BY <1>3
<1>5. ui'.op = "stop" /\ ui'.todo = TwoStops /\ bridge' = bridge
  BY <1>1, <1>2, <1>3, <1>4, OnwardsMoves DEF Asks, GlassesState
<1>6. spent.starts # 0
  BY <1>1, NotTheFirst
<1>7. Once(AllPoints) /\ ToSet(AllPoints) = daemon.voxels
  BY AllPointsAre DEF GlassesState
<1>8. due \subseteq daemon.voxels
  BY <1>2 DEF GlassesPoints, Unpulled
<1>9. ~Unpulled' /\ ~Untouched' /\ ~FirstTake'
  BY <1>1, <1>5, <1>6, ListsDiffer DEF Unpulled, Untouched, FirstTake, Asks, daemonVars
<1>10. GlassesPoints'
  BY <1>1, <1>2, <1>5, <1>6, <1>7, <1>9 DEF GlassesPoints, daemonVars
<1> QED
  BY <1>1, <1>7, <1>8, <1>9, <1>10

-----------------------------------------------------------------------------
(* What the glasses' daemon does to the points                              *)

LEMMA StartsStay ==
  ASSUME WellTyped, DaemonSteps
  PROVE  spent'.starts = spent.starts
<1> USE TypeParts
<1>1. \A k \in {"frames", "late", "fails"} : Spend(k) => spent'.starts = spent.starts
  BY SpendCounts DEF Budget
<1>2. \A k \in {"frames", "late", "fails"} : \A harmless : Costs(k, harmless) => spent'.starts = spent.starts
  BY <1>1 DEF Costs
<1>3. LoadModel => spent'.starts = spent.starts
  BY <1>2 DEF LoadModel
<1>4. ServerStep => spent'.starts = spent.starts
  BY <1>2 DEF ServerStep, ServerBegin, VitureBegin, ServerModel, ServerCamera, ServerFlag, ServerHalt, ServerJoinWorker,
     ServerJoinEye, ServerJoinTracker, ServerRelease, ServerEnd, ServerClose, Join
<1>5. \A i : StreamingLoop(i) \/ NetworkFails(i) \/ OnLingbotPoints(i) => spent'.starts = spent.starts
  BY <1>1 DEF StreamingLoop, NetworkFails, OnLingbotPoints
<1>6. \A i : CameraLoop(i) => spent'.starts = spent.starts
  BY <1>1, <1>2 DEF CameraLoop, EyeEnter, EyeModel, EyeReset, EyeStart, EyeCheck, EyeRead
<1>7. \A i : TrackingLoop(i) => spent'.starts = spent.starts
  BY <1>1 DEF TrackingLoop, FindVoxels, StorePose, TrackingEnds
<1> QED
  BY <1>3, <1>4, <1>5, <1>6, <1>7 DEF DaemonSteps

\* Voxels are forgotten when a capture begins, and only then.
LEMMA GlassesVoxels ==
  ASSUME GlassesState, DaemonSteps
  PROVE  Asks("start", VitureStart) \/ daemon.voxels \subseteq daemon'.voxels
<1> USE TypeParts DEF GlassesState, Daemon
<1>1. LoadModel => daemon' = daemon
  BY DEF LoadModel
<1>2. CASE ServerStep
  <2>1. CASE VitureBegin
    <3>1. Stage = "begin"
      BY <2>1, VitureBeginMoves
    <3>2. daemon.running => UNCHANGED daemon
      BY <2>1 DEF VitureBegin
    <3> QED
      BY <3>1, <3>2, GlassesAtWork DEF GlassesWaits
  <2>2. CASE ~VitureBegin
    BY <1>2, <2>2 DEF ServerStep, ServerBegin, ServerModel, ServerCamera, ServerFlag, ServerHalt, ServerJoinWorker,
       ServerJoinEye, ServerJoinTracker, ServerRelease, ServerEnd, ServerClose
  <2> QED
    BY <2>1, <2>2
<1>3. ASSUME NEW i \in 1..Len(workers), StreamingLoop(i) \/ NetworkFails(i) \/ OnLingbotPoints(i)
      PROVE  daemon.voxels \subseteq daemon'.voxels
  <2>1. CASE OnLingbotPoints(i)
    <3>1. PICK found, buffer : found = ToSet(workers[i].new) /\ buffer = daemon.buffer \o workers[i].new
      OBVIOUS
    <3>2. daemon' = [daemon EXCEPT !.buffer = buffer, !.voxels = @ \cup found]
      BY <2>1, <3>1, DeliverMoves
    <3>3. daemon'.voxels = daemon.voxels \cup found
      BY <3>2
    <3> QED
      BY <3>3
  <2>2. CASE ~OnLingbotPoints(i)
    BY <1>3, <2>2 DEF StreamingLoop, NetworkFails
  <2> QED
    BY <2>1, <2>2
<1>4. ASSUME NEW i \in 1..Len(eyes), CameraLoop(i)
      PROVE  daemon.voxels \subseteq daemon'.voxels
  BY <1>4 DEF CameraLoop, EyeEnter, EyeModel, EyeReset, EyeStart, EyeCheck, EyeRead
<1>5. ASSUME NEW i \in 1..Len(trackers), TrackingLoop(i)
      PROVE  daemon.voxels \subseteq daemon'.voxels
  <2>1. CASE FindVoxels(i)
    BY <2>1, FindMoves DEF VoxelFound
  <2>2. CASE StorePose(i)
    BY <2>2, PoseMoves
  <2>3. CASE TrackingEnds(i)
    BY <2>3, EndMoves
  <2> QED
    BY <1>5, <2>1, <2>2, <2>3 DEF TrackingLoop
<1> QED
  BY <1>1, <1>2, <1>3, <1>4, <1>5 DEF DaemonSteps

\* The glasses begin, or nothing is touched yet by anyone.
LEMMA UntouchedRests ==
  ASSUME GlassesState, GlassesPoints, Untouched, DaemonSteps
  PROVE  LoadModel \/ (VitureBegin /\ Asks("start", VitureStart) /\ ~daemon.running /\ spent.starts = 1)
<1>1. Len(workers) = 0 /\ Len(eyes) = 0 /\ Len(trackers) = 0
  <2>1. workers = <<>> /\ eyes = <<>> /\ trackers = <<>>
    BY DEF GlassesPoints
  <2> QED
    BY <2>1
<1>2. CASE ServerStep
  <2>1. Stage # "none"
    BY <1>2, StageIs DEF ServerStep, ServerBegin, VitureBegin, ServerModel, ServerCamera, ServerFlag, ServerHalt, ServerJoinWorker,
     ServerJoinEye, ServerJoinTracker, ServerRelease, ServerEnd, ServerClose, AtStep, GlassesState
  <2>2. GlassesWaits
    BY <2>1, GlassesAtWork
  <2>3. spent.starts = 1 /\ Asks("start", VitureStart) /\ ~daemon.running
    BY <2>2, ListsDiffer DEF Untouched, GlassesPoints, GlassesWaits, Asks
  <2>4. Stage = "begin"
    BY <2>2, <2>3, ListsDiffer DEF GlassesWaits, Asks
  <2>5. ~ServerBegin
    BY DEF ServerBegin, GlassesState
  <2>6. VitureBegin
    BY <1>2, <2>4, <2>5, ModelStepMoves, CameraStepMoves, FlagMoves, HaltMoves, JoinWorkerMoves, JoinEyeMoves, JoinTrackerMoves,
       ReleaseMoves, ServerEndMoves, CloseMoves DEF ServerStep, GlassesState
  <2> QED
    BY <2>3, <2>6
<1> QED
  BY <1>1, <1>2 DEF DaemonSteps

-----------------------------------------------------------------------------
(* The glasses' daemon and the points of every capture                      *)

\* The daemon does not stop recording while a start is under way.
LEMMA GlassesRecord ==
  ASSUME GlassesState, DaemonSteps, Asks("start", VitureStart), daemon.running
  PROVE  daemon'.running
<1> USE TypeParts DEF GlassesState
<1>1. CASE LoadModel
  BY <1>1, LoadMoves
<1>2. CASE ServerStep
  <2>1. Stage # "none"
    BY <1>2, StageIs DEF ServerStep, ServerBegin, VitureBegin, ServerModel, ServerCamera, ServerFlag, ServerHalt, ServerJoinWorker,
     ServerJoinEye, ServerJoinTracker, ServerRelease, ServerEnd, ServerClose, AtStep
  <2> QED
    BY <2>1, GlassesAtWork, ListsDiffer DEF GlassesWaits, Asks
<1>3. ASSUME NEW i \in 1..Len(workers), StreamingLoop(i) \/ NetworkFails(i) \/ OnLingbotPoints(i)
      PROVE  daemon'.running = daemon.running
  BY <1>3, WorkerActs DEF SameFlags
<1>4. ASSUME NEW i \in 1..Len(eyes), CameraLoop(i)
      PROVE  daemon'.running = daemon.running
  BY <1>4, EyeActs DEF SameFlags
<1>5. ASSUME NEW i \in 1..Len(trackers), TrackingLoop(i)
      PROVE  daemon'.running = daemon.running
  BY <1>5, TrackerActs DEF SameFlags
<1> QED
  BY <1>1, <1>2, <1>3, <1>4, <1>5 DEF DaemonSteps

LEMMA GlassesServed ==
  ASSUME GlassesState, GlassesPoints, DaemonSteps, BridgeWaits
  PROVE  GlassesPoints' /\ (FirstTake' => FirstTake) /\ (Pulled' => Pulled) /\ due' = due /\ client' = client
<1>1. spent'.starts = spent.starts
  BY StartsStay DEF GlassesState
<1>2. ui' = ui /\ bridge' = bridge /\ client' = client /\ due' = due
  BY DEF BridgeWaits
<1>3. (Pulled' <=> Pulled) /\ (Unpulled' <=> Unpulled) /\ (FirstTake' <=> FirstTake)
  BY <1>1, <1>2 DEF Pulled, Unpulled, FirstTake, Asks
<1>4. Untouched' => Untouched
  BY <1>1, <1>2, GlassesRecord DEF Untouched, Asks
<1>5. ASSUME Untouched' PROVE UNCHANGED <<backend, daemon, threads>>
  <2>1. CASE LoadModel
    BY <2>1 DEF LoadModel
  <2>2. CASE VitureBegin /\ ~daemon.running /\ spent.starts = 1
    <3>1. daemon'.running
      BY <2>2, VitureBeginMoves, GlassesBeginType DEF GlassesState
    <3> QED
      BY <1>1, <1>5, <2>2, <3>1 DEF Untouched
  <2> QED
    BY <1>4, <1>5, <2>1, <2>2, UntouchedRests
<1>6. Unpulled => due \subseteq daemon'.voxels
  <2>1. Unpulled => ~Asks("start", VitureStart)
    BY DEF Unpulled, Asks
  <2> QED
    BY <2>1, GlassesVoxels DEF GlassesPoints
<1>7. spent.starts = 0 => Asks("idle", <<>>)' /\ bridge' = "READY"
  BY <1>2 DEF GlassesPoints, Asks
<1>8. GlassesPoints'
  BY <1>1, <1>2, <1>3, <1>4, <1>5, <1>6, <1>7 DEF GlassesPoints, threads
<1> QED
  BY <1>2, <1>3, <1>8

-----------------------------------------------------------------------------
(* The glasses' first capture                                               *)

\* The server begins it, or finds it begun; it does nothing else.
LEMMA FirstServed ==
  ASSUME GlassesState, GlassesPoints, FirstTake, ServerStep
  PROVE  /\ UNCHANGED <<backend, workers>>
         /\ \/ UNCHANGED <<daemon, eyes, trackers>>
            \/ Untouched /\ \E hardware \in BOOLEAN : GlassesBegin(hardware)
<1> USE DEF GlassesState
<1>1. Stage # "none"
  BY StageIs, TypeParts DEF ServerStep, ServerBegin, VitureBegin, ServerModel, ServerCamera, ServerFlag, ServerHalt, ServerJoinWorker,
     ServerJoinEye, ServerJoinTracker, ServerRelease, ServerEnd, ServerClose, AtStep
<1>2. GlassesWaits
  BY <1>1, GlassesAtWork
<1>3. Stage = "begin" /\ (~daemon.running => Asks("start", VitureStart))
  BY <1>2 DEF GlassesWaits, FirstTake
<1>4. VitureBegin
  BY <1>3, ModelStepMoves, CameraStepMoves, FlagMoves, HaltMoves, JoinWorkerMoves, JoinEyeMoves, JoinTrackerMoves,
     ReleaseMoves, ServerEndMoves, CloseMoves DEF ServerStep, ServerBegin
<1>5. ~daemon.running => Untouched
  <2>1. Asks("start", VitureStart) => spent.starts # 0
    BY NotTheFirst, ListsDiffer DEF Asks
  <2>2. spent.starts \in Nat /\ spent.starts <= 1
    BY TypeParts DEF Budget, FirstTake
  <2> QED
    BY <1>3, <2>1, <2>2 DEF Untouched
<1> QED
  BY <1>4, <1>5, VitureBeginMoves DEF GlassesBegin

LEMMA AddsFirst ==
  ASSUME NEW q, q = <<>>, NEW r, NEW v, Adds(q, r, v)
  PROVE  Len(r) = 1 /\ \A i \in 1..Len(r) : i = 1 /\ r[i] = v
<1>1. Len(q) = 0
  OBVIOUS
<1> QED
  BY <1>1 DEF Adds

LEMMA VitureBegins ==
  ASSUME GlassesState, GlassesPoints, Untouched, kind = "VITURE", NEW hardware \in BOOLEAN, GlassesBegin(hardware),
         UNCHANGED <<client, backend, workers>>
  PROVE  VitureFirst'
<1>1. client = <<>> /\ backend.voxels = <<>> /\ workers = <<>> /\ eyes = <<>> /\ trackers = <<>>
  BY DEF GlassesPoints
<1>2. daemon'.buffer = <<>>
  BY GlassesBeginType DEF GlassesState
<1>3. Adds(eyes, eyes', [at |-> "enter", open |-> FALSE]) /\ Adds(trackers, trackers', Polling)
  BY DEF GlassesBegin
<1>4. Len(eyes') = 1
  BY <1>1, <1>3, AddsFirst
<1>5. \A i \in 1..Len(trackers') : trackers'[i] = Polling
  BY <1>1, <1>3, AddsFirst
<1>6. \A i \in 1..Len(trackers') : trackers'[i].at # "store" /\ trackers'[i].new = <<>>
  BY <1>5 DEF Polling
<1>7. Len(workers) = 0 /\ Held(workers) = <<>>
  BY <1>1 DEF Held
<1>8. Strung(<<>>, <<>>, <<>>, <<>>) /\ Once(<<>>)
  <2>1. <<>> \in Seq(Place)
    OBVIOUS
  <2> QED
    BY <2>1, StrungNothing, EmptyOnce
<1>9. Held(workers') = <<>>
  BY <1>7 DEF Held
<1>10. eyes' # <<>>
  BY <1>4
<1> QED
  BY <1>1, <1>2, <1>4, <1>6, <1>7, <1>8, <1>9, <1>10 DEF VitureFirst

LEMMA StereoBegins ==
  ASSUME GlassesState, GlassesPoints, Untouched, kind = "STEREO", NEW hardware \in BOOLEAN, GlassesBegin(hardware),
         UNCHANGED <<client, backend, workers>>
  PROVE  StereoFirst'
<1>1. client = <<>> /\ workers = <<>> /\ eyes = <<>> /\ trackers = <<>>
  BY DEF GlassesPoints
<1>2. daemon'.buffer = <<>>
  BY GlassesBeginType DEF GlassesState
<1>3. eyes' = eyes /\ Adds(trackers, trackers', Polling)
  BY DEF GlassesBegin
<1>4. Len(trackers') = 1 /\ \A i \in 1..Len(trackers') : i = 1 /\ trackers'[i] = Polling
  BY <1>1, <1>3, AddsFirst
<1>5. \A i \in 1..Len(trackers') : trackers'[i].new = <<>>
  BY <1>4 DEF Polling
<1>6. trackers'[1].new = <<>>
  BY <1>4, <1>5
<1>7. Held(trackers') = <<>>
  BY <1>6 DEF Held
<1>8. Strung(<<>>, <<>>, <<>>, <<>>) /\ Once(<<>>)
  <2>1. <<>> \in Seq(Place)
    OBVIOUS
  <2> QED
    BY <2>1, StrungNothing, EmptyOnce
<1>9. ToSet(<<>>) = {}
  BY DEF ToSet
<1>10. ToSet(<<>>) \subseteq daemon'.voxels
  BY <1>9
<1>11. \E s : Strung(client', daemon'.buffer, Held(trackers'), s) /\ Once(s) /\ ToSet(s) \subseteq daemon'.voxels
  BY <1>1, <1>2, <1>7, <1>8, <1>10
<1> QED
  BY <1>1, <1>3, <1>4, <1>5, <1>11 DEF StereoFirst

LEMMA ConcatNothing ==
  ASSUME NEW q \in Seq(Place), NEW n, n = <<>>, NEW r, r = q \o n
  PROVE  r = q
<1>1. n \in Seq(Place) /\ Len(n) = 0
  OBVIOUS
<1>2. r \in Seq(Place) /\ Len(r) = Len(q) /\ \A j \in 1..Len(q) : r[j] = q[j]
  BY <1>1, ConcatIs
<1> QED
  BY <1>2

\* One thread of a kind, and what it holds.
LEMMA HeldByOne ==
  ASSUME NEW q, Len(q) <= 1, Len(q) \in Nat, NEW i \in 1..Len(q), NEW r, NEW v, Put(q, r, i, v)
  PROVE  /\ i = 1 /\ Len(q) = 1 /\ Len(r) = 1 /\ q # <<>> /\ r # <<>> /\ r[1] = v
         /\ Held(q) = q[i].new /\ Held(r) = v.new
<1>1. i = 1 /\ Len(q) = 1 /\ Len(r) = 1 /\ r[1] = v
  BY DEF Put
<1>2. q # <<>> /\ r # <<>>
  BY <1>1
<1> QED
  BY <1>1, <1>2 DEF Held

-----------------------------------------------------------------------------
(* LingBot with the glasses                                                 *)

LEMMA VitureParts ==
  ASSUME WellTyped
  PROVE  /\ backend \in Backend /\ backend.voxels \in Seq(Place) /\ daemon.buffer \in Seq(Place)
         /\ Len(workers) \in Nat /\ Len(eyes) \in Nat /\ Len(trackers) \in Nat
<1> USE TypeParts
<1>1. backend.voxels \in Seq(Place)
  BY DEF Backend
<1>2. daemon.buffer \in Seq(Place)
  BY DEF Daemon
<1>3. \A n : \A q \in Seq(n) : Len(q) \in Nat
  OBVIOUS
<1> QED
  BY <1>1, <1>2, <1>3

\* The worker becomes w.
LEMMA VitureWorkerNext ==
  ASSUME WellTyped, VitureFirst, NEW i \in 1..Len(workers), NEW w, WorkerBecomes(i, w),
         UNCHANGED <<client, eyes, trackers>>,
         Grown(backend.voxels, backend'.voxels),
         Strung(client, daemon'.buffer, w.new, backend'.voxels),
         w.at = "scale" => Len(w.frames) <= Len(backend'.scale),
         w.at # "deliver" => w.new = <<>>
  PROVE  VitureFirst'
<1>1. Put(workers, workers', i, w) /\ Len(workers) <= 1 /\ Len(workers) \in Nat
  BY VitureParts DEF WorkerBecomes, VitureFirst
<1>2. /\ i = 1 /\ Len(workers) = 1 /\ Len(workers') = 1 /\ workers # <<>> /\ workers' # <<>> /\ workers'[1] = w
      /\ Held(workers') = w.new
  BY <1>1, HeldByOne
<1>3. Once(backend'.voxels)
  BY DEF Grown, VitureFirst
<1>4. \A j \in 1..Len(workers') : workers'[j] = w
  BY <1>2
<1>5. eyes # <<>> /\ \A j \in 1..Len(eyes) : eyes[j].at \notin {"enter", "model", "reset", "start"}
  BY <1>2 DEF VitureFirst
<1>6. Strung(client', daemon'.buffer, Held(workers'), backend'.voxels)
  BY <1>2
<1>7. Strung(client, daemon.buffer, Held(workers), backend.voxels)' <=>
      Strung(client', daemon'.buffer, Held(workers'), backend'.voxels)
  BY DEF Strung, Held
<1> QED
  BY <1>2, <1>3, <1>4, <1>5, <1>6, <1>7 DEF VitureFirst

LEMMA VitureWorks ==
  ASSUME WellTyped, kind = "VITURE", VitureFirst, BridgeWaits, NEW i \in 1..Len(workers),
         \/ StreamingLoop(i) \/ NetworkFails(i) \/ OnLingbotPoints(i)
  PROVE  VitureFirst'
<1>1. UNCHANGED <<client, eyes, trackers>>
  BY WorkerActs DEF BridgeWaits
<1>2. /\ workers[i].at = "scale" => Len(workers[i].frames) <= Len(backend.scale)
      /\ workers[i].at # "deliver" => workers[i].new = <<>>
  BY DEF VitureFirst
<1>3. i = 1 /\ Len(workers) = 1
  <2>1. PICK n : n = Len(workers)
    OBVIOUS
  <2>2. n \in Nat /\ n <= 1 /\ i \in 1..n
    BY <2>1, VitureParts DEF VitureFirst
  <2>3. i = 1 /\ n = 1
    BY <2>2
  <2> QED
    BY <2>1, <2>3
<1>4. Held(workers) = workers[i].new
  <2>1. workers # <<>>
    BY <1>3
  <2> QED
    BY <1>3, <2>1 DEF Held
<1>5. Strung(client, daemon.buffer, workers[i].new, backend.voxels)
  BY <1>4 DEF VitureFirst
<1>6. Grown(backend.voxels, backend.voxels)
  BY VitureParts DEF Grown
<1>7. CASE OnLingbotPoints(i)
  <2>1. PICK w : WorkerBecomes(i, w) /\ w.at = workers[i].next /\ w.new = <<>>
    BY <1>7, DeliverMoves
  <2>2. PICK found, buffer : found = ToSet(workers[i].new) /\ buffer = daemon.buffer \o workers[i].new
    OBVIOUS
  <2>3. daemon' = [daemon EXCEPT !.buffer = buffer, !.voxels = @ \cup found]
    BY <1>7, <2>2, DeliverMoves
  <2>4. daemon'.buffer = buffer
    BY <2>3, TypeParts DEF Daemon
  <2>5. Strung(client, buffer, <<>>, backend.voxels)
    BY <1>5, <2>2, StrungDelivered
  <2>6. workers[i].next \in {"wait", "promote"}
    <3>1. workers[i] \in Worker
      BY TypeParts
    <3> QED
      BY <3>1, RecordTypes
  <2>7. backend' = backend
    BY <1>7 DEF OnLingbotPoints
  <2>8. w.at # "scale"
    BY <2>1, <2>6
  <2> QED
    BY <1>1, <1>6, <2>1, <2>4, <2>5, <2>7, <2>8, VitureWorkerNext
<1>8. ASSUME workers[i].at # "deliver" PROVE Strung(client, daemon.buffer, <<>>, backend.voxels)
  BY <1>2, <1>5, <1>8
<1>9. ASSUME NEW w, WorkerBecomes(i, w), w.new = <<>>, daemon' = daemon, backend'.voxels = backend.voxels,
             w.at = "scale" => Len(w.frames) <= Len(backend'.scale), workers[i].at # "deliver"
      PROVE  VitureFirst'
  BY <1>1, <1>6, <1>8, <1>9, VitureWorkerNext
<1>10. CASE NetworkFails(i)
  <2>1. PICK w : WorkerBecomes(i, w) /\ w.at = (IF kind = "ABOT" THEN "wait" ELSE "done") /\ w.new = <<>>
    BY <1>10, FailMoves DEF NetworkFails
  <2>2. backend' = backend /\ daemon' = daemon /\ workers[i].at # "deliver" /\ w.at # "scale"
    BY <1>10, <2>1 DEF NetworkFails, WorkerFail
  <2> QED
    BY <1>9, <2>1, <2>2
<1>11. CASE StreamingLoop(i)
  <2>1. daemon' = daemon
    BY <1>11 DEF StreamingLoop
  <2>2. CASE WorkerWait(i)
    <3>1. PICK w : WorkerBecomes(i, w) /\ w.at = (IF backend.running THEN "grab" ELSE "done") /\ w.new = workers[i].new
      BY <2>2, WaitMoves
    <3>2. backend' = backend /\ workers[i].at # "deliver" /\ w.at # "scale" /\ w.new = <<>>
      BY <1>2, <2>2, <3>1 DEF WorkerWait
    <3> QED
      BY <1>9, <2>1, <3>1, <3>2
  <2>3. CASE WorkerGrab(i)
    <3>1. PICK w : WorkerGrabs(i, w)
      BY <2>3, GrabMoves
    <3>2. workers[i].at # "deliver" /\ w.new = <<>> /\ backend'.voxels = backend.voxels /\ WorkerBecomes(i, w)
      BY <1>2, <2>3, <3>1 DEF WorkerGrab, WorkerGrabs, SameEngine
    <3>3. ASSUME w.at = "scale" PROVE Len(w.frames) <= Len(backend'.scale)
      <4>1. w.frames = backend'.scale /\ backend' \in Backend
        BY <3>1, <3>3 DEF WorkerGrabs
      <4>2. backend'.scale \in Seq(Frame)
        BY <4>1 DEF Backend
      <4>3. Len(backend'.scale) \in Nat
        BY <4>2
      <4> QED
        BY <4>1, <4>3
    <3> QED
      BY <1>9, <2>1, <3>2, <3>3
  <2>4. CASE WorkerPromote(i)
    <3>1. backend'.voxels = backend.voxels /\ WorkerBecomes(i, Waiting)
      BY <2>4, PromoteMoves DEF SameEngine
    <3>2. Waiting.at = "wait" /\ Waiting.new = <<>> /\ workers[i].at # "deliver"
      BY <2>4 DEF Waiting, WorkerPromote
    <3> QED
      BY <1>9, <2>1, <3>1, <3>2
  <2>5. ASSUME NEW w, NEW next \in {"wait", "promote"}, WorkerStores(i, w, next), Predicts(backend, backend'), workers[i].at # "deliver"
        PROVE  VitureFirst'
    <3>1. Grown(backend.voxels, backend'.voxels)
      BY <2>5 DEF Predicts
    <3>2. PICK new : new = Beyond(backend'.voxels, backend.voxels)
      OBVIOUS
    <3>3. Strung(client, daemon.buffer, new, backend'.voxels)
      BY <1>8, <2>5, <3>1, <3>2, StrungGrown
    <3>4. WorkerBecomes(i, w) /\ w.new = new
      BY <2>5, <3>2 DEF WorkerStores
    <3>5. w.at # "scale" /\ (w.at # "deliver" => w.new = <<>>)
      BY <2>5 DEF WorkerStores
    <3> QED
      BY <1>1, <2>1, <3>1, <3>3, <3>4, <3>5, VitureWorkerNext
  <2>6. CASE ExecuteScalePass(i)
    <3>1. PICK w : WorkerStores(i, w, "promote") \/ ScalePassEnds(i, w)
      BY <2>6, ScaleMoves
    <3>2. Predicts(backend, backend') /\ workers[i].at = "scale"
      BY <2>6, ScaleMoves DEF ExecuteScalePass
    <3> QED
      BY <1>2, <2>5, <3>1, <3>2 DEF ScalePassEnds
  <2>7. CASE ExecuteStreamingStep(i)
    <3>1. PICK w : WorkerStores(i, w, "wait")
      BY <2>7, StepMoves
    <3>2. Predicts(backend, backend') /\ workers[i].at = "step"
      BY <2>7, StepMoves DEF ExecuteStreamingStep
    <3> QED
      BY <2>5, <3>1, <3>2
  <2>8. CASE ABotStreamingStep(i)
    BY <2>8 DEF ABotStreamingStep
  <2> QED
    BY <1>11, <2>2, <2>3, <2>4, <2>6, <2>7, <2>8 DEF StreamingLoop
<1> QED
  BY <1>7, <1>10, <1>11

\* The camera thread becomes e, and the engine keeps its voxels.
Early == {"enter", "model", "reset", "start"}
LEMMA VitureEyeNext ==
  ASSUME WellTyped, VitureFirst, NEW i \in 1..Len(eyes), NEW e, EyeBecomes(i, e),
         UNCHANGED <<client, workers, trackers>>, daemon'.buffer = daemon.buffer,
         backend'.voxels = backend.voxels, workers = <<>> \/ backend'.scale = backend.scale,
         e.at \in Early => eyes[i].at \in Early
  PROVE  VitureFirst'
<1>1. Put(eyes, eyes', i, e) /\ Len(eyes) <= 1 /\ Len(eyes) \in Nat
  BY VitureParts DEF EyeBecomes, VitureFirst
<1>2. i = 1 /\ Len(eyes) = 1 /\ Len(eyes') = 1 /\ eyes'[1] = e
  BY <1>1, HeldByOne
<1>3. eyes' # <<>>
  BY <1>2
<1>4. \A j \in 1..Len(eyes') : eyes'[j].at \in Early => workers = <<>> /\ backend.voxels = <<>>
  BY <1>2 DEF VitureFirst, Early
<1>5. workers = <<>> => Len(workers) = 0
  OBVIOUS
<1> QED
  BY <1>2, <1>3, <1>4, <1>5 DEF VitureFirst, Held, Early

LEMMA VitureFilms ==
  ASSUME WellTyped, kind = "VITURE", VitureFirst, BridgeWaits, NEW i \in 1..Len(eyes), CameraLoop(i)
  PROVE  VitureFirst'
<1>1. UNCHANGED <<client, trackers>>
  BY DEF BridgeWaits, CameraLoop
<1>2. eyes[i].at \in Early => workers = <<>> /\ backend.voxels = <<>>
  BY DEF VitureFirst, Early
<1> USE VitureEyeNext DEF Early
<1>3. CASE EyeEnter(i)
  <2>1. PICK e : EyeBecomes(i, e) /\ e.at \in {"model", "done"}
    BY <1>3, EnterMoves
  <2>2. UNCHANGED <<backend, daemon, workers>> /\ eyes[i].at = "enter"
    BY <1>3 DEF EyeEnter
  <2> QED
    BY <1>1, <2>1, <2>2
<1>4. CASE EyeModel(i)
  <2>1. PICK e : EyeBecomes(i, e) /\ e.at \in {"check", "reset"}
    BY <1>4, ModelMoves
  <2>2. UNCHANGED <<backend, daemon, workers>> /\ eyes[i].at = "model"
    BY <1>4 DEF EyeModel
  <2> QED
    BY <1>1, <2>1, <2>2
<1>5. CASE EyeReset(i)
  <2>1. PICK e : EyeBecomes(i, e) /\ e.at = "start"
    BY <1>5, ResetMoves
  <2>2. UNCHANGED <<daemon, workers>> /\ backend' = LingBotReset(backend) /\ eyes[i].at = "reset"
    BY <1>5 DEF EyeReset
  <2>3. backend'.voxels = <<>>
    BY <2>2, TypeParts DEF LingBotReset, Backend
  <2> QED
    BY <1>1, <1>2, <2>1, <2>2, <2>3
<1>6. CASE EyeStart(i)
  <2>1. PICK e : EyeBecomes(i, e) /\ e.at = "check"
    BY <1>6, StartMoves
  <2>2. EngineStart /\ daemon' = [daemon EXCEPT !.worker = NextWorker] /\ eyes[i].at = "start"
    BY <1>6 DEF EyeStart
  <2>3. daemon'.buffer = daemon.buffer
    BY <2>2, EngineDaemon
  <2>4. CASE UNCHANGED <<backend, workers>>
    BY <1>1, <2>1, <2>3, <2>4
  <2>5. CASE EngineGoes
    <3>1. Adds(workers, workers', Waiting) /\ backend' = LingBotStart(backend) /\ workers = <<>>
      BY <1>2, <2>2, <2>5 DEF EngineGoes
    <3>2. backend'.voxels = backend.voxels
      BY <3>1, TypeParts DEF LingBotStart, Backend
    <3>3. Len(workers') = 1 /\ \A j \in 1..Len(workers') : j = 1 /\ workers'[j] = Waiting
      BY <3>1, AddsFirst
    <3>4. \A j \in 1..Len(workers') : workers'[j].at = "wait" /\ workers'[j].new = <<>>
      BY <3>3 DEF Waiting
    <3>5. Held(workers') = <<>> /\ Held(workers) = <<>>
      BY <3>1, <3>3, <3>4 DEF Held
    <3>6. Put(eyes, eyes', i, e) /\ Len(eyes) <= 1 /\ Len(eyes) \in Nat
      BY <2>1, VitureParts DEF EyeBecomes, VitureFirst
    <3>7. i = 1 /\ Len(eyes) = 1 /\ Len(eyes') = 1 /\ eyes'[1] = e
      BY <3>6, HeldByOne
    <3>8. eyes' # <<>> /\ \A j \in 1..Len(eyes') : eyes'[j].at = "check"
      BY <2>1, <3>7
    <3>9. Strung(client', daemon'.buffer, Held(workers'), backend'.voxels)
      BY <1>1, <2>3, <3>2, <3>5 DEF VitureFirst
    <3>10. Strung(client, daemon.buffer, Held(workers), backend.voxels)' <=>
           Strung(client', daemon'.buffer, Held(workers'), backend'.voxels)
      BY DEF Strung, Held
    <3> QED
      BY <1>1, <3>2, <3>3, <3>4, <3>7, <3>8, <3>9, <3>10 DEF VitureFirst
  <2> QED
    BY <2>2, <2>4, <2>5, EngineMoves
<1>7. CASE EyeCheck(i)
  <2>1. PICK e : EyeBecomes(i, e) /\ e.at = IF Recording THEN "read" ELSE "done"
    BY <1>7, CheckMoves
  <2>2. UNCHANGED <<backend, daemon, workers>> /\ e.at \notin Early
    BY <1>7, <2>1 DEF EyeCheck
  <2> QED
    BY <1>1, <2>1, <2>2
<1>8. CASE EyeRead(i)
  <2>1. PICK e : EyeBecomes(i, e) /\ e.at = "check"
    BY <1>8, ReadMoves
  <2>2. UNCHANGED <<daemon, workers>> /\ backend'.voxels = backend.voxels
    BY <1>8, ReadMoves DEF SameEngine
  <2>3. backend'.scale = backend.scale
    <3>1. backend' = backend \/ \E f : backend' = LingBotFeed(backend, f)
      BY <1>8 DEF EyeRead
    <3>2. CASE backend' = backend
      BY <3>2
    <3>3. ASSUME NEW f, backend' = LingBotFeed(backend, f) PROVE backend'.scale = backend.scale
      BY <3>3, TypeParts DEF LingBotFeed, Backend
    <3> QED
      BY <3>1, <3>2, <3>3
  <2> QED
    BY <1>1, <2>1, <2>2, <2>3
<1> QED
  BY <1>3, <1>4, <1>5, <1>6, <1>7, <1>8 DEF CameraLoop

LEMMA VitureTracks ==
  ASSUME WellTyped, kind = "VITURE", VitureFirst, BridgeWaits, NEW i \in 1..Len(trackers), TrackingLoop(i)
  PROVE  VitureFirst'
<1>1. UNCHANGED <<client, backend, workers, eyes>>
  BY DEF BridgeWaits, TrackingLoop
<1>2. ASSUME NEW t, TrackerBecomes(i, t), t.at # "store", t.new = <<>>, daemon'.buffer = daemon.buffer
      PROVE  VitureFirst'
  <2>1. \A j \in 1..Len(trackers') : trackers'[j].at # "store" /\ trackers'[j].new = <<>>
    BY <1>2 DEF VitureFirst, TrackerBecomes, Put
  <2> QED
    BY <1>1, <1>2, <2>1 DEF VitureFirst, Held
<1>3. CASE FindVoxels(i)
  BY <1>3 DEF FindVoxels
<1>4. CASE StorePose(i)
  <2>1. TrackerBecomes(i, Polling) /\ Polling.at = "poll" /\ Polling.new = <<>>
    BY <1>4, PoseMoves DEF Polling
  <2>2. PICK b : b = daemon.buffer \o trackers[i].new /\ daemon' = [daemon EXCEPT !.poses = <<0>>, !.buffer = b]
    BY <1>4, PoseMoves
  <2>3. trackers[i].new = <<>>
    BY DEF VitureFirst
  <2>4. b = daemon.buffer
    BY <2>2, <2>3, VitureParts, ConcatNothing
  <2>5. daemon'.buffer = daemon.buffer
    BY <2>2, <2>4, TypeParts DEF Daemon
  <2> QED
    BY <1>2, <2>1, <2>5
<1>5. CASE TrackingEnds(i)
  <2>1. PICK t : TrackerBecomes(i, t) /\ t.at = "done" /\ t.new = trackers[i].new
    BY <1>5, EndMoves
  <2>2. trackers[i].new = <<>> /\ daemon' = daemon
    BY <1>5, EndMoves DEF VitureFirst
  <2> QED
    BY <1>2, <2>1, <2>2
<1> QED
  BY <1>3, <1>4, <1>5 DEF TrackingLoop

-----------------------------------------------------------------------------
(* The glasses' two cameras                                                 *)

LEMMA StereoTracks ==
  ASSUME WellTyped, kind = "STEREO", StereoFirst, BridgeWaits, NEW i \in 1..Len(trackers), TrackingLoop(i)
  PROVE  StereoFirst'
<1>1. UNCHANGED <<client, backend, workers, eyes>>
  BY DEF BridgeWaits, TrackingLoop
<1>2. PICK s : Strung(client, daemon.buffer, Held(trackers), s) /\ Once(s) /\ ToSet(s) \subseteq daemon.voxels
  BY DEF StereoFirst
<1>3. Len(trackers) \in Nat /\ Len(trackers) <= 1
  BY VitureParts DEF StereoFirst
<1>4. ASSUME NEW t, TrackerBecomes(i, t), t.at # "store" => t.new = <<>>,
             NEW r, Strung(client, daemon'.buffer, t.new, r), Once(r), ToSet(r) \subseteq daemon'.voxels
      PROVE  StereoFirst'
  <2>1. Put(trackers, trackers', i, t)
    BY <1>4 DEF TrackerBecomes
  <2>2. i = 1 /\ Len(trackers') = 1 /\ trackers'[1] = t /\ Held(trackers') = t.new
    BY <1>3, <2>1, HeldByOne
  <2>3. Strung(client', daemon'.buffer, Held(trackers'), r)
    BY <1>1, <1>4, <2>2
  <2>4. \A j \in 1..Len(trackers') : trackers'[j].at # "store" => trackers'[j].new = <<>>
    BY <1>4, <2>2
  <2>5. \E q : Strung(client', daemon'.buffer, Held(trackers'), q) /\ Once(q) /\ ToSet(q) \subseteq daemon'.voxels
    BY <1>4, <2>3
  <2>6. workers' = <<>> /\ eyes' = <<>>
    BY <1>1 DEF StereoFirst
  <2> QED
    BY <2>2, <2>4, <2>5, <2>6 DEF StereoFirst
<1>5. Held(trackers) = trackers[i].new
  <2>1. PICK n : n = Len(trackers)
    OBVIOUS
  <2>2. n \in Nat /\ n <= 1 /\ i \in 1..n
    BY <1>3, <2>1
  <2>3. i = 1 /\ n = 1
    BY <2>2
  <2>4. Len(trackers) = 1
    BY <2>1, <2>3
  <2>5. trackers # <<>>
    BY <2>4
  <2> QED
    BY <2>3, <2>5 DEF Held
<1>6. trackers[i].at = "poll" => Strung(client, daemon.buffer, <<>>, s)
  BY <1>2, <1>5 DEF StereoFirst
<1>7. CASE FindVoxels(i)
  <2>1. PICK p, t : TrackerBecomes(i, t) /\ VoxelFound(p, t)
    BY <1>7, FindMoves
  <2>2. p \in Place /\ t.at = "store" /\ trackers[i].at = "poll"
    BY <1>7, <2>1 DEF VoxelFound, FindVoxels
  <2>3. daemon'.voxels = daemon.voxels \cup {p} /\ daemon'.buffer = daemon.buffer
    BY <2>1, TypeParts DEF VoxelFound, Daemon
  <2>4. CASE p \in daemon.voxels
    <3>1. t.new = <<>>
      BY <2>1, <2>4 DEF VoxelFound
    <3> QED
      BY <1>2, <1>4, <1>6, <2>1, <2>2, <2>3, <3>1
  <2>5. CASE p \notin daemon.voxels
    <3>1. t.new = <<p>>
      BY <2>1, <2>5 DEF VoxelFound
    <3>2. PICK w : w = Append(s, p)
      OBVIOUS
    <3>3. Strung(client, daemon.buffer, <<p>>, w)
      BY <1>6, <2>2, <3>2, StrungAdded
    <3>4. s \in Seq(Place) /\ Len(s) \in Nat
      BY <1>2 DEF Strung
    <3>5. Len(w) = Len(s) + 1 /\ w[Len(s) + 1] = p /\ \A j \in 1..Len(s) : w[j] = s[j]
      BY <2>2, <3>2, <3>4
    <3>6. \A j \in 1..Len(s) : s[j] # p /\ s[j] \in daemon.voxels
      BY <1>2, <2>5 DEF ToSet
    <3>7. \A j \in 1..Len(w) : j \in 1..Len(s) \/ j = Len(s) + 1
      BY <3>4, <3>5
    <3>8. Once(w)
      BY <1>2, <3>5, <3>6, <3>7 DEF Once
    <3>9. ToSet(w) \subseteq daemon'.voxels
      BY <2>3, <3>5, <3>6, <3>7 DEF ToSet
    <3> QED
      BY <1>4, <2>1, <2>2, <2>3, <3>1, <3>3, <3>8, <3>9
  <2> QED
    BY <2>4, <2>5
<1>8. CASE StorePose(i)
  <2>1. TrackerBecomes(i, Polling) /\ Polling.new = <<>> /\ daemon'.voxels = daemon.voxels
    BY <1>8, PoseMoves DEF Polling
  <2>2. PICK b : b = daemon.buffer \o trackers[i].new /\ daemon' = [daemon EXCEPT !.poses = <<0>>, !.buffer = b]
    BY <1>8, PoseMoves
  <2>3. daemon'.buffer = b
    BY <2>2, TypeParts DEF Daemon
  <2>4. Strung(client, b, <<>>, s)
    BY <1>2, <1>5, <2>2, StrungDelivered
  <2> QED
    BY <1>2, <1>4, <2>1, <2>3, <2>4
<1>9. CASE TrackingEnds(i)
  <2>1. PICK t : TrackerBecomes(i, t) /\ t.at = "done" /\ t.new = trackers[i].new
    BY <1>9, EndMoves
  <2>2. trackers[i].at = "poll" /\ daemon' = daemon
    BY <1>9 DEF TrackingEnds
  <2>3. trackers[i].new = <<>>
    BY <2>2 DEF StereoFirst
  <2> QED
    BY <1>2, <1>4, <1>6, <2>1, <2>2, <2>3
<1> QED
  BY <1>7, <1>8, <1>9 DEF TrackingLoop

-----------------------------------------------------------------------------
(* What the glasses' daemon does in their first capture                     *)

FirstCapture == (kind = "VITURE" => VitureFirst) /\ (kind = "STEREO" => StereoFirst)

LEMMA FirstTracks ==
  ASSUME GlassesState, GlassesPoints, FirstTake, FirstCapture, BridgeWaits, DaemonSteps, UNCHANGED kind
  PROVE  FirstCapture'
<1> USE DEF GlassesState
<1>1. kind = "VITURE" \/ kind = "STEREO"
  BY DEF Glasses
<1>2. client' = client
  BY DEF BridgeWaits
<1>3. CASE UNCHANGED <<backend, daemon, workers, eyes, trackers>>
  BY <1>1, <1>2, <1>3, FirstTakeKept DEF FirstCapture
<1>4. CASE ServerStep
  <2>1. CASE UNCHANGED <<daemon, eyes, trackers>>
    BY <1>3, <1>4, <2>1, FirstServed
  <2>2. ASSUME Untouched, NEW hardware \in BOOLEAN, GlassesBegin(hardware) PROVE FirstCapture'
    BY <1>2, <1>4, <2>2, FirstServed, VitureBegins, StereoBegins DEF FirstCapture
  <2> QED
    BY <1>4, <2>1, <2>2, FirstServed
<1>5. CASE LoadModel
  BY <1>3, <1>5 DEF LoadModel, threads
<1>6. CASE kind = "VITURE"
  BY <1>4, <1>5, <1>6, VitureWorks, VitureFilms, VitureTracks DEF FirstCapture, DaemonSteps
<1>7. CASE kind = "STEREO"
  <2>1. workers = <<>> /\ eyes = <<>>
    BY <1>7 DEF FirstCapture, StereoFirst
  <2>2. Len(workers) = 0 /\ Len(eyes) = 0
    BY <2>1
  <2> QED
    BY <1>4, <1>5, <1>7, <2>2, StereoTracks DEF FirstCapture, DaemonSteps
<1> QED
  BY <1>1, <1>6, <1>7

\* The poll of the first capture.
LEMMA FirstFetched ==
  ASSUME FirstCapture, NEW b, b = daemon.buffer, client' = client \o b, daemon'.buffer = <<>>, daemon'.voxels = daemon.voxels,
         UNCHANGED <<kind, backend, workers, eyes, trackers>>
  PROVE  FirstCapture'
<1>1. ASSUME kind = "VITURE" PROVE VitureFirst'
  <2>1. Strung(client, b, Held(workers), backend.voxels)
    BY <1>1 DEF FirstCapture, VitureFirst
  <2>2. PICK t : t = client \o b
    OBVIOUS
  <2>3. Strung(t, <<>>, Held(workers), backend.voxels)
    BY <2>1, <2>2, StrungFetched
  <2>4. client' = t /\ Held(workers') = Held(workers)
    BY <2>2 DEF Held
  <2>5. Strung(client', daemon'.buffer, Held(workers'), backend'.voxels)
    BY <2>3, <2>4
  <2> QED
    BY <1>1, <2>4, <2>5 DEF FirstCapture, VitureFirst
<1>2. ASSUME kind = "STEREO" PROVE StereoFirst'
  <2>1. PICK s : Strung(client, b, Held(trackers), s) /\ Once(s) /\ ToSet(s) \subseteq daemon.voxels
    BY <1>2 DEF FirstCapture, StereoFirst
  <2>2. PICK t : t = client \o b
    OBVIOUS
  <2>3. Strung(t, <<>>, Held(trackers), s)
    BY <2>1, <2>2, StrungFetched
  <2>4. client' = t /\ Held(trackers') = Held(trackers)
    BY <2>2 DEF Held
  <2>5. Strung(client', daemon'.buffer, Held(trackers'), s)
    BY <2>3, <2>4
  <2> QED
    BY <1>2, <2>1, <2>5 DEF FirstCapture, StereoFirst
<1> QED
  BY <1>1, <1>2 DEF FirstCapture

\* Everything about the points of the glasses.
GlassesKeep ==
  /\ GlassesPoints
  /\ FirstTake => FirstCapture
  /\ Pulled => due \subseteq ToSet(client)

\* A step of the bridge that leaves the points where they are.
LEMMA GlassesKept ==
  ASSUME GlassesKeep, GlassesPoints', FirstTake' => FirstTake, Pulled' => Pulled, due' = due,
         UNCHANGED <<client, kind, backend, daemon, workers, eyes, trackers>>
  PROVE  GlassesKeep'
<1>1. FirstCapture => FirstCapture'
  BY FirstTakeKept DEF FirstCapture
<1>2. Pulled' => due' \subseteq ToSet(client')
  BY DEF GlassesKeep
<1> QED
  BY <1>1, <1>2 DEF GlassesKeep

LEMMA GlassesKeepStep ==
  ASSUME GlassesState, GlassesKeep, Next
  PROVE  GlassesKeep'
<1> USE DEF GlassesKeep
<1>1. CASE StartCapture
  <2>1. due' \subseteq ToSet(client')
    BY <1>1, GlassesStartCapture
  <2>2. FirstTake' => FirstCapture'
    BY <1>1, GlassesStartCapture, FirstTakeKept DEF FirstCapture
  <2> QED
    BY <1>1, <2>1, <2>2, GlassesStartCapture
<1>2. CASE LingBotUnreachable \/ ABotUnreachable
  BY <1>2 DEF LingBotUnreachable, ABotUnreachable, GlassesState, Glasses
<1>3. CASE GlassesTalk
  <2>1. GlassesPoints' /\ (FirstTake' => FirstTake) /\ (Pulled' => Pulled) /\ due' = due
        /\ UNCHANGED <<client, kind, backend, daemon, workers, eyes, trackers>>
    BY <1>3, GlassesTalkKeeps DEF GlassesTalk, GlassesHands
  <2> QED
    BY <2>1, GlassesKept
<1>4. CASE OnTelemetryTick
  BY <1>3, <1>4, GlassesTick
<1>5. CASE StopCapture
  <2>1. FirstTake' => FirstCapture'
    BY <1>5, GlassesStopCapture, FirstTakeKept DEF FirstCapture
  <2> QED
    BY <1>5, <2>1, GlassesStopCapture
<1>6. CASE FetchNewPoints
  <2>1. PICK b : b = daemon.buffer
    OBVIOUS
  <2>2. /\ client' = client \o b /\ daemon'.buffer = <<>> /\ daemon'.voxels = daemon.voxels
        /\ UNCHANGED <<kind, backend, workers, eyes, trackers>>
    BY <1>6, <2>1, GlassesFetches
  <2>3. FirstCapture => FirstCapture'
    BY <2>1, <2>2, FirstFetched
  <2> QED
    BY <1>6, <2>3, GlassesFetches
<1>7. CASE FetchAllPoints
  BY <1>7, GlassesFetchesAll
<1>8. CASE WaitForModelReady
  BY <1>3, <1>8, GlassesReady
<1>9. CASE Send
  <2>1. CASE ~GlassesTalk
    <3>1. /\ UNCHANGED GlassesHands /\ spent'.starts = spent.starts /\ spent.starts # 0
          /\ Asks("start", VitureStart) /\ Asks("start", VitureStart)' /\ bridge' = bridge
      BY <1>9, <2>1, GlassesSends
    <3>2. GlassesPoints' /\ (FirstTake' => FirstTake) /\ (Pulled' => Pulled)
      BY <3>1, GlassesBeginsTalk
    <3> QED
      BY <3>1, <3>2, GlassesKept DEF GlassesHands
  <2> QED
    BY <1>3, <2>1
<1>10. CASE Receive
  BY <1>3, <1>10, GlassesReceives
<1>11. CASE DaemonSteps /\ BridgeWaits
  <2>1. GlassesPoints' /\ (FirstTake' => FirstTake) /\ (Pulled' => Pulled) /\ due' = due /\ client' = client
    BY <1>11, GlassesServed
  <2>2. FirstTake' => FirstCapture'
    BY <1>11, <2>1, FirstTracks, KindStays
  <2>3. Pulled' => due' \subseteq ToSet(client')
    BY <2>1
  <2> QED
    BY <2>1, <2>2, <2>3
<1> QED
  BY <1>1, <1>2, <1>4, <1>5, <1>6, <1>7, <1>8, <1>9, <1>10, <1>11 DEF Next, DaemonSteps

-----------------------------------------------------------------------------
(* The points of every capture                                              *)

LEMMA PointsOfGlasses ==
  ASSUME Glasses PROVE Points <=> GlassesKeep
BY DEF Points, GlassesKeep, FirstCapture, Glasses

LEMMA PointsInit ==
  ASSUME Init PROVE Points
<1>1. /\ backend.running = FALSE /\ backend.voxels = <<>> /\ backend.served = 0 /\ backend.buffer = <<>>
  BY DEF Init, DaemonInit, Created
<1>2. /\ client = <<>> /\ due = {} /\ bridge = "READY" /\ ui = Resting /\ mark = 0
      /\ workers = <<>> /\ eyes = <<>> /\ trackers = <<>>
  BY DEF Init, DaemonInit
<1>3. ui.op = "idle" /\ ui.todo = <<>>
  BY <1>2, RestingType
<1>4. daemon.buffer = <<>> /\ daemon.voxels = {}
  BY DEF Init, DaemonInit
<1>5. spent.starts = 0
  BY DEF Init, DaemonInit
<1>6. Len(<<>>) = 0 /\ <<>> \in Seq(Place)
  OBVIOUS
<1>7. Strung(<<>>, <<>>, <<>>, <<>>) /\ Once(<<>>)
  BY <1>6, StrungNothing, EmptyOnce
<1>8. ~Unpulled /\ ~Pulled
  BY <1>2, <1>3 DEF Unpulled, Pulled, Asks
<1>9. LingBotPoints
  BY <1>1, <1>2, <1>3, <1>6, <1>7, <1>8 DEF LingBotPoints
<1>10. ABotPoints
  BY <1>1, <1>2, <1>3, <1>6, <1>7, <1>8 DEF ABotPoints
<1>11. GlassesPoints
  BY <1>1, <1>2, <1>3, <1>4, <1>7, <1>8 DEF GlassesPoints, Asks
<1>12. Held(workers) = <<>> /\ Held(trackers) = <<>>
  BY <1>2 DEF Held
<1>13. VitureFirst
  BY <1>1, <1>2, <1>4, <1>6, <1>7, <1>12 DEF VitureFirst
<1>14. ToSet(<<>>) \subseteq daemon.voxels
  <2>1. ToSet(<<>>) = {}
    BY DEF ToSet
  <2> QED
    BY <2>1
<1>15. StereoFirst
  BY <1>2, <1>4, <1>6, <1>7, <1>12, <1>14 DEF StereoFirst
<1> QED
  BY <1>8, <1>9, <1>10, <1>11, <1>13, <1>15 DEF Points

LEMMA PointsStep ==
  ASSUME Control, Points, [Next]_vars
  PROVE  Points'
<1>1. CASE UNCHANGED vars
  <2>1. UNCHANGED <<kind, backend, daemon, workers, eyes, trackers, mark, spent, ui, bridge, client, due>>
    BY <1>1 DEF vars, daemonVars, threads
  <2>2. (Unpulled' <=> Unpulled) /\ (Pulled' <=> Pulled) /\ (Untouched' <=> Untouched) /\ (FirstTake' <=> FirstTake)
    BY <2>1 DEF Unpulled, Pulled, Untouched, FirstTake, Asks
  <2>3. LingBotPoints => LingBotPoints'
    BY <2>1, <2>2 DEF LingBotPoints
  <2>4. ABotPoints => ABotPoints'
    BY <2>1, <2>2 DEF ABotPoints
  <2>5. GlassesPoints => GlassesPoints'
    BY <2>1, <2>2 DEF GlassesPoints, Asks
  <2>6. (VitureFirst => VitureFirst') /\ (StereoFirst => StereoFirst')
    BY <2>1, FirstTakeKept
  <2> QED
    BY <2>1, <2>2, <2>3, <2>4, <2>5, <2>6 DEF Points, Glasses
<1>2. CASE Next
  <2>1. kind' = kind
    BY <1>2, KindStays
  <2>2. CASE Glasses
    <3>1. Glasses'
      BY <2>1, <2>2, SameKind
    <3>2. GlassesKeep'
      BY <1>2, <2>2, PointsOfGlasses, GlassesKeepStep DEF Control, GlassesState
    <3> QED
      BY <3>1, <3>2 DEF Points, GlassesKeep, FirstCapture, Glasses
  <2>3. CASE ~Glasses
    <3>1. CameraState
      BY <2>3 DEF Control, CameraState
    <3>2. kind = "LINGBOT" \/ kind = "ABOT"
      BY <2>3, TypeParts, KindsAssumption DEF Control, Glasses
    <3>3. CASE kind = "LINGBOT"
      <4>1. LingBotPoints' /\ (Pulled' => due' \subseteq ToSet(client'))
        BY <1>2, <3>1, <3>3, LingBotStep DEF Points
      <4> QED
        BY <2>1, <3>3, <4>1 DEF Points, Glasses
    <3>4. CASE kind = "ABOT"
      <4>1. ABotPoints' /\ (Pulled' => due' \subseteq ToSet(client'))
        BY <1>2, <3>1, <3>4, ABotStep DEF Points
      <4> QED
        BY <2>1, <3>4, <4>1 DEF Points, Glasses
    <3> QED
      BY <3>2, <3>3, <3>4
  <2> QED
    BY <2>2, <2>3
<1> QED
  BY <1>1, <1>2

LEMMA PointsAreOnce ==
  ASSUME Control, Points
  PROVE  PointsArriveOnce /\ PullIsWhole
<1>1. ASSUME Glasses => spent.starts = 1 \/ bridge # "CAPTURING"
      PROVE  Once(client)
  <2>1. CASE kind = "LINGBOT"
    <3>1. Stretch(client, backend.voxels, backend.served) /\ Once(backend.voxels)
      BY <2>1, LingBotIs DEF Points
    <3> QED
      BY <3>1, LingBotParts, StretchOnce DEF Control
  <2>2. CASE kind = "ABOT"
    BY <2>2 DEF Points, ABotPoints
  <2>3. CASE Glasses
    <3>1. CASE bridge # "CAPTURING" \/ Pulled
      BY <2>3, <3>1 DEF Points, GlassesPoints
    <3>2. CASE bridge = "CAPTURING" /\ ~Pulled
      <4>1. FirstTake
        BY <1>1, <2>3, <3>2 DEF FirstTake, Pulled
      <4>2. CASE kind = "VITURE"
        BY <4>1, <4>2, StrungOnce DEF Points, VitureFirst
      <4>3. CASE kind = "STEREO"
        BY <4>1, <4>3, StrungOnce DEF Points, StereoFirst
      <4> QED
        BY <2>3, <4>2, <4>3 DEF Glasses
    <3> QED
      BY <3>1, <3>2
  <2> QED
    BY <2>1, <2>2, <2>3, TypeParts, KindsAssumption DEF Control, Glasses
<1>2. DOMAIN client = 1..Len(client)
  BY TypeParts DEF Control
<1>3. PointsArriveOnce
  BY <1>1, <1>2 DEF PointsArriveOnce, IsInjective, Once
<1>4. PullIsWhole
  BY DEF PullIsWhole, Points, Pulled
<1> QED
  BY <1>3, <1>4

\* A voxel reaches the map of a capture once, whichever daemon serves it and
\* whenever the map is polled, the engine finds more and the camera thread or
\* the tracker delivers it; the glasses' first capture and every map that has
\* been pulled whole.
THEOREM PointsOnce == BenchSpec => []PointsArriveOnce
<1>1. BenchInit => Control /\ Points
  BY ControlInit, PointsInit DEF BenchInit
<1>2. Control /\ Points /\ [BenchNext]_benchVars => Control' /\ Points'
  BY ControlStep, PointsStep, BenchNeural
<1>3. Control /\ Points => PointsArriveOnce
  BY PointsAreOnce
<1> QED
  BY <1>1, <1>2, <1>3, PTL DEF BenchSpec

\* What was found of a capture when its stop was asked for is in its map when
\* the stop returns: the stop pulls before it tells the daemon to stop.
THEOREM PullsAreWhole == BenchSpec => []PullIsWhole
<1>1. BenchInit => Control /\ Points
  BY ControlInit, PointsInit DEF BenchInit
<1>2. Control /\ Points /\ [BenchNext]_benchVars => Control' /\ Points'
  BY ControlStep, PointsStep, BenchNeural
<1>3. Control /\ Points => PullIsWhole
  BY PointsAreOnce
<1> QED
  BY <1>1, <1>2, <1>3, PTL DEF BenchSpec
=============================================================================
