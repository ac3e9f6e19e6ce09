---------------------------- MODULE FrameLoopProofs ----------------------------
(***************************************************************************)
(* Proofs about FrameLoop: for any number of devices and of functions that *)
(* wait, what is run finds the device, the queues and the package manager  *)
(* it needs, and every frame that is presented is complete.                *)
(*                                                                         *)
(* Of the queue it only matters which functions are in it and that the     *)
(* first is core's until it has run.                                       *)
(***************************************************************************)
EXTENDS FrameLoop, SequenceTheorems, TLAPS

Waiting == ToSet(queue)

-----------------------------------------------------------------------------
(* What is in a sequence.                                                  *)

\* Append adds one element, behind what there is.
LEMMA AppendHas ==
    ASSUME NEW S, NEW s \in Seq(S), NEW e \in S
    PROVE  /\ Append(s, e) \in Seq(S)
           /\ ToSet(Append(s, e)) = ToSet(s) \cup {e}
           /\ Append(s, e) # <<>>
           /\ s # <<>> => Head(Append(s, e)) = Head(s)
<1>1. Append(s, e) \in Seq(S) /\ Len(Append(s, e)) = Len(s) + 1 /\ Len(s) \in Nat
  OBVIOUS
<1>2. \A n \in 1..Len(s) : Append(s, e)[n] = s[n]
  OBVIOUS
<1>3. Append(s, e)[Len(s) + 1] = e
  OBVIOUS
<1>4. DOMAIN s = 1..Len(s) /\ DOMAIN Append(s, e) = 1..(Len(s) + 1)
  BY <1>1
<1>5. ToSet(Append(s, e)) = ToSet(s) \cup {e}
  <2>1. ASSUME NEW x \in ToSet(Append(s, e))
        PROVE  x \in ToSet(s) \cup {e}
    <3>1. PICK n \in 1..(Len(s) + 1) : Append(s, e)[n] = x
      BY <1>4 DEF ToSet
    <3>2. CASE n = Len(s) + 1
      BY <1>3, <3>1, <3>2
    <3>3. CASE n # Len(s) + 1
      BY <1>1, <1>2, <1>4, <3>1, <3>3 DEF ToSet
    <3> QED
      BY <3>2, <3>3
  <2>2. ASSUME NEW x \in ToSet(s) \cup {e}
        PROVE  x \in ToSet(Append(s, e))
    <3>1. CASE x = e
      BY <1>1, <1>3, <1>4, <3>1 DEF ToSet
    <3>2. CASE x # e
      <4>1. PICK n \in 1..Len(s) : s[n] = x
        BY <1>4, <3>2, <2>2 DEF ToSet
      <4> QED
        BY <1>1, <1>2, <1>4, <4>1 DEF ToSet
    <3> QED
      BY <3>1, <3>2
  <2> QED
    BY <2>1, <2>2
<1>6. Append(s, e) # <<>>
  BY <1>1, EmptySeq
<1>7. s # <<>> => Head(Append(s, e)) = Head(s)
  <2>1. ASSUME s # <<>>
        PROVE  Len(s) # 0
    BY <2>1, EmptySeq
  <2> QED
    BY <1>1, <1>2, <2>1
<1> QED
  BY <1>1, <1>5, <1>6, <1>7

\* The rest of a sequence has all but its first element.
LEMMA TailHas ==
    ASSUME NEW S, NEW s \in Seq(S), s # <<>>
    PROVE  /\ Tail(s) \in Seq(S)
           /\ Head(s) \in S
           /\ ToSet(s) = ToSet(Tail(s)) \cup {Head(s)}
<1>1. Tail(s) \in Seq(S) /\ Len(s) \in Nat \ {0} /\ Len(Tail(s)) = Len(s) - 1
  BY EmptySeq
<1>2. \A n \in 1..(Len(s) - 1) : Tail(s)[n] = s[n + 1]
  BY <1>1
<1>3. Head(s) = s[1] /\ Head(s) \in S
  BY <1>1
<1>4. DOMAIN s = 1..Len(s) /\ DOMAIN Tail(s) = 1..(Len(s) - 1)
  BY <1>1
<1>5. ASSUME NEW x \in ToSet(s)
      PROVE  x \in ToSet(Tail(s)) \cup {Head(s)}
  <2>1. PICK n \in 1..Len(s) : s[n] = x
    BY <1>4 DEF ToSet
  <2>2. CASE n = 1
    BY <1>3, <2>1, <2>2
  <2>3. CASE n # 1
    <3>1. n - 1 \in 1..(Len(s) - 1) /\ Tail(s)[n - 1] = x
      BY <1>1, <1>2, <2>1, <2>3
    <3> QED
      BY <1>4, <3>1 DEF ToSet
  <2> QED
    BY <2>2, <2>3
<1>6. ASSUME NEW x \in ToSet(Tail(s)) \cup {Head(s)}
      PROVE  x \in ToSet(s)
  <2>1. CASE x = Head(s)
    BY <1>1, <1>3, <1>4, <2>1 DEF ToSet
  <2>2. CASE x # Head(s)
    <3>1. PICK n \in 1..(Len(s) - 1) : Tail(s)[n] = x
      BY <1>4, <1>6, <2>2 DEF ToSet
    <3>2. n + 1 \in 1..Len(s) /\ s[n + 1] = x
      BY <1>1, <1>2, <3>1
    <3> QED
      BY <1>4, <3>2 DEF ToSet
  <2> QED
    BY <2>1, <2>2
<1> QED
  BY <1>1, <1>3, <1>5, <1>6

-----------------------------------------------------------------------------
(***************************************************************************)
(* The invariant                                                           *)
(***************************************************************************)
NoSetUp == \A d \in Devices : SetUp(d) \notin Waiting

\* The core's constructor runs before anything else that waits.
StartFirst == packages \/ (queue # <<>> /\ Head(queue) = Start)

\* A device is set up once its function has run, and it is the only one that has one.
SetUpOnce ==
    /\ \A d \in Devices : SetUp(d) \in Waiting => d = device
    /\ device # 0 => SetUp(device) \in Waiting \/ (ui = device /\ manager = device)
    /\ frames \/ (inFrame /\ updated /\ pc = "idle") => NoSetUp

\* Without a device nothing drains the queue, once there was one: the frame that was
\* presented last counts as updated.
NoDevice ==
    device = 0 =>
        /\ ~inFrame /\ manager = 0
        /\ made = 0 => Inject \notin Waiting
        /\ made > 0 => updated /\ pc = "idle"

\* What m_updated says.
UpdatedOnce ==
    /\ pc # "idle" => updated
    /\ device # 0 /\ frames /\ ~inFrame => updated
    /\ inFrame => updates = IF updated THEN 1 ELSE 0

FrameInvariant ==
    /\ TypeOK
    /\ fault = "none"
    /\ StartFirst /\ SetUpOnce /\ NoDevice /\ UpdatedOnce

\* The functions that wait are told apart by what they run.
LEMMA FunctionsDiffer ==
    /\ Start \in Functions /\ Inject \in Functions /\ Text \in Functions /\ Command \in Functions
    /\ Inject # Start /\ Text # Inject /\ Command # Inject /\ Text # Start /\ Command # Start
    /\ \A d \in Devices :
            /\ SetUp(d) \in Functions
            /\ SetUp(d) \notin {Start, Inject, Text, Command}
            /\ \A e \in Devices : SetUp(d) = SetUp(e) => d = e
BY DEF Functions, Start, Inject, Text, Command, SetUp

\* Handlers leave nothing, or one function, and none without an addon manager.
LEMMA LeftIs ==
    ASSUME NEW left \in Left
    PROVE  /\ left \in {<<>>, <<Inject>>, <<Text>>}
           /\ manager = 0 => left = <<>>
BY DEF Left

\* What handlers leave is put behind what waits.
LEMMA LeavesHas ==
    ASSUME NEW s \in Seq(Functions), NEW left \in {<<>>, <<Inject>>, <<Text>>}
    PROVE  /\ s \o left \in Seq(Functions)
           /\ left = <<>> => s \o left = s
           /\ ToSet(s) \subseteq ToSet(s \o left)
           /\ ToSet(s \o left) \subseteq ToSet(s) \cup {Inject, Text}
           /\ s # <<>> => s \o left # <<>> /\ Head(s \o left) = Head(s)
<1>1. CASE left = <<>>
  <2>1. s \o left = s
    BY <1>1
  <2> QED
    BY <2>1
<1>2. ASSUME NEW e \in {Inject, Text}, left = <<e>>
      PROVE  /\ s \o left = Append(s, e)
             /\ left # <<>>
             /\ e \in Functions
  BY <1>2, FunctionsDiffer
<1>3. ASSUME NEW e \in {Inject, Text}, left = <<e>>
      PROVE  /\ s \o left \in Seq(Functions)
             /\ ToSet(s \o left) = ToSet(s) \cup {e}
             /\ s \o left # <<>>
             /\ s # <<>> => Head(s \o left) = Head(s)
  <2>1. s \o left = Append(s, e) /\ e \in Functions
    BY <1>2, <1>3
  <2> QED
    BY <2>1, AppendHas
<1> QED
  BY <1>1, <1>2, <1>3

\* At the start only core's function waits.
LEMMA InitFrame == Init => FrameInvariant
<1> SUFFICES ASSUME Init
             PROVE  FrameInvariant
  OBVIOUS
<1>1. queue \in Seq(Functions) /\ Waiting = {Start} /\ queue # <<>> /\ Head(queue) = Start
  <2>1. queue = <<Start>> /\ Start \in Functions
    BY FunctionsDiffer DEF Init
  <2>2. queue \in Seq(Functions) /\ Len(queue) = 1 /\ queue[1] = Start
    BY <2>1
  <2>3. DOMAIN queue = {1}
    BY <2>2
  <2>4. Waiting = {Start}
    BY <2>2, <2>3 DEF Waiting, ToSet
  <2>5. queue # <<>> /\ Head(queue) = Start
    BY <2>1, <2>2, EmptySeq
  <2> QED
    BY <2>2, <2>4, <2>5
<1>2. TypeOK
  <2>1. /\ debug \in BOOLEAN /\ echo \in BOOLEAN /\ updated \in BOOLEAN /\ inFrame \in BOOLEAN
        /\ packages \in BOOLEAN /\ frames \in BOOLEAN
    BY DEF Init
  <2>2. made \in 0..MaxDevices /\ ui \in 0..made /\ manager \in 0..made /\ device \in 0..made
    BY FrameAssumption DEF Init
  <2>3. pc = "idle" /\ hook = "none" /\ console = "closed" /\ updates = 0 /\ fault = "none"
    BY DEF Init
  <2> QED
    BY <1>1, <2>1, <2>2, <2>3 DEF TypeOK
<1>3. StartFirst /\ SetUpOnce /\ NoDevice /\ UpdatedOnce
  BY <1>1, FunctionsDiffer DEF Init, StartFirst, SetUpOnce, NoSetUp, NoDevice, UpdatedOnce, Devices
<1> QED
  BY <1>2, <1>3 DEF Init, FrameInvariant

\* Handlers append what they leave.
LEMMA LeavesKeep ==
    ASSUME FrameInvariant, NEW left \in Left, queue' = queue \o left
    PROVE  /\ queue' \in Seq(Functions)
           /\ Waiting \subseteq Waiting'
           /\ Waiting' \subseteq Waiting \cup {Inject, Text}
           /\ manager = 0 => queue' = queue
           /\ queue # <<>> => queue' # <<>> /\ Head(queue') = Head(queue)
<1>1. queue \in Seq(Functions)
  BY DEF FrameInvariant, TypeOK
<1>2. left \in {<<>>, <<Inject>>, <<Text>>} /\ (manager = 0 => left = <<>>)
  BY LeftIs
<1> QED
  BY <1>1, <1>2, LeavesHas DEF Waiting

-----------------------------------------------------------------------------
(***************************************************************************)
(* Every step keeps it                                                     *)
(***************************************************************************)
\* The new device waits to be set up, and nothing else does.
LEMMA CreateKeeps ==
    ASSUME FrameInvariant, CreateDevice
    PROVE  FrameInvariant'
<1> USE FrameAssumption
<1>1. /\ device = 0 /\ device' = made + 1 /\ made' = made + 1 /\ made + 1 \in Devices
      /\ queue' = Append(queue, SetUp(made + 1))
  BY DEF CreateDevice, FrameInvariant, TypeOK, Devices
<1>2. /\ queue' \in Seq(Functions)
      /\ Waiting' = Waiting \cup {SetUp(made + 1)}
      /\ queue' # <<>> /\ (queue # <<>> => Head(queue') = Head(queue))
  BY <1>1, AppendHas, FunctionsDiffer DEF FrameInvariant, TypeOK, Waiting
<1>3. TypeOK'
  <2>1. made' \in 0..MaxDevices /\ ui' \in 0..made' /\ manager' \in 0..made' /\ device' \in 0..made'
    BY <1>1 DEF CreateDevice, FrameInvariant, TypeOK, owned, Devices
  <2> QED
    BY <1>2, <2>1 DEF CreateDevice, FrameInvariant, TypeOK, chosen, owned
<1>4. StartFirst'
  BY <1>2 DEF CreateDevice, FrameInvariant, StartFirst, owned
<1>5. SetUpOnce'
  <2>1. \A d \in Devices : SetUp(d) \notin Waiting
    BY <1>1 DEF FrameInvariant, SetUpOnce, Devices
  <2>2. \A d \in Devices : SetUp(d) \in Waiting' => d = device'
    BY <1>1, <1>2, <2>1, FunctionsDiffer
  <2> QED
    BY <1>1, <1>2, <2>2 DEF CreateDevice, SetUpOnce
<1>6. NoDevice' /\ UpdatedOnce'
  BY <1>1 DEF CreateDevice, FrameInvariant, TypeOK, NoDevice, UpdatedOnce
<1> QED
  BY <1>3, <1>4, <1>5, <1>6 DEF CreateDevice, FrameInvariant

\* A frame was presented: nothing waits to be set up, and no frame is left to update.
LEMMA ReleaseKeeps ==
    ASSUME FrameInvariant, ReleaseDevice
    PROVE  FrameInvariant'
<1>1. queue' = queue /\ Waiting' = Waiting
  BY DEF ReleaseDevice, Waiting
<1>2. TypeOK'
  BY <1>1, FrameAssumption DEF ReleaseDevice, FrameInvariant, TypeOK, chosen
<1>3. NoSetUp
  BY DEF ReleaseDevice, FrameInvariant, SetUpOnce
<1>4. SetUpOnce'
  BY <1>1, <1>3 DEF ReleaseDevice, SetUpOnce, NoSetUp, Devices
<1>5. made # 0
  BY DEF ReleaseDevice, FrameInvariant, TypeOK
<1>6. StartFirst' /\ NoDevice' /\ UpdatedOnce'
  BY <1>1, <1>5 DEF ReleaseDevice, Idle, FrameInvariant, StartFirst, NoDevice, UpdatedOnce
<1> QED
  BY <1>2, <1>4, <1>6 DEF ReleaseDevice, FrameInvariant

\* A new frame has not been updated, whatever the one before.
LEMMA BeginKeeps ==
    ASSUME FrameInvariant, BeginScene
    PROVE  FrameInvariant'
<1>1. queue' = queue /\ Waiting' = Waiting
  BY DEF BeginScene, Waiting
<1>2. TypeOK'
  BY <1>1, FrameAssumption DEF BeginScene, FrameInvariant, TypeOK, chosen, owned
<1>3. SetUpOnce'
  BY <1>1 DEF BeginScene, FrameInvariant, SetUpOnce, NoSetUp, Devices, owned
<1>4. StartFirst' /\ NoDevice' /\ UpdatedOnce'
  BY <1>1 DEF BeginScene, Idle, FrameInvariant, StartFirst, NoDevice, UpdatedOnce, owned
<1> QED
  BY <1>2, <1>3, <1>4 DEF BeginScene, FrameInvariant

\* update is entered once in a frame; a hook that comes again finds m_updated set.
LEMMA UpdateKeeps ==
    ASSUME FrameInvariant, NEW h \in Hooks, Update(h)
    PROVE  FrameInvariant'
<1>1. queue' = queue /\ Waiting' = Waiting
  BY DEF Update, Waiting
<1>2. TypeOK'
  <2>1. CASE updated /\ Leave(h) /\ UNCHANGED <<updated, updates>>
    BY <1>1, <2>1 DEF Update, Leave, FrameInvariant, TypeOK, chosen, owned
  <2>2. CASE /\ ~updated /\ updated' = TRUE /\ updates' = updates + 1
             /\ pc' = "coroutines" /\ hook' = h /\ UNCHANGED <<inFrame, frames>>
    BY <1>1, <2>2 DEF Update, Hooks, FrameInvariant, TypeOK, chosen, owned
  <2> QED
    BY <2>1, <2>2 DEF Update
<1>3. h = "present" => device # 0 /\ inFrame
  BY DEF Update, Calls
<1>4. SetUpOnce'
  <2>1. CASE updated /\ Leave(h)
    BY <1>1, <1>3, <2>1 DEF Update, Leave, Idle, FrameInvariant, SetUpOnce, NoSetUp, Devices, owned
  <2>2. CASE ~updated /\ pc' = "coroutines" /\ frames' = frames
    BY <1>1, <2>2 DEF Update, FrameInvariant, SetUpOnce, NoSetUp, Devices, owned
  <2> QED
    BY <2>1, <2>2 DEF Update
<1>5. NoDevice'
  <2>1. CASE updated /\ Leave(h)
    BY <1>1, <2>1 DEF Update, Leave, Idle, FrameInvariant, NoDevice, owned
  <2>2. CASE ~updated /\ inFrame' = inFrame
    BY <1>1, <2>2 DEF Update, FrameInvariant, NoDevice, owned
  <2> QED
    BY <2>1, <2>2 DEF Update
<1>6. UpdatedOnce'
  <2>1. CASE updated /\ Leave(h) /\ UNCHANGED <<updated, updates>>
    BY <2>1 DEF Update, Leave, Idle, FrameInvariant, UpdatedOnce
  <2>2. CASE ~updated /\ updated' = TRUE /\ updates' = updates + 1 /\ UNCHANGED inFrame
    BY <2>2 DEF Update, FrameInvariant, UpdatedOnce
  <2> QED
    BY <2>1, <2>2 DEF Update
<1>7. StartFirst'
  BY <1>1 DEF Update, FrameInvariant, StartFirst, owned
<1> QED
  BY <1>2, <1>4, <1>5, <1>6, <1>7 DEF Update, FrameInvariant

\* Nothing about a device changes when only other functions come and go.
LEMMA OthersKeep ==
    ASSUME FrameInvariant,
           UNCHANGED <<ui, manager, device, made, inFrame, frames, updated, updates>>,
           Waiting' \subseteq Waiting \cup {Inject, Text, Command},
           Waiting \subseteq Waiting' \cup {Start, Inject, Text, Command},
           pc' = "idle" => pc = "idle", pc' # "idle" => pc # "idle"
    PROVE  SetUpOnce' /\ UpdatedOnce'
<1>1. \A d \in Devices : SetUp(d) \in Waiting' <=> SetUp(d) \in Waiting
  BY FunctionsDiffer
<1>2. device # 0 => device \in Devices
  BY FrameAssumption DEF FrameInvariant, TypeOK, Devices
<1>3. SetUpOnce'
  <2>1. \A d \in Devices : SetUp(d) \in Waiting' => d = device'
    BY <1>1 DEF FrameInvariant, SetUpOnce
  <2>2. device' # 0 => SetUp(device') \in Waiting' \/ (ui' = device' /\ manager' = device')
    BY <1>1, <1>2 DEF FrameInvariant, SetUpOnce
  <2>3. frames' \/ (inFrame' /\ updated' /\ pc' = "idle") => NoSetUp'
    BY <1>1 DEF FrameInvariant, SetUpOnce, NoSetUp, Devices
  <2> QED
    BY <2>1, <2>2, <2>3 DEF SetUpOnce, Devices
<1> QED
  BY <1>3 DEF FrameInvariant, UpdatedOnce

\* What Lua code leaves behind needs an addon manager, and so a device.
LEMMA CoroutinesKeep ==
    ASSUME FrameInvariant, RunCoroutines \/ RunHandlers
    PROVE  FrameInvariant'
<1>1. PICK left \in Left : queue' = queue \o left
  BY DEF RunCoroutines, RunHandlers
<1>2. /\ queue' \in Seq(Functions)
      /\ Waiting \subseteq Waiting' /\ Waiting' \subseteq Waiting \cup {Inject, Text}
      /\ manager = 0 => queue' = queue
      /\ queue # <<>> => queue' # <<>> /\ Head(queue') = Head(queue)
  BY <1>1, LeavesKeep
<1>3. /\ UNCHANGED <<debug, echo, updated, packages, ui, manager, device, made, inFrame,
                     hook, console, updates, frames, fault>>
      /\ (pc = "coroutines" /\ pc' = "drain") \/ (pc = "idle" /\ pc' = "idle")
  BY DEF RunCoroutines, RunHandlers, Idle, chosen, owned
<1>4. TypeOK'
  BY <1>2, <1>3 DEF FrameInvariant, TypeOK
<1>5. SetUpOnce' /\ UpdatedOnce'
  BY <1>2, <1>3, OthersKeep
<1>6. StartFirst'
  BY <1>2, <1>3 DEF FrameInvariant, StartFirst
<1>7. NoDevice'
  BY <1>2, <1>3 DEF FrameInvariant, NoDevice, Waiting
<1> QED
  BY <1>3, <1>4, <1>5, <1>6, <1>7 DEF FrameInvariant

\* A line of the console waits behind everything else.
LEMMA ReadLineKeeps ==
    ASSUME FrameInvariant, ReadLine
    PROVE  FrameInvariant'
<1>1. /\ queue' \in Seq(Functions)
      /\ Waiting' = Waiting \cup {Command}
      /\ queue' # <<>> /\ (queue # <<>> => Head(queue') = Head(queue))
  BY AppendHas, FunctionsDiffer DEF ReadLine, FrameInvariant, TypeOK, Waiting
<1>2. TypeOK'
  BY <1>1 DEF ReadLine, FrameInvariant, TypeOK, chosen, owned
<1>3. SetUpOnce' /\ UpdatedOnce'
  BY <1>1, OthersKeep DEF ReadLine, owned
<1>4. StartFirst'
  BY <1>1 DEF ReadLine, FrameInvariant, StartFirst, owned
<1>5. NoDevice'
  BY <1>1, FunctionsDiffer DEF ReadLine, FrameInvariant, NoDevice, owned
<1> QED
  BY <1>2, <1>3, <1>4, <1>5 DEF ReadLine, FrameInvariant

\* What a function that is popped was, and what is left: pc is "drain", and so there
\* is a device or there has never been one.
LEMMA PoppedIs ==
    ASSUME FrameInvariant, NEW function, Popped(function)
    PROVE  /\ Rest \in Seq(Functions)
           /\ Waiting = ToSet(Rest) \cup {function}
           /\ function # Start => packages
           /\ device = 0 => made = 0 /\ function # Inject
           /\ UNCHANGED <<debug, echo, updated, device, made, inFrame, pc, hook, updates, frames>>
           /\ pc = "drain"
<1>1. queue \in Seq(Functions) /\ queue # <<>> /\ Head(queue) = function /\ pc = "drain"
  BY DEF Popped, FrameInvariant, TypeOK
<1>2. Rest \in Seq(Functions) /\ Waiting = ToSet(Rest) \cup {function}
  BY <1>1, TailHas DEF Rest, Waiting
<1>3. function # Start => packages
  BY <1>1 DEF FrameInvariant, StartFirst
<1>4. device = 0 => made = 0 /\ function # Inject
  BY <1>1, <1>2 DEF FrameInvariant, TypeOK, NoDevice
<1> QED
  BY <1>1, <1>2, <1>3, <1>4 DEF Popped, chosen

\* What is asked of a function of the queue that sets up no device.
LEMMA OtherFunctionsKeep ==
    ASSUME FrameInvariant, NEW function \in {Start, Inject, Text, Command}, Popped(function),
           queue' \in Seq(Functions),
           Waiting' \subseteq ToSet(Rest) \cup {Inject, Text},
           ToSet(Rest) \subseteq Waiting',
           device = 0 => Waiting' \subseteq Waiting,
           UNCHANGED <<ui, manager, fault>>,
           packages' = (packages \/ function = Start),
           console' \in {"closed", "reading", "waiting"}
    PROVE  FrameInvariant'
<1>1. /\ Waiting = ToSet(Rest) \cup {function}
      /\ function # Start => packages
      /\ device = 0 => made = 0
      /\ UNCHANGED <<debug, echo, updated, device, made, inFrame, pc, hook, updates, frames>>
  BY PoppedIs
<1>2. TypeOK'
  <2>1. packages' \in BOOLEAN
    BY DEF FrameInvariant, TypeOK
  <2> QED
    BY <1>1, <2>1 DEF FrameInvariant, TypeOK
<1>3. SetUpOnce' /\ UpdatedOnce'
  BY <1>1, OthersKeep
<1>4. StartFirst'
  BY <1>1 DEF StartFirst
<1>5. NoDevice'
  BY <1>1 DEF FrameInvariant, NoDevice, TypeOK
<1> QED
  BY <1>2, <1>3, <1>4, <1>5 DEF FrameInvariant

\* core's own function makes the package manager.
LEMMA StartKeeps ==
    ASSUME FrameInvariant, RunStart
    PROVE  FrameInvariant'
<1>1. Popped(Start) /\ queue' = Rest /\ UNCHANGED <<ui, manager, fault>> /\ packages'
  BY DEF RunStart
<1>2. Rest \in Seq(Functions) /\ Waiting = ToSet(Rest) \cup {Start} /\ Waiting' = ToSet(Rest)
  BY <1>1, PoppedIs DEF Waiting
<1>3. packages' = (packages \/ Start = Start)
  BY DEF RunStart
<1>4. console' \in {"closed", "reading", "waiting"}
  BY DEF RunStart, FrameInvariant, TypeOK
<1> QED
  BY <1>1, <1>2, <1>3, <1>4, OtherFunctionsKeep

\* There is a device, for there was one when the function was left.
LEMMA InjectKeeps ==
    ASSUME FrameInvariant, RunInject
    PROVE  FrameInvariant'
<1>1. Popped(Inject) /\ queue' = Rest /\ UNCHANGED <<packages, ui, manager, console>>
  BY DEF RunInject, owned
<1>2. /\ Rest \in Seq(Functions) /\ Waiting = ToSet(Rest) \cup {Inject} /\ Waiting' = ToSet(Rest)
      /\ device # 0 /\ packages
  BY <1>1, PoppedIs, FunctionsDiffer DEF Waiting
<1>3. fault' = fault
  BY <1>2 DEF RunInject, FrameInvariant
<1>4. packages' = (packages \/ Inject = Start) /\ console' \in {"closed", "reading", "waiting"}
  BY <1>1, FunctionsDiffer DEF FrameInvariant, TypeOK
<1> QED
  BY <1>1, <1>2, <1>3, <1>4, OtherFunctionsKeep

\* Text may be answered with text, and nothing else.
LEMMA TextKeeps ==
    ASSUME FrameInvariant, RunText
    PROVE  FrameInvariant'
<1>1. Popped(Text) /\ UNCHANGED <<packages, ui, manager, console, fault>>
  BY DEF RunText, owned
<1>2. Rest \in Seq(Functions) /\ Waiting = ToSet(Rest) \cup {Text} /\ packages
  BY <1>1, PoppedIs, FunctionsDiffer
<1>3. /\ queue' \in Seq(Functions)
      /\ Waiting' \subseteq ToSet(Rest) \cup {Inject, Text}
      /\ ToSet(Rest) \subseteq Waiting'
      /\ device = 0 => Waiting' \subseteq Waiting
  <2>1. CASE queue' = Rest
    BY <1>2, <2>1 DEF Waiting
  <2>2. CASE queue' = Append(Rest, Text)
    BY <1>2, <2>2, AppendHas, FunctionsDiffer DEF Waiting
  <2> QED
    BY <2>1, <2>2 DEF RunText
<1>4. packages' = (packages \/ Text = Start) /\ console' \in {"closed", "reading", "waiting"}
  BY <1>1, FunctionsDiffer DEF FrameInvariant, TypeOK
<1> QED
  BY <1>1, <1>3, <1>4, OtherFunctionsKeep

\* A command may leave what any Lua code may.
LEMMA CommandKeeps ==
    ASSUME FrameInvariant, RunCommand
    PROVE  FrameInvariant'
<1>1. Popped(Command) /\ UNCHANGED <<packages, ui, manager, fault>> /\ console' = "reading"
  BY DEF RunCommand, owned
<1>2. Rest \in Seq(Functions) /\ Waiting = ToSet(Rest) \cup {Command} /\ packages
  BY <1>1, PoppedIs, FunctionsDiffer
<1>3. PICK left \in Left : queue' = Rest \o left
  BY DEF RunCommand
<1>4. /\ left \in {<<>>, <<Inject>>, <<Text>>}
      /\ manager = 0 => left = <<>>
  BY LeftIs
<1>5. /\ queue' \in Seq(Functions)
      /\ Waiting' \subseteq ToSet(Rest) \cup {Inject, Text}
      /\ ToSet(Rest) \subseteq Waiting'
      /\ left = <<>> => queue' = Rest
  BY <1>2, <1>3, <1>4, LeavesHas DEF Waiting
<1>6. device = 0 => Waiting' \subseteq Waiting
  BY <1>2, <1>4, <1>5 DEF FrameInvariant, NoDevice, Waiting
<1>7. packages' = (packages \/ Command = Start) /\ console' \in {"closed", "reading", "waiting"}
  BY <1>1, <1>2 DEF FrameInvariant, TypeOK
<1> QED
  BY <1>1, <1>5, <1>6, <1>7, OtherFunctionsKeep

\* The device to set up is the one there is, and the package manager has been made.
LEMMA SetUpKeeps ==
    ASSUME FrameInvariant, NEW d \in Devices, RunSetUp(d)
    PROVE  FrameInvariant'
<1>1. /\ Popped(SetUp(d)) /\ ui' = d /\ manager' = d /\ UNCHANGED <<packages, console>>
      /\ fault' = CASE d # device -> "device" [] ~packages -> "packages" [] OTHER -> "none"
  BY DEF RunSetUp
<1>2. /\ Rest \in Seq(Functions) /\ Waiting = ToSet(Rest) \cup {SetUp(d)} /\ packages
      /\ pc = "drain"
      /\ UNCHANGED <<debug, echo, updated, device, made, inFrame, pc, hook, updates, frames>>
  BY <1>1, PoppedIs, FunctionsDiffer
<1>3. d = device /\ device # 0 /\ d \in 0..made /\ ~frames
  BY <1>2, FrameAssumption DEF FrameInvariant, TypeOK, SetUpOnce, NoSetUp, Devices
<1>4. fault' = "none"
  BY <1>1, <1>2, <1>3
<1>5. PICK left \in {<<>>, <<Inject>>, <<Text>>} : queue' = Rest \o left
  BY DEF RunSetUp
<1>6. /\ queue' \in Seq(Functions)
      /\ Waiting' \subseteq ToSet(Rest) \cup {Inject, Text}
  BY <1>2, <1>5, LeavesHas DEF Waiting
<1>7. TypeOK'
  BY <1>1, <1>2, <1>3, <1>4, <1>6 DEF FrameInvariant, TypeOK
<1>8. SetUpOnce'
  <2>1. \A e \in Devices : SetUp(e) \in Waiting' => e = device'
    BY <1>2, <1>6, FunctionsDiffer DEF FrameInvariant, SetUpOnce
  <2> QED
    BY <1>1, <1>2, <1>3, <2>1 DEF SetUpOnce, Devices
<1>9. StartFirst' /\ NoDevice' /\ UpdatedOnce'
  BY <1>1, <1>2, <1>3 DEF FrameInvariant, StartFirst, NoDevice, UpdatedOnce
<1> QED
  BY <1>4, <1>7, <1>8, <1>9 DEF FrameInvariant

\* Nothing waits any more: the device there is has been set up.
LEMMA EndKeeps ==
    ASSUME FrameInvariant, EndUpdate
    PROVE  FrameInvariant'
<1>1. /\ queue' = queue /\ queue = <<>> /\ Waiting' = {} /\ Waiting = {}
      /\ pc = "drain" /\ pc' = "idle" /\ hook' = "none"
      /\ inFrame' = (inFrame /\ hook # "present")
      /\ frames' = (frames \/ hook = "present")
      /\ UNCHANGED <<debug, echo, updated, packages, ui, manager, device, made,
                     console, updates, fault>>
  BY DEF EndUpdate, Leave, Waiting, ToSet, chosen, owned
<1>2. updated
  BY <1>1 DEF FrameInvariant, UpdatedOnce
<1>3. TypeOK'
  <2>1. inFrame' \in BOOLEAN /\ frames' \in BOOLEAN
    BY <1>1
  <2> QED
    BY <1>1, <2>1 DEF FrameInvariant, TypeOK
<1>4. StartFirst'
  BY <1>1 DEF FrameInvariant, StartFirst
<1>5. SetUpOnce'
  BY <1>1 DEF FrameInvariant, SetUpOnce, NoSetUp
<1>6. NoDevice' /\ UpdatedOnce'
  BY <1>1, <1>2 DEF FrameInvariant, NoDevice, UpdatedOnce
<1> QED
  BY <1>1, <1>3, <1>4, <1>5, <1>6 DEF FrameInvariant

\* Every step of the game, the hooks and the console keeps the invariant.
LEMMA NextFrame == FrameInvariant /\ [Next]_vars => FrameInvariant'
<1> SUFFICES ASSUME FrameInvariant, [Next]_vars
             PROVE  FrameInvariant'
  OBVIOUS
<1>1. CASE CreateDevice
  BY <1>1, CreateKeeps
<1>2. CASE ReleaseDevice
  BY <1>2, ReleaseKeeps
<1>3. CASE BeginScene
  BY <1>3, BeginKeeps
<1>4. CASE \E h \in Hooks : Update(h)
  BY <1>4, UpdateKeeps
<1>5. CASE RunCoroutines \/ RunHandlers
  BY <1>5, CoroutinesKeep
<1>6. CASE Drain
  BY <1>6, StartKeeps, InjectKeeps, TextKeeps, CommandKeeps, SetUpKeeps DEF Drain
<1>7. CASE EndUpdate
  BY <1>7, EndKeeps
<1>8. CASE ReadLine
  BY <1>8, ReadLineKeeps
<1>9. CASE UNCHANGED vars
  BY <1>9 DEF vars, chosen, owned, FrameInvariant, TypeOK, StartFirst, SetUpOnce, NoSetUp,
              NoDevice, UpdatedOnce, Waiting, Devices
<1> QED
  BY <1>1, <1>2, <1>3, <1>4, <1>5, <1>6, <1>7, <1>8, <1>9 DEF Next

-----------------------------------------------------------------------------
(***************************************************************************)
(* The theorems                                                            *)
(***************************************************************************)
\* What is known of the queue, the device and m_updated between any two steps.
THEOREM FrameInvariantHolds == Spec => []FrameInvariant
<1> QED
  BY InitFrame, NextFrame, PTL DEF Spec

\* The variables keep their types, for any number of devices and waiting functions.
THEOREM TypeOKHolds == Spec => []TypeOK
<1>1. FrameInvariant => TypeOK
  BY DEF FrameInvariant
<1> QED
  BY <1>1, FrameInvariantHolds, PTL

\* A function that core::update pops from the queue finds the device, the packet
\* queues and the package manager it uses, whatever device it was left by.
THEOREM FindsWhatItNeedsHolds == Spec => []FindsWhatItNeeds
<1>1. FrameInvariant => FindsWhatItNeeds
  BY DEF FrameInvariant, FindsWhatItNeeds
<1> QED
  BY <1>1, FrameInvariantHolds, PTL

\* A frame is presented after core::update has run in it once, with the interface
\* and the addon manager made for the device it is drawn on.
THEOREM FrameCompleteHolds == Spec => FrameComplete
<1>1. ASSUME FrameInvariant, [Next]_vars, inFrame, ~inFrame'
      PROVE  updates' = 1 /\ ui' = device /\ manager' = device
  <2>1. device # 0 /\ device \in Devices
    BY <1>1, FrameAssumption DEF FrameInvariant, NoDevice, TypeOK, Devices
  <2>2. NoSetUp => ui = device /\ manager = device
    BY <1>1, <2>1 DEF FrameInvariant, SetUpOnce, NoSetUp
  <2>3. ASSUME NEW h \in Hooks, Update(h)
        PROVE  updates' = 1 /\ ui' = device /\ manager' = device
    <3>1. updated /\ pc = "idle" /\ UNCHANGED <<updates, ui, manager>>
      BY <1>1, <2>3 DEF Update, Idle, owned
    <3>2. NoSetUp /\ updates = 1
      BY <1>1, <3>1 DEF FrameInvariant, SetUpOnce, UpdatedOnce
    <3> QED
      BY <2>2, <3>1, <3>2
  <2>4. ASSUME EndUpdate
        PROVE  updates' = 1 /\ ui' = device /\ manager' = device
    <3>1. Waiting = {} /\ pc = "drain" /\ UNCHANGED <<updates, ui, manager>>
      BY <2>4 DEF EndUpdate, Waiting, ToSet, owned
    <3>2. NoSetUp /\ updates = 1
      BY <1>1, <3>1 DEF FrameInvariant, NoSetUp, UpdatedOnce
    <3> QED
      BY <2>2, <3>1, <3>2
  <2> QED
    BY <1>1, <2>1, <2>3, <2>4
       DEF Next, CreateDevice, ReleaseDevice, BeginScene, RunCoroutines, RunHandlers, Drain,
           RunStart, RunInject, RunText, RunCommand, RunSetUp, Popped, ReadLine, vars
<1>2. FrameInvariant /\ [Next]_vars =>
        [inFrame /\ ~inFrame' => updates' = 1 /\ ui' = device /\ manager' = device]_vars
  BY <1>1
<1> QED
  BY <1>2, FrameInvariantHolds, PTL DEF Spec, FrameComplete
================================================================================
