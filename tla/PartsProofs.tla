----------------------------- MODULE PartsProofs ----------------------------
(*****************************************************************************)
(* Proofs about the datagram channel, the breakpoints and the coroutines,    *)
(* for every value of their constants.                                       *)
(*                                                                           *)
(* DatagramInv says what has been accepted in terms of the window that the   *)
(* server keeps (WindowAgrees), and that nothing of a later key has been     *)
(* accepted: a datagram that Seen lets pass has then never been opened       *)
(* before.                                                                   *)
(*                                                                           *)
(* BreakpointInv says of the modules that are gone, too, that their records  *)
(* and the entries of the host belong together (EntriesOf), that ids and     *)
(* numbers are given once (RecordsOf), and that the record of a step is not  *)
(* enabled (StepsOf): an entry taken out for a record is then its own and no *)
(* other's, and the record of a step goes without the host's list.           *)
(*                                                                           *)
(* CoroutineInv says which record holds a suspended frame in terms of the    *)
(* records (CoroutineHolders) and not by counting them, and that everything  *)
(* is answered from the shutdown on (CoroutineAnswers): a continuation that  *)
(* Dispatch takes then belongs to a record that still holds its frame.       *)
(*****************************************************************************)
EXTENDS MCParts, VectorTheorems

-----------------------------------------------------------------------------
(* The datagram channel                                                      *)

\* The size of a set, as Datagram takes it.
LEMMA DatagramCardinality == \A S : Datagram!Cardinality(S) = Cardinality(S)
  BY Zenon DEF Datagram!Cardinality, Cardinality

DatagramTypes ==
    /\ sendKey \in Nat /\ sendCount \in Nat /\ address \in Addresses
    /\ receiveKey \in Nat /\ receiveCount \in Nat
    /\ received \subseteq 0..(Window - 1)
    /\ wire \subseteq [key : Nat, sequence : Nat, from : Addresses]
    /\ accepted \subseteq Nat \X Nat

DatagramKeys ==
    /\ \A k, s \in Nat : <<k, s>> \in accepted => k <= receiveKey
    /\ received = {} => receiveCount = 0

DatagramCounts == IsFiniteSet(accepted) /\ opened = Cardinality(accepted)

DatagramInv ==
    /\ DatagramTypes
    /\ DatagramKeys
    /\ Datagram!WindowAgrees
    /\ DatagramCounts
    /\ Datagram!AddressIsNewest

\* There is a window.
LEMMA DatagramWindow == Window \in Nat \ {0}
  BY PartsAssumption DEF Datagram!DatagramAssumption

\* Nothing has been received of the first key.
LEMMA DatagramInitially == Datagram!Init => DatagramInv
<1>. SUFFICES ASSUME Datagram!Init PROVE DatagramInv
  OBVIOUS
<1>1. DatagramTypes /\ DatagramKeys /\ Datagram!WindowAgrees /\ Datagram!AddressIsNewest
  BY DEF Datagram!Init, DatagramTypes, DatagramKeys, Datagram!WindowAgrees,
     Datagram!AddressIsNewest
<1>2. DatagramCounts
  BY FS_EmptySet DEF Datagram!Init, DatagramCounts
<1>. QED
  BY <1>1, <1>2 DEF DatagramInv

\* The steps that change only the client and the wire.
LEMMA DatagramServerStays ==
    ASSUME DatagramInv, UNCHANGED Datagram!serverVars, DatagramTypes'
    PROVE  DatagramInv'
<1>1. DatagramKeys' /\ Datagram!WindowAgrees' /\ Datagram!AddressIsNewest'
  BY DEF DatagramInv, DatagramKeys, Datagram!WindowAgrees, Datagram!AddressIsNewest,
     Datagram!serverVars
<1>2. DatagramCounts'
  BY DEF DatagramInv, DatagramCounts, Datagram!serverVars
<1>. QED
  BY <1>1, <1>2 DEF DatagramInv

\* The client seals and sends a datagram.
LEMMA DatagramSend == ASSUME DatagramInv, Datagram!Send PROVE DatagramInv'
<1>1. DatagramTypes'
  BY DEF DatagramInv, DatagramTypes, Datagram!Send, Datagram!serverVars
<1>. QED
  BY <1>1, DatagramServerStays DEF Datagram!Send

\* The address of the client changes on the way.
LEMMA DatagramRemap == ASSUME DatagramInv, Datagram!Remap PROVE DatagramInv'
<1>1. DatagramTypes'
  BY DEF DatagramInv, DatagramTypes, Datagram!Remap, Datagram!serverVars
<1>. QED
  BY <1>1, DatagramServerStays DEF Datagram!Remap

\* The client learns the key of its new connection.
LEMMA DatagramWelcome == ASSUME DatagramInv, Datagram!Welcome PROVE DatagramInv'
<1>1. DatagramTypes'
  BY DEF DatagramInv, DatagramTypes, Datagram!Welcome, Datagram!serverVars
<1>. QED
  BY <1>1, DatagramServerStays DEF Datagram!Welcome

\* A new key has seen nothing, and nothing of it was accepted.
LEMMA DatagramReconnect == ASSUME DatagramInv, Datagram!Reconnect PROVE DatagramInv'
<1>1. DatagramTypes'
  BY DEF DatagramInv, DatagramTypes, Datagram!Reconnect, Datagram!clientVars
<1>2. DatagramKeys'
  BY DEF DatagramInv, DatagramTypes, DatagramKeys, Datagram!Reconnect
<1>3. Datagram!WindowAgrees'
  <2>1. \A s \in Nat : <<receiveKey', s>> \notin accepted'
    BY DEF DatagramInv, DatagramTypes, DatagramKeys, Datagram!Reconnect
  <2>. QED
    BY <2>1 DEF Datagram!Reconnect, Datagram!WindowAgrees
<1>4. DatagramCounts' /\ Datagram!AddressIsNewest'
  BY DEF DatagramInv, DatagramCounts, Datagram!AddressIsNewest, Datagram!Reconnect
<1>. QED
  BY <1>1, <1>2, <1>3, <1>4 DEF DatagramInv

\* What Open does, with the sequence of its datagram.
LEMMA DatagramOpen ==
    ASSUME DatagramInv, NEW d \in wire, Datagram!Open(d)
    PROVE  DatagramInv'
<1>. DEFINE s == d.sequence
<1>1. s \in Nat /\ d.key = receiveKey /\ receiveKey \in Nat /\ receiveCount \in Nat
  BY DEF DatagramInv, DatagramTypes, Datagram!Open
<1>2. /\ UNCHANGED <<receiveKey, sendKey, sendCount, address, wire>>
      /\ accepted' = accepted \union {<<receiveKey, s>>}
      /\ opened' = opened + 1
  BY <1>1 DEF Datagram!Open, Datagram!clientVars
<1>3. /\ received # {} => 0 \in received
      /\ \A r \in Nat : <<receiveKey, r>> \in accepted => received # {} /\ r <= receiveCount
      /\ received # {} => \A b \in 0..(Window - 1) :
            b \in received <=> b <= receiveCount /\ <<receiveKey, receiveCount - b>> \in accepted
  BY Zenon DEF DatagramInv, Datagram!WindowAgrees
<1>4. /\ received = {} => receiveCount = 0
      /\ received \subseteq 0..(Window - 1)
  BY DEF DatagramInv, DatagramTypes, DatagramKeys
<1>5. received # {} /\ s <= receiveCount =>
         receiveCount - s < Window /\ receiveCount - s \notin received
  BY <1>1, DatagramWindow DEF Datagram!Open, Datagram!Seen
<1>6. <<receiveKey, s>> \notin accepted
  <2>1. SUFFICES ASSUME <<receiveKey, s>> \in accepted PROVE FALSE
    OBVIOUS
  <2>2. received # {} /\ s <= receiveCount
    BY <1>1, <1>3, <2>1
  <2>3. receiveCount - s \in 0..(Window - 1) /\ receiveCount - s <= receiveCount
        /\ receiveCount - (receiveCount - s) = s
    BY <1>1, <1>5, <2>2, DatagramWindow
  <2>. QED
    BY <1>3, <1>5, <2>1, <2>2, <2>3
<1>7. CASE Datagram!Ahead(s)
  <2>1. received = {} \/ s > receiveCount
    BY <1>7 DEF Datagram!Ahead
  <2>2. receiveCount <= s /\ receiveCount' = s
    BY <1>1, <1>4, <1>7, <2>1 DEF Datagram!Open
  <2>3. received' = {0} \union {b + (s - receiveCount) :
                                   b \in {x \in received : x + (s - receiveCount) < Window}}
    BY <1>7 DEF Datagram!Open, Datagram!Shifted
  <2>4. PICK D \in Nat : D = s - receiveCount /\ s = receiveCount + D
                         /\ (received # {} => D > 0)
    BY <1>1, <2>1, <2>2
  <2>5. \A c \in 0..(Window - 1) :
           c \in received' <=> c = 0 \/ (c - D \in received /\ c >= D)
    BY <1>4, <2>3, <2>4, DatagramWindow
  <2>6. received' \subseteq 0..(Window - 1) /\ 0 \in received'
    BY <1>4, <2>3, <2>4, DatagramWindow
  <2>7. DatagramTypes'
    BY <1>1, <1>2, <2>2, <2>6 DEF DatagramInv, DatagramTypes
  <2>8. DatagramKeys'
    BY <1>1, <1>2, <2>6 DEF DatagramInv, DatagramKeys
  <2>9. \A r \in Nat : <<receiveKey', r>> \in accepted' => r <= receiveCount'
    BY <1>1, <1>2, <1>3, <2>2
  <2>10. ASSUME NEW c \in 0..(Window - 1)
         PROVE  c \in received' <=> /\ c <= receiveCount'
                                    /\ <<receiveKey', receiveCount' - c>> \in accepted'
    <3>1. c \in Nat
      BY <2>10, DatagramWindow
    <3>2. <<receiveKey', receiveCount' - c>> \in accepted' <=>
             c = 0 \/ <<receiveKey, s - c>> \in accepted
      BY <1>1, <1>2, <2>2, <3>1
    <3>3. CASE c = 0
      BY <1>1, <2>2, <2>6, <3>2, <3>3
    <3>4. CASE c # 0 /\ c < D
      <4>1. s - c \in Nat /\ s - c > receiveCount
        BY <1>1, <2>4, <3>1, <3>4
      <4>2. <<receiveKey, s - c>> \notin accepted
        BY <1>1, <1>3, <4>1
      <4>. QED
        BY <2>5, <3>1, <3>2, <3>4, <4>2
    <3>5. CASE c # 0 /\ c >= D
      <4>1. PICK e \in Nat : e = c - D /\ e \in 0..(Window - 1)
        BY <2>4, <3>1, <3>5, DatagramWindow
      <4>5. c = e + D
        <5>1. c \in Nat /\ D \in Nat /\ e = c - D
          BY <3>1, <4>1
        <5>. QED
          BY <5>1
      <4>2. s - c = receiveCount - e /\ (c <= s <=> e <= receiveCount)
        <5>1. s \in Nat /\ receiveCount \in Nat /\ s = receiveCount + D /\ c \in Nat
          BY <1>1, <2>4, <3>1
        <5>. HIDE DEF s
        <5>. QED
          BY <4>5, <5>1
      <4>3. CASE received = {}
        <5>1. c <= s => s - c \in Nat
          BY <1>1, <3>1
        <5>2. c <= s => <<receiveKey, s - c>> \notin accepted
          BY <1>3, <4>3, <5>1
        <5>. QED
          BY <2>2, <2>5, <3>2, <3>5, <4>3, <5>2
      <4>4. CASE received # {}
        <5>1. e \in received <=> e <= receiveCount /\ <<receiveKey, receiveCount - e>> \in accepted
          BY <1>3, <4>1, <4>4
        <5>. QED
          BY <2>2, <2>5, <3>2, <3>5, <4>1, <4>2, <5>1
      <4>. QED
        BY <4>3, <4>4
    <3>. QED
      BY <2>4, <3>1, <3>3, <3>4, <3>5
  <2>11. Datagram!WindowAgrees'
    <3>1. received' # {}
      BY <2>6
    <3>. QED
      BY <2>6, <2>9, <2>10, <3>1 DEF Datagram!WindowAgrees
  <2>12. \A r \in {a[2] : a \in {x \in accepted : x[1] = receiveKey}} : r < s
    <3>1. SUFFICES ASSUME NEW a \in accepted, a[1] = receiveKey PROVE a[2] < s
      OBVIOUS
    <3>2. a = <<receiveKey, a[2]>> /\ a[2] \in Nat
      BY <3>1 DEF DatagramInv, DatagramTypes
    <3>3. received # {} /\ a[2] <= receiveCount
      BY <1>3, <3>1, <3>2
    <3>. QED
      BY <1>1, <2>1, <3>2, <3>3
  <2>13. Datagram!AddressIsNewest'
    BY <2>2, <2>12 DEF Datagram!Open, Datagram!AddressIsNewest
  <2>. QED
    <3>1. DatagramCounts'
      BY <1>2, <1>6, FS_AddElement, FS_CardinalityType DEF DatagramInv, DatagramCounts
    <3>. QED
      BY <2>7, <2>8, <2>11, <2>13, <3>1 DEF DatagramInv
<1>8. CASE ~Datagram!Ahead(s)
  <2>1. received # {} /\ s <= receiveCount
    BY <1>1, <1>8 DEF Datagram!Ahead
  <2>2. receiveCount' = receiveCount /\ received' = received \union {receiveCount - s}
    BY <1>8 DEF Datagram!Open
  <2>3. PICK b \in Nat : b = receiveCount - s /\ s = receiveCount - b /\ b \in 0..(Window - 1)
                         /\ b <= receiveCount /\ b \notin received
    BY <1>1, <1>5, <2>1, DatagramWindow
  <2>4. b # 0 /\ s < receiveCount
    BY <1>1, <1>3, <2>1, <2>3
  <2>5. DatagramTypes'
    <3>1. received' \subseteq 0..(Window - 1)
      BY <2>2, <2>3 DEF DatagramInv, DatagramTypes
    <3>2. accepted' \subseteq Nat \X Nat
      BY <1>1, <1>2 DEF DatagramInv, DatagramTypes
    <3>. QED
      BY <1>1, <1>2, <2>2, <3>1, <3>2 DEF DatagramInv, DatagramTypes
  <2>6. DatagramKeys'
    BY <1>1, <1>2, <2>1, <2>2 DEF DatagramInv, DatagramKeys
  <2>7. Datagram!WindowAgrees'
    <3>1. \A r \in Nat : <<receiveKey', r>> \in accepted' => r <= receiveCount'
      BY <1>1, <1>2, <1>3, <2>1, <2>2
    <3>2. ASSUME NEW c \in 0..(Window - 1)
          PROVE  c \in received' <=> /\ c <= receiveCount'
                                     /\ <<receiveKey', receiveCount' - c>> \in accepted'
      <4>1. c \in received <=> c <= receiveCount /\ <<receiveKey, receiveCount - c>> \in accepted
        BY <1>3, <2>1, <3>2
      <4>2. receiveCount - c = s <=> c = b
        BY <1>1, <2>3, <3>2, DatagramWindow
      <4>. QED
        BY <1>2, <2>2, <2>3, <4>1, <4>2
    <3>3. 0 \in received' /\ received' # {}
      BY <1>3, <2>1, <2>2
    <3>. QED
      BY <3>1, <3>2, <3>3 DEF Datagram!WindowAgrees
  <2>8. Datagram!AddressIsNewest'
    <3>1. <<receiveKey, receiveCount>> \in accepted
      <4>1. 0 \in 0..(Window - 1) /\ receiveCount - 0 = receiveCount
        BY <1>1, DatagramWindow
      <4>. QED
        BY <1>3, <2>1, <4>1
    <3>2. ~(\A r \in {a[2] : a \in {x \in accepted : x[1] = receiveKey}} : r < s)
      <4>1. receiveCount \in {a[2] : a \in {x \in accepted : x[1] = receiveKey}}
        BY <3>1
      <4>2. ~(receiveCount < s)
        BY <1>1, <2>4
      <4>. QED
        BY <4>1, <4>2
    <3>3. udpAddress' = udpAddress /\ newest' = newest
      BY <1>1, <2>2, <2>4, <3>2 DEF Datagram!Open
    <3>. QED
      BY <3>3 DEF DatagramInv, Datagram!AddressIsNewest
  <2>. QED
    <3>1. DatagramCounts'
      BY <1>2, <1>6, FS_AddElement, FS_CardinalityType DEF DatagramInv, DatagramCounts
    <3>. QED
      BY <2>5, <2>6, <2>7, <2>8, <3>1 DEF DatagramInv
<1>. QED
  BY <1>7, <1>8

\* Steps of the other parts.
LEMMA DatagramStutters == ASSUME DatagramInv, UNCHANGED datagramVars PROVE DatagramInv'
<1>1. DatagramTypes'
  BY DEF DatagramInv, DatagramTypes, datagramVars
<1>2. UNCHANGED Datagram!serverVars
  BY DEF datagramVars, Datagram!serverVars
<1>. QED
  BY <1>1, <1>2, DatagramServerStays

\* The inductive invariant says all that DatagramsSound does.
LEMMA DatagramInvIsSound == ASSUME DatagramInv PROVE Datagram!DatagramsSound
<1>1. opened \in Nat /\ Datagram!OpenedOnce
  BY FS_CardinalityType, DatagramCardinality DEF DatagramInv, DatagramCounts,
     Datagram!OpenedOnce
<1>2. Datagram!TypeOK
  BY <1>1 DEF DatagramInv, DatagramTypes, Datagram!TypeOK
<1>3. ASSUME NEW d \in wire, d.key = receiveKey, Datagram!Seen(d.sequence)
      PROVE  <<d.key, d.sequence>> \in accepted \/ d.sequence + Window <= receiveCount
  <2>1. PICK s \in Nat : s = d.sequence
    BY DEF DatagramInv, DatagramTypes
  <2>2. receiveCount \in Nat /\ received \subseteq 0..(Window - 1)
    BY DEF DatagramInv, DatagramTypes
  <2>3. received # {} /\ s <= receiveCount
        /\ (receiveCount - s >= Window \/ receiveCount - s \in received)
    BY <1>3, <2>1 DEF Datagram!Seen
  <2>4. CASE receiveCount - s >= Window
    BY <2>1, <2>2, <2>3, <2>4, DatagramWindow
  <2>5. CASE receiveCount - s \in received
    <3>1. receiveCount - s \in 0..(Window - 1) /\ receiveCount - (receiveCount - s) = s
      BY <2>1, <2>2, <2>5
    <3>2. <<receiveKey, receiveCount - (receiveCount - s)>> \in accepted
      BY <2>3, <2>5, <3>1, Zenon DEF DatagramInv, Datagram!WindowAgrees
    <3>. QED
      BY <1>3, <2>1, <3>1, <3>2
  <2>. QED
    BY <2>3, <2>4, <2>5
<1>4. Datagram!RefusesOnlyTheOld
  BY <1>3 DEF Datagram!RefusesOnlyTheOld
<1>. QED
  BY <1>1, <1>2, <1>4 DEF DatagramInv, Datagram!DatagramsSound

\* Every step of the channel keeps the invariant.
LEMMA DatagramStep == ASSUME DatagramInv, Datagram!Next PROVE DatagramInv'
  BY DatagramSend, DatagramRemap, DatagramReconnect, DatagramWelcome, DatagramOpen
  DEF Datagram!Next

\* However datagrams are lost, repeated and reordered, and whatever key and address they come
\* with: each is opened once, the window marks exactly those of its reach that were, and the
\* address is that of the newest (Open of datagram.cpp).
THEOREM DatagramsAreSound == Spec => []DatagramsSound
<1>1. Init => DatagramInv
  BY DatagramInitially DEF Init
<1>2. DatagramInv /\ [Next]_vars => DatagramInv'
  <2>1. ASSUME DatagramInv, DatagramNext PROVE DatagramInv'
    BY <2>1, DatagramStep DEF DatagramNext
  <2>2. ASSUME DatagramInv, Next, ~DatagramNext PROVE UNCHANGED datagramVars
    BY <2>2 DEF Next, TexturesNext, BreakpointsNext, PatchesNext, CoroutineNext, TimersNext,
       ListenersNext, LibcHeapNext, StdioNext, PacketsNext, GraphNext
  <2>. QED
    BY <2>1, <2>2, DatagramStutters DEF vars
<1>3. DatagramInv => DatagramsSound
  BY DatagramInvIsSound DEF DatagramsSound
<1>. QED
  BY <1>1, <1>2, <1>3, PTL DEF Spec


-----------------------------------------------------------------------------
(* Breakpoints                                                               *)

\* The size of a set and the elements of a list at some indices, as Breakpoints takes them.
LEMMA BreakpointCardinality == \A S : Breakpoints!Cardinality(S) = Cardinality(S)
  BY Zenon DEF Breakpoints!Cardinality, Cardinality

LEMMA BreakpointNth == \A K, i : Breakpoints!Nth(K, i) = Nth(K, i)
  BY BreakpointCardinality, Zenon DEF Breakpoints!Nth, Nth

LEMMA BreakpointPicked == \A s, K : Breakpoints!Picked(s, K) = Picked(s, K)
  BY BreakpointCardinality, BreakpointNth, Zenon DEF Breakpoints!Picked, Picked

BreakpointEntries ==
    [id : 1..MaxBreakpoint, owner : Modules, handler : 1..MaxToken, processor : Processors]

Listed == {breakpoints[i] : i \in DOMAIN breakpoints}

BreakpointTypes ==
    /\ breakpoints \in Seq(BreakpointEntries) /\ nextBreakpoint \in 0..MaxBreakpoint
    /\ stepOwner \in Modules \union {None} /\ (stepOwner # None => stepProcessor \in Processors)
    /\ nextToken \in [Modules -> 1..(MaxToken + 1)] /\ stepToken \in [Modules -> 0..MaxToken]
    /\ adapter = [list |-> breakpoints, step |-> IF stepOwner # None THEN stepProcessor ELSE None]

BreakpointPhases ==
    /\ phase \in {"run", "handler", "held"} /\ held \in BOOLEAN /\ (held => phase = "held")
    /\ gone \in [Modules -> BOOLEAN] /\ released \in [Modules -> BOOLEAN]

\* Every module numbers its records, and enables each under an id of its own: next are
\* their next numbers, latest is the last id.
RecordsOf(r, next, latest) ==
    /\ r = [m \in Modules |-> r[m]]
    /\ \A m \in Modules : r[m] = [t \in DOMAIN r[m] |-> r[m][t]]
    /\ \A m \in Modules : \A t \in DOMAIN r[m] :
          /\ t \in 1..MaxToken /\ t < next[m]
          /\ r[m][t] \in [processor : Processors, id : 0..MaxBreakpoint] /\ r[m][t].id <= latest
    /\ \A m \in Modules : \A t, u \in DOMAIN r[m] :
          r[m][t].id = r[m][u].id => t = u \/ r[m][t].id = 0

\* The entries of a list are those of the enabled records.
EntriesOf(r, list) ==
    /\ list \subseteq BreakpointEntries
    /\ \A e \in list : /\ e.handler \in DOMAIN r[e.owner]
                       /\ r[e.owner][e.handler].id = e.id
                       /\ r[e.owner][e.handler].processor = e.processor
    /\ \A m \in Modules : \A t \in DOMAIN r[m] :
          r[m][t].id # 0 => Breakpoints!Entry(m, t, r[m][t].id, r[m][t].processor) \in list

\* The record of a step is not enabled.
StepsOf(r, tokens) ==
    \A m \in Modules : tokens[m] # 0 =>
        tokens[m] \in DOMAIN r[m] /\ r[m][tokens[m]].id = 0

\* The host's step is its owner's latest.
BreakpointSteps ==
    \A m \in Modules : stepOwner = m => stepToken[m] # 0 /\ stepHandler = stepToken[m]

BreakpointReleases ==
    \A m \in Modules : released[m] =>
        gone[m] /\ stepOwner # m /\ (\A e \in Listed : e.owner # m)

BreakpointInv ==
    /\ BreakpointTypes /\ BreakpointPhases
    /\ RecordsOf(records, nextToken, nextBreakpoint)
    /\ EntriesOf(records, Listed)
    /\ StepsOf(records, stepToken)
    /\ BreakpointSteps /\ BreakpointReleases

\* What the constants are.
LEMMA BreakpointConstants ==
    /\ MaxToken \in Nat /\ MaxBreakpoint \in Nat /\ None \notin Modules /\ None \notin Processors
  BY PartsAssumption DEF Breakpoints!BreakpointAssumption

\* Nothing is listed and no module has a record.
LEMMA BreakpointInitially == Breakpoints!Init => BreakpointInv
<1>. SUFFICES ASSUME Breakpoints!Init PROVE BreakpointInv
  OBVIOUS
<1>0. BreakpointPhases
  BY DEF Breakpoints!Init, BreakpointPhases
<1>1. BreakpointTypes
  <2>1. breakpoints \in Seq(BreakpointEntries) /\ nextBreakpoint \in 0..MaxBreakpoint
    BY BreakpointConstants DEF Breakpoints!Init
  <2>2. /\ nextToken \in [Modules -> 1..(MaxToken + 1)]
        /\ stepToken \in [Modules -> 0..MaxToken]
    BY BreakpointConstants DEF Breakpoints!Init
  <2>3. /\ stepOwner = None
        /\ adapter = [list |-> breakpoints, step |-> None]
    BY DEF Breakpoints!Init
  <2>. QED
    BY <2>1, <2>2, <2>3 DEF BreakpointTypes
<1>2. Listed = {} /\ \A m \in Modules : DOMAIN records[m] = {} /\ records[m] = <<>>
  BY DEF Breakpoints!Init, Listed
<1>3. RecordsOf(records, nextToken, nextBreakpoint)
  <2>1. records = [m \in Modules |-> records[m]]
    BY DEF Breakpoints!Init
  <2>2. \A m \in Modules : records[m] = [t \in DOMAIN records[m] |-> records[m][t]]
    BY <1>2
  <2>. QED
    BY <1>2, <2>1, <2>2 DEF RecordsOf
<1>4. EntriesOf(records, Listed)
  BY <1>2 DEF EntriesOf
<1>5. StepsOf(records, stepToken) /\ BreakpointSteps /\ BreakpointReleases
  BY <1>2, BreakpointConstants
  DEF Breakpoints!Init, StepsOf, BreakpointSteps, BreakpointReleases
<1>. QED
  BY <1>0, <1>1, <1>3, <1>4, <1>5 DEF BreakpointInv

\* What is left when the entries of one id and owner are taken out.
LEMMA BreakpointRemoved ==
    ASSUME BreakpointTypes, NEW m, NEW id
    PROVE  /\ Breakpoints!Removed(m, id) \in Seq(BreakpointEntries)
           /\ {Breakpoints!Removed(m, id)[i] : i \in DOMAIN Breakpoints!Removed(m, id)}
                 = {e \in Listed : ~(e.id = id /\ e.owner = m)}
<1>. DEFINE K == {i \in 1..Len(breakpoints) : ~(breakpoints[i].id = id /\ breakpoints[i].owner = m)}
<1>1. breakpoints \in Seq(BreakpointEntries) /\ K \in SUBSET (1..Len(breakpoints))
  BY DEF BreakpointTypes
<1>2. Breakpoints!Removed(m, id) = Picked(breakpoints, K)
  BY BreakpointPicked DEF Breakpoints!Removed, Breakpoints!Filter
<1>. HIDE DEF K
<1>3. PICK p \in Seq(BreakpointEntries) :
         p = Picked(breakpoints, K) /\ {p[i] : i \in 1..Len(p)} = {breakpoints[k] : k \in K}
  <2>1. Picked(breakpoints, K) \in Seq(BreakpointEntries)
    BY <1>1, PickedOf
  <2>2. {Picked(breakpoints, K)[i] : i \in 1..Len(Picked(breakpoints, K))} = {breakpoints[k] : k \in K}
    BY <1>1, PickedRange, Zenon
  <2>. QED
    BY <2>1, <2>2
<1>5. DOMAIN p = 1..Len(p)
  OBVIOUS
<1>4. {breakpoints[k] : k \in K} = {e \in Listed : ~(e.id = id /\ e.owner = m)}
  BY <1>1 DEF Listed, K
<1>6. {p[i] : i \in DOMAIN p} = {e \in Listed : ~(e.id = id /\ e.owner = m)}
  BY <1>3, <1>4, <1>5
<1>7. p = Breakpoints!Removed(m, id)
  BY <1>2, <1>3
<1>8. p \in Seq(BreakpointEntries)
  OBVIOUS
<1>. QED
  BY <1>6, <1>7, <1>8

\* What is left when the entries of an owner are taken out.
EntriesOfOthers(m) == Breakpoints!Filter(breakpoints, LAMBDA e : e.owner # m)

\* Those of the others are.
LEMMA BreakpointsOfOthers ==
    ASSUME BreakpointTypes, NEW m
    PROVE  /\ EntriesOfOthers(m) \in Seq(BreakpointEntries)
           /\ {EntriesOfOthers(m)[i] : i \in DOMAIN EntriesOfOthers(m)}
                 = {e \in Listed : e.owner # m}
<1>. DEFINE K == {i \in 1..Len(breakpoints) : breakpoints[i].owner # m}
<1>1. breakpoints \in Seq(BreakpointEntries) /\ K \in SUBSET (1..Len(breakpoints))
  BY DEF BreakpointTypes
<1>2. EntriesOfOthers(m) = Picked(breakpoints, K)
  BY BreakpointPicked DEF Breakpoints!Filter, EntriesOfOthers
<1>. HIDE DEF K
<1>3. PICK p \in Seq(BreakpointEntries) :
         p = Picked(breakpoints, K) /\ {p[i] : i \in 1..Len(p)} = {breakpoints[k] : k \in K}
  <2>1. Picked(breakpoints, K) \in Seq(BreakpointEntries)
    BY <1>1, PickedOf
  <2>2. {Picked(breakpoints, K)[i] : i \in 1..Len(Picked(breakpoints, K))} = {breakpoints[k] : k \in K}
    BY <1>1, PickedRange, Zenon
  <2>. QED
    BY <2>1, <2>2
<1>5. DOMAIN p = 1..Len(p)
  OBVIOUS
<1>4. {breakpoints[k] : k \in K} = {e \in Listed : e.owner # m}
  BY <1>1 DEF Listed, K
<1>6. {p[i] : i \in DOMAIN p} = {e \in Listed : e.owner # m}
  BY <1>3, <1>4, <1>5
<1>7. p = EntriesOfOthers(m)
  BY <1>2, <1>3
<1>8. p \in Seq(BreakpointEntries)
  OBVIOUS
<1>. QED
  BY <1>6, <1>7, <1>8

\* A list with one entry more.
LEMMA BreakpointAdded ==
    ASSUME BreakpointTypes, NEW e \in BreakpointEntries
    PROVE  /\ Append(breakpoints, e) \in Seq(BreakpointEntries)
           /\ {Append(breakpoints, e)[i] : i \in DOMAIN Append(breakpoints, e)} = Listed \union {e}
<1>1. PICK n \in Nat : n = Len(breakpoints) /\ DOMAIN breakpoints = 1..n
  BY DEF BreakpointTypes
<1>2. PICK t : t = Append(breakpoints, e)
  OBVIOUS
<1>3. /\ t \in Seq(BreakpointEntries) /\ DOMAIN t = 1..(n + 1)
      /\ (\A i \in 1..n : t[i] = breakpoints[i]) /\ t[n + 1] = e
  BY <1>1, <1>2 DEF BreakpointTypes
<1>4. \A i \in 1..(n + 1) : i \in 1..n \/ i = n + 1
  OBVIOUS
<1>5. {t[i] : i \in 1..(n + 1)} = {breakpoints[i] : i \in 1..n} \union {e}
  BY <1>3, <1>4
<1>. QED
  BY <1>1, <1>2, <1>3, <1>5 DEF Listed

-----------------------------------------------------------------------------
(* Records that come and go                                                  *)

\* Module m gets a record of the next number, which is not enabled.
CreatesRecord(r, next, latest, m, p, q) ==
    /\ m \in Modules /\ p \in Processors /\ RecordsOf(r, next, latest) /\ latest \in Nat
    /\ next \in [Modules -> 1..(MaxToken + 1)] /\ next[m] <= MaxToken
    /\ q = [r EXCEPT ![m] = [t \in DOMAIN @ \union {next[m]} |->
                IF t = next[m] THEN [processor |-> p, id |-> 0] ELSE @[t]]]

\* A list without the entry of an id of m.
EntriesBut(list, id, m) == {e \in list : ~(e.id = id /\ e.owner = m)}

\* The records q are the records r with one more, k of m.
HasOneMore(r, q, m, k) ==
    /\ DOMAIN q[m] = DOMAIN r[m] \union {k} /\ k \notin DOMAIN r[m] /\ q[m][k].id = 0
    /\ \A t \in DOMAIN r[m] : q[m][t] = r[m][t]
    /\ \A n \in Modules \ {m} : q[n] = r[n]

\* With one less.
HasOneLess(r, q, m, k) ==
    /\ DOMAIN q[m] = DOMAIN r[m] \ {k}
    /\ \A t \in DOMAIN r[m] \ {k} : q[m][t] = r[m][t]
    /\ \A n \in Modules \ {m} : q[n] = r[n]

\* With another id of one.
DiffersAt(r, q, m, k) ==
    /\ \A n \in Modules : DOMAIN q[n] = DOMAIN r[n]
    /\ q[m][k].processor = r[m][k].processor
    /\ \A t \in DOMAIN r[m] \ {k} : q[m][t] = r[m][t]
    /\ \A n \in Modules \ {m} : q[n] = r[n]

\* A new record keeps the numbers apart.
LEMMA RecordCreated ==
    ASSUME NEW r, NEW next, NEW latest, NEW m, NEW p, NEW q, CreatesRecord(r, next, latest, m, p, q)
    PROVE  /\ RecordsOf(q, [next EXCEPT ![m] = next[m] + 1], latest)
           /\ HasOneMore(r, q, m, next[m])
<1>. USE DEF CreatesRecord
<1>1. PICK k \in 1..MaxToken : k = next[m] /\ k \notin DOMAIN r[m]
  BY BreakpointConstants DEF RecordsOf
<1>2. PICK D : D = DOMAIN r[m]
  OBVIOUS
<1>0. PICK rec : rec = [processor |-> p, id |-> 0]
  OBVIOUS
<1>3. rec.id = 0 /\ rec \in [processor : Processors, id : 0..MaxBreakpoint]
  BY <1>0, BreakpointConstants
<1>4. PICK new : new = [t \in D \union {k} |-> IF t = k THEN rec ELSE r[m][t]]
  OBVIOUS
<1>5. q = [r EXCEPT ![m] = new]
  BY <1>0, <1>1, <1>2, <1>4
<1>6. /\ DOMAIN new = D \union {k} /\ new[k] = rec /\ \A t \in D : new[t] = r[m][t]
  BY <1>1, <1>2, <1>4
<1>7. /\ q = [n \in Modules |-> IF n = m THEN new ELSE r[n]]
      /\ q[m] = new /\ \A n \in Modules \ {m} : q[n] = r[n]
  BY <1>5 DEF RecordsOf
<1>8. RecordsOf(q, [next EXCEPT ![m] = k + 1], latest)
  <2>. DEFINE next2 == [next EXCEPT ![m] = k + 1]
  <2>1. q = [n \in Modules |-> q[n]]
    BY <1>7
  <2>2. new = [t \in DOMAIN new |-> new[t]]
    BY <1>4
  <2>3. \A n \in Modules : q[n] = [t \in DOMAIN q[n] |-> q[n][t]]
    BY <1>7, <2>2 DEF RecordsOf
  <2>4. next2[m] = k + 1 /\ \A n \in Modules \ {m} : next2[n] = next[n]
    OBVIOUS
  <2>. HIDE DEF next2
  <2>5. ASSUME NEW n \in Modules, NEW t \in DOMAIN q[n]
        PROVE  /\ t \in 1..MaxToken /\ t < next2[n]
               /\ q[n][t] \in [processor : Processors, id : 0..MaxBreakpoint] /\ q[n][t].id <= latest
    <3>1. CASE n = m /\ t = k
      <4>. QED
        BY <1>1, <1>3, <1>6, <1>7, <2>4, <3>1
    <3>2. CASE n = m /\ t # k
      <4>1. t \in D /\ q[n][t] = r[m][t] /\ t \in DOMAIN r[m]
        BY <1>2, <1>6, <1>7, <2>5, <3>2
      <4>. QED
        BY <1>1, <2>4, <3>2, <4>1 DEF RecordsOf
    <3>3. CASE n # m
      BY <1>7, <2>4, <2>5, <3>3 DEF RecordsOf
    <3>. QED
      BY <3>1, <3>2, <3>3
  <2>6. ASSUME NEW n \in Modules, NEW t \in DOMAIN q[n], NEW u \in DOMAIN q[n],
               q[n][t].id = q[n][u].id
        PROVE  t = u \/ q[n][t].id = 0
    <3>1. CASE n # m
      BY <1>7, <2>6, <3>1 DEF RecordsOf
    <3>2. CASE n = m
      BY <1>2, <1>3, <1>6, <1>7, <2>6, <3>2 DEF RecordsOf
    <3>. QED
      BY <3>1, <3>2
  <2>7. RecordsOf(q, next2, latest)
    BY <2>1, <2>3, <2>5, <2>6 DEF RecordsOf
  <2>. QED
    BY <2>7 DEF next2
<1>9. RecordsOf(q, [next EXCEPT ![m] = next[m] + 1], latest)
  BY <1>1, <1>8, Zenon
<1>10. /\ DOMAIN q[m] = DOMAIN r[m] \union {next[m]} /\ next[m] \notin DOMAIN r[m]
       /\ q[m][next[m]].id = 0
       /\ \A t \in DOMAIN r[m] : q[m][t] = r[m][t]
  BY <1>1, <1>2, <1>3, <1>6, <1>7
<1>. QED
  BY <1>7, <1>9, <1>10 DEF HasOneMore

\* The entries are those of the enabled records still.
LEMMA CreatedIsNotListed ==
    ASSUME NEW r, NEW q, NEW list, NEW m, NEW k, EntriesOf(r, list), HasOneMore(r, q, m, k)
    PROVE  EntriesOf(q, list)
<1>. USE DEF HasOneMore
<1>1. ASSUME NEW e \in list
      PROVE  /\ e.handler \in DOMAIN q[e.owner]
             /\ q[e.owner][e.handler].id = e.id
             /\ q[e.owner][e.handler].processor = e.processor
  <2>1. e.owner \in Modules
    BY DEF EntriesOf, BreakpointEntries
  <2>2. CASE e.owner = m
    BY <2>2 DEF EntriesOf
  <2>3. CASE e.owner # m
    BY <2>1, <2>3 DEF EntriesOf
  <2>. QED
    BY <2>2, <2>3
<1>2. ASSUME NEW n \in Modules, NEW t \in DOMAIN q[n], q[n][t].id # 0
      PROVE  Breakpoints!Entry(n, t, q[n][t].id, q[n][t].processor) \in list
  <2>1. t \in DOMAIN r[n] /\ q[n][t] = r[n][t]
    BY <1>2
  <2>. QED
    BY <1>2, <2>1 DEF EntriesOf
<1>. QED
  BY <1>1, <1>2 DEF EntriesOf

\* A module gives a record away, if it has it.
LEMMA RecordDestroyed ==
    ASSUME NEW r, NEW next, NEW latest, NEW m \in Modules, NEW k, RecordsOf(r, next, latest),
           NEW q, q = [r EXCEPT ![m] = Breakpoints!Without(@, k)]
    PROVE  /\ RecordsOf(q, next, latest)
           /\ HasOneLess(r, q, m, k)
<1>1. PICK D : D = DOMAIN r[m] \ {k}
  OBVIOUS
<1>2. PICK new : new = [t \in D |-> r[m][t]]
  OBVIOUS
<1>3. /\ q = [n \in Modules |-> IF n = m THEN new ELSE r[n]]
      /\ q[m] = new /\ \A n \in Modules \ {m} : q[n] = r[n]
  BY <1>1, <1>2 DEF RecordsOf, Breakpoints!Without
<1>4. DOMAIN q[m] = D /\ \A t \in D : q[m][t] = r[m][t]
  BY <1>2, <1>3
<1>5. RecordsOf(q, next, latest)
  <2>1. q = [n \in Modules |-> q[n]]
    BY <1>3
  <2>2. new = [t \in DOMAIN new |-> new[t]]
    BY <1>2
  <2>3. \A n \in Modules : q[n] = [t \in DOMAIN q[n] |-> q[n][t]]
    BY <1>3, <2>2 DEF RecordsOf
  <2>4. \A n \in Modules : \A t \in DOMAIN q[n] : t \in DOMAIN r[n] /\ q[n][t] = r[n][t]
    BY <1>1, <1>3, <1>4
  <2>5. ASSUME NEW n \in Modules, NEW t \in DOMAIN q[n]
        PROVE  /\ t \in 1..MaxToken /\ t < next[n]
               /\ q[n][t] \in [processor : Processors, id : 0..MaxBreakpoint] /\ q[n][t].id <= latest
    BY <2>4 DEF RecordsOf
  <2>6. ASSUME NEW n \in Modules, NEW t \in DOMAIN q[n], NEW u \in DOMAIN q[n],
               q[n][t].id = q[n][u].id
        PROVE  t = u \/ q[n][t].id = 0
    <3>1. t \in DOMAIN r[n] /\ u \in DOMAIN r[n] /\ q[n][t] = r[n][t] /\ q[n][u] = r[n][u]
      BY <2>4
    <3>. QED
      BY <2>6, <3>1 DEF RecordsOf
  <2>. QED
    BY <2>1, <2>3, <2>5, <2>6 DEF RecordsOf
<1>. QED
  BY <1>1, <1>3, <1>4, <1>5 DEF HasOneLess

\* The entries are those of the enabled records when its own is taken out.
LEMMA DestroyedIsNotListed ==
    ASSUME NEW r, NEW q, NEW list, NEW next, NEW latest, NEW m \in Modules, NEW k \in DOMAIN r[m],
           EntriesOf(r, list), RecordsOf(r, next, latest), HasOneLess(r, q, m, k)
    PROVE  EntriesOf(q, EntriesBut(list, r[m][k].id, m))
<1>. USE DEF HasOneLess, EntriesBut
<1>3. \A t, u \in DOMAIN r[m] : r[m][t].id = r[m][u].id => t = u \/ r[m][t].id = 0
  BY DEF RecordsOf
<1>. DEFINE left == {e \in list : ~(e.id = r[m][k].id /\ e.owner = m)}
<1>0. left \subseteq BreakpointEntries
  BY DEF EntriesOf
<1>1. ASSUME NEW e \in left
      PROVE  /\ e.handler \in DOMAIN q[e.owner]
             /\ q[e.owner][e.handler].id = e.id
             /\ q[e.owner][e.handler].processor = e.processor
  <2>1. e.owner \in Modules
    BY DEF EntriesOf, BreakpointEntries
  <2>2. CASE e.owner = m
    <3>1. e.handler # k
      BY <2>2 DEF EntriesOf
    <3>. QED
      BY <2>2, <3>1 DEF EntriesOf
  <2>3. CASE e.owner # m
    BY <2>1, <2>3 DEF EntriesOf
  <2>. QED
    BY <2>2, <2>3
<1>2. ASSUME NEW n \in Modules, NEW t \in DOMAIN q[n], q[n][t].id # 0
      PROVE  Breakpoints!Entry(n, t, q[n][t].id, q[n][t].processor) \in left
  <2>1. t \in DOMAIN r[n] /\ q[n][t] = r[n][t] /\ (n = m => t # k)
    BY <1>2
  <2>2. PICK e : e = Breakpoints!Entry(n, t, q[n][t].id, q[n][t].processor)
    OBVIOUS
  <2>3. e \in list /\ e.id = r[n][t].id /\ e.owner = n
    BY <1>2, <2>1, <2>2 DEF EntriesOf, Breakpoints!Entry
  <2>4. ~(e.id = r[m][k].id /\ e.owner = m)
    BY <1>2, <1>3, <2>1, <2>3
  <2>. QED
    BY <2>2, <2>3, <2>4
<1>. QED
  BY <1>0, <1>1, <1>2 DEF EntriesOf

\* A record that is not enabled has no entry to take out.
LEMMA NoEntryOfNone ==
    ASSUME NEW list, list \subseteq BreakpointEntries, NEW m
    PROVE  EntriesBut(list, 0, m) = list
  BY BreakpointConstants DEF BreakpointEntries, EntriesBut

\* A record gets another id: a new one, or none.
Renumbers(r, next, latest, m, k, x, up, q) ==
    /\ RecordsOf(r, next, latest) /\ m \in Modules /\ k \in DOMAIN r[m]
    /\ latest \in Nat /\ up \in Nat /\ x \in 0..MaxBreakpoint
    /\ latest <= up /\ x <= up /\ (x = 0 \/ x > latest)
    /\ q = [r EXCEPT ![m][k].id = x]

\* The ids stay apart.
LEMMA RecordRenumbered ==
    ASSUME NEW r, NEW next, NEW latest, NEW m, NEW k, NEW x, NEW up, NEW q,
           Renumbers(r, next, latest, m, k, x, up, q)
    PROVE  RecordsOf(q, next, up) /\ DiffersAt(r, q, m, k) /\ q[m][k].id = x
<1>. USE DEF Renumbers
<1>1. PICK old : old = r[m][k]
  OBVIOUS
<1>2. old \in [processor : Processors, id : 0..MaxBreakpoint]
  BY <1>1 DEF RecordsOf
<1>3. PICK rec : rec = [old EXCEPT !.id = x]
  OBVIOUS
<1>4. /\ rec \in [processor : Processors, id : 0..MaxBreakpoint]
      /\ rec.id = x /\ rec.processor = old.processor
  BY <1>2, <1>3
<1>5. PICK new : new = [r[m] EXCEPT ![k] = rec]
  OBVIOUS
<1>6. q = [r EXCEPT ![m] = new]
  BY <1>1, <1>3, <1>5
<1>7. /\ new = [t \in DOMAIN r[m] |-> IF t = k THEN rec ELSE r[m][t]]
      /\ q = [n \in Modules |-> IF n = m THEN new ELSE r[n]]
  BY <1>5, <1>6 DEF RecordsOf
<1>8. /\ DOMAIN new = DOMAIN r[m] /\ new[k] = rec /\ \A t \in DOMAIN r[m] \ {k} : new[t] = r[m][t]
      /\ q[m] = new /\ \A n \in Modules \ {m} : q[n] = r[n]
  BY <1>7
<1>9. /\ \A n \in Modules : DOMAIN q[n] = DOMAIN r[n]
      /\ q[m][k] = rec /\ \A t \in DOMAIN r[m] \ {k} : q[m][t] = r[m][t]
  BY <1>8
<1>10. RecordsOf(q, next, up)
  <2>1. q = [n \in Modules |-> q[n]]
    BY <1>7
  <2>2. new = [t \in DOMAIN new |-> new[t]]
    BY <1>7
  <2>3. ASSUME NEW n \in Modules PROVE q[n] = [t \in DOMAIN q[n] |-> q[n][t]]
    <3>1. CASE n = m
      <4>1. q[n] = new
        BY <1>8, <3>1
      <4>. QED
        BY <2>2, <4>1
    <3>2. CASE n # m
      <4>1. q[n] = r[n]
        BY <1>8, <3>2
      <4>2. r[n] = [t \in DOMAIN r[n] |-> r[n][t]]
        BY DEF RecordsOf
      <4>. QED
        BY <4>1, <4>2
    <3>. QED
      BY <3>1, <3>2
  <2>5. ASSUME NEW n \in Modules, NEW t \in DOMAIN q[n]
        PROVE  /\ t \in 1..MaxToken /\ t < next[n]
               /\ q[n][t] \in [processor : Processors, id : 0..MaxBreakpoint] /\ q[n][t].id <= up
    <3>1. t \in DOMAIN r[n] /\ t \in 1..MaxToken /\ t < next[n]
      BY <1>9 DEF RecordsOf
    <3>2. CASE n = m /\ t = k
      BY <1>4, <1>9, <3>1, <3>2
    <3>3. CASE ~(n = m /\ t = k)
      <4>1. q[n][t] = r[n][t]
        BY <1>8, <1>9, <3>1, <3>3
      <4>2. r[n][t] \in [processor : Processors, id : 0..MaxBreakpoint] /\ r[n][t].id <= latest
        BY <3>1 DEF RecordsOf
      <4>3. r[n][t].id \in Nat
        BY <4>2
      <4>. QED
        BY <3>1, <4>1, <4>2, <4>3
    <3>. QED
      BY <3>2, <3>3
  <2>6. ASSUME NEW n \in Modules, NEW t \in DOMAIN q[n], NEW u \in DOMAIN q[n],
               q[n][t].id = q[n][u].id
        PROVE  t = u \/ q[n][t].id = 0
    <3>1. t \in DOMAIN r[n] /\ u \in DOMAIN r[n]
      BY <1>9
    <3>2. CASE n # m
      BY <1>8, <2>6, <3>1, <3>2 DEF RecordsOf
    <3>3. CASE n = m /\ t # k /\ u # k
      BY <1>9, <2>6, <3>1, <3>3 DEF RecordsOf
    <3>4. CASE n = m /\ (t = k \/ u = k) /\ t # u
      <4>1. \A v \in DOMAIN r[m] \ {k} : q[m][v].id <= latest /\ q[m][v].id \in Nat
        BY <1>9 DEF RecordsOf
      <4>. QED
        BY <1>4, <1>9, <2>6, <3>1, <3>4, <4>1
    <3>. QED
      BY <3>2, <3>3, <3>4
  <2>. QED
    BY <2>1, <2>3, <2>5, <2>6 DEF RecordsOf
<1>. QED
  BY <1>1, <1>4, <1>8, <1>9, <1>10 DEF DiffersAt

\* An enabled record has an entry of its own.
LEMMA EnabledIsListed ==
    ASSUME NEW r, NEW q, NEW list, NEW m \in Modules, NEW k \in DOMAIN r[m], NEW e,
           EntriesOf(r, list), DiffersAt(r, q, m, k), r[m][k].id = 0, e \in BreakpointEntries,
           e = Breakpoints!Entry(m, k, q[m][k].id, r[m][k].processor)
    PROVE  EntriesOf(q, list \union {e})
<1>. USE DEF DiffersAt
<1>0. list \union {e} \subseteq BreakpointEntries /\ e.owner = m /\ e.handler = k /\ e.id = q[m][k].id
      /\ e.processor = q[m][k].processor
  BY DEF EntriesOf, Breakpoints!Entry
<1>1. ASSUME NEW f \in list \union {e}
      PROVE  /\ f.handler \in DOMAIN q[f.owner]
             /\ q[f.owner][f.handler].id = f.id
             /\ q[f.owner][f.handler].processor = f.processor
  <2>1. CASE f = e
    BY <1>0, <2>1
  <2>2. CASE f \in list
    <3>1. f.owner \in Modules /\ f.id # 0
      BY <2>2, BreakpointConstants DEF EntriesOf, BreakpointEntries
    <3>2. f.owner = m => f.handler # k
      BY <2>2, <3>1 DEF EntriesOf
    <3>. QED
      BY <2>2, <3>1, <3>2 DEF EntriesOf
  <2>. QED
    BY <2>1, <2>2
<1>2. ASSUME NEW n \in Modules, NEW t \in DOMAIN q[n], q[n][t].id # 0
      PROVE  Breakpoints!Entry(n, t, q[n][t].id, q[n][t].processor) \in list \union {e}
  <2>1. CASE n = m /\ t = k
    BY <2>1
  <2>2. CASE ~(n = m /\ t = k)
    <3>1. t \in DOMAIN r[n] /\ q[n][t] = r[n][t]
      BY <2>2
    <3>. QED
      BY <1>2, <3>1 DEF EntriesOf
  <2>. QED
    BY <2>1, <2>2
<1>. QED
  BY <1>0, <1>1, <1>2 DEF EntriesOf

\* A disabled one has none.
LEMMA DisabledIsNotListed ==
    ASSUME NEW r, NEW q, NEW list, NEW next, NEW latest, NEW m \in Modules, NEW k \in DOMAIN r[m],
           EntriesOf(r, list), RecordsOf(r, next, latest), DiffersAt(r, q, m, k),
           r[m][k].id # 0, q[m][k].id = 0
    PROVE  EntriesOf(q, EntriesBut(list, r[m][k].id, m))
<1>. USE DEF DiffersAt, EntriesBut
<1>3. \A t, u \in DOMAIN r[m] : r[m][t].id = r[m][u].id => t = u \/ r[m][t].id = 0
  BY DEF RecordsOf
<1>. DEFINE left == {e \in list : ~(e.id = r[m][k].id /\ e.owner = m)}
<1>0. left \subseteq BreakpointEntries
  BY DEF EntriesOf
<1>1. ASSUME NEW e \in left
      PROVE  /\ e.handler \in DOMAIN q[e.owner]
             /\ q[e.owner][e.handler].id = e.id
             /\ q[e.owner][e.handler].processor = e.processor
  <2>1. e.owner \in Modules
    BY DEF EntriesOf, BreakpointEntries
  <2>2. e.owner = m => e.handler # k
    BY DEF EntriesOf
  <2>. QED
    BY <2>1, <2>2 DEF EntriesOf
<1>2. ASSUME NEW n \in Modules, NEW t \in DOMAIN q[n], q[n][t].id # 0
      PROVE  Breakpoints!Entry(n, t, q[n][t].id, q[n][t].processor) \in left
  <2>1. t \in DOMAIN r[n] /\ q[n][t] = r[n][t] /\ (n = m => t # k)
    BY <1>2
  <2>2. PICK e : e = Breakpoints!Entry(n, t, q[n][t].id, q[n][t].processor)
    OBVIOUS
  <2>3. e \in list /\ e.id = r[n][t].id /\ e.owner = n
    BY <1>2, <2>1, <2>2 DEF EntriesOf, Breakpoints!Entry
  <2>4. ~(e.id = r[m][k].id /\ e.owner = m)
    BY <1>2, <1>3, <2>1, <2>3
  <2>. QED
    BY <2>2, <2>3, <2>4
<1>. QED
  BY <1>0, <1>1, <1>2 DEF EntriesOf

-----------------------------------------------------------------------------
(* The steps of the breakpoints                                              *)

\* What the adapter has after a Push.
LEMMA BreakpointPushes ==
    ASSUME NEW m, Breakpoints!Push(m)
    PROVE  adapter' = [list |-> breakpoints',
                       step |-> IF stepOwner' # None THEN stepProcessor' ELSE None]
  BY DEF Breakpoints!Push

\* The adapter agrees with a list that entries were taken out of.
LEMMA BreakpointErases ==
    ASSUME BreakpointTypes, NEW m, NEW id, Breakpoints!EraseEntry(m, id),
           UNCHANGED <<nextBreakpoint, stepOwner, stepHandler, stepProcessor, held>>
    PROVE  /\ breakpoints' \in Seq(BreakpointEntries)
           /\ Listed' = EntriesBut(Listed, id, m)
           /\ adapter' = [list |-> breakpoints',
                          step |-> IF stepOwner' # None THEN stepProcessor' ELSE None]
<1>1. breakpoints' = Breakpoints!Removed(m, id)
  BY DEF Breakpoints!EraseEntry
<1>2. adapter' = [list |-> breakpoints',
                  step |-> IF stepOwner' # None THEN stepProcessor' ELSE None]
  <2>1. CASE breakpoints' # breakpoints
    BY <2>1, BreakpointPushes DEF Breakpoints!EraseEntry
  <2>2. CASE breakpoints' = breakpoints
    BY <2>2 DEF Breakpoints!EraseEntry, BreakpointTypes
  <2>. QED
    BY <2>1, <2>2
<1>3. Listed' = {breakpoints'[i] : i \in DOMAIN breakpoints'}
  BY DEF Listed
<1>. QED
  BY <1>1, <1>2, <1>3, BreakpointRemoved DEF EntriesBut

\* Breakpoint::Create
LEMMA BreakpointCreate ==
    ASSUME BreakpointInv, NEW m \in Modules, NEW p \in Processors, Breakpoints!Create(m, p)
    PROVE  BreakpointInv'
<1>0. /\ BreakpointTypes /\ BreakpointPhases /\ RecordsOf(records, nextToken, nextBreakpoint)
      /\ EntriesOf(records, Listed) /\ StepsOf(records, stepToken)
      /\ BreakpointSteps /\ BreakpointReleases
  BY DEF BreakpointInv
<1>1. /\ nextToken[m] <= MaxToken
      /\ records' = [records EXCEPT ![m] = [t \in DOMAIN @ \union {nextToken[m]} |->
                        IF t = nextToken[m] THEN [processor |-> p, id |-> 0] ELSE @[t]]]
      /\ nextToken' = [nextToken EXCEPT ![m] = nextToken[m] + 1]
  BY DEF Breakpoints!Create, Breakpoints!CanInsert
<1>2. UNCHANGED <<breakpoints, nextBreakpoint, stepOwner, stepHandler, stepProcessor, held,
                  adapter, stepToken, gone, released, phase, handling>>
  BY DEF Breakpoints!Create, Breakpoints!hostVars, Breakpoints!lifeVars, Breakpoints!phaseVars
<1>3. nextToken \in [Modules -> 1..(MaxToken + 1)] /\ nextBreakpoint \in Nat
  BY <1>0, BreakpointConstants DEF BreakpointTypes
<1>4. /\ RecordsOf(records', nextToken', nextBreakpoint)
      /\ HasOneMore(records, records', m, nextToken[m])
  <2>1. CreatesRecord(records, nextToken, nextBreakpoint, m, p, records')
    BY <1>0, <1>1, <1>3 DEF CreatesRecord
  <2>. QED
    BY <1>1, <2>1, RecordCreated, Zenon
<1>5. Listed' = Listed
  BY <1>2 DEF Listed
<1>6. EntriesOf(records', Listed)
  BY <1>0, <1>4, CreatedIsNotListed, Zenon
<1>7. StepsOf(records', stepToken)
  BY <1>0, <1>4 DEF StepsOf, HasOneMore
<1>8. BreakpointTypes'
  BY <1>0, <1>1, <1>2, <1>3, BreakpointConstants DEF BreakpointTypes
<1>9. BreakpointPhases' /\ BreakpointSteps' /\ BreakpointReleases'
  BY <1>0, <1>2, <1>5 DEF BreakpointPhases, BreakpointSteps, BreakpointReleases
<1>. QED
  BY <1>2, <1>4, <1>5, <1>6, <1>7, <1>8, <1>9 DEF BreakpointInv

\* Breakpoint::Enable
LEMMA BreakpointEnable ==
    ASSUME BreakpointInv, NEW m \in Modules, NEW t \in 1..MaxToken, Breakpoints!Enable(m, t)
    PROVE  BreakpointInv'
<1>0. /\ BreakpointTypes /\ BreakpointPhases /\ RecordsOf(records, nextToken, nextBreakpoint)
      /\ EntriesOf(records, Listed) /\ StepsOf(records, stepToken)
      /\ BreakpointSteps /\ BreakpointReleases
  BY DEF BreakpointInv
<1>1. /\ ~gone[m] /\ t \in DOMAIN records[m] \ {stepToken[m]} /\ records[m][t].id = 0
      /\ nextBreakpoint < MaxBreakpoint
      /\ nextBreakpoint' = nextBreakpoint + 1
      /\ breakpoints' = Append(breakpoints,
                               Breakpoints!Entry(m, t, nextBreakpoint', records[m][t].processor))
      /\ records' = [records EXCEPT ![m][t].id = nextBreakpoint']
      /\ Breakpoints!Push(m)
  BY DEF Breakpoints!Enable, Breakpoints!Runs
<1>2. UNCHANGED <<stepOwner, stepHandler, stepProcessor, held,
                  nextToken, stepToken, gone, released, phase, handling>>
  BY DEF Breakpoints!Enable, Breakpoints!stepVars, Breakpoints!lifeVars, Breakpoints!phaseVars
<1>3. /\ nextBreakpoint \in Nat /\ nextBreakpoint' \in 1..MaxBreakpoint
      /\ nextBreakpoint' \in 0..MaxBreakpoint /\ nextBreakpoint' \in Nat
      /\ nextBreakpoint' > nextBreakpoint
  BY <1>0, <1>1, BreakpointConstants DEF BreakpointTypes
<1>4. /\ RecordsOf(records', nextToken, nextBreakpoint')
      /\ DiffersAt(records, records', m, t) /\ records'[m][t].id = nextBreakpoint'
  <2>1. Renumbers(records, nextToken, nextBreakpoint, m, t, nextBreakpoint', nextBreakpoint',
                  records')
    BY <1>0, <1>1, <1>3 DEF Renumbers
  <2>. QED
    BY <2>1, RecordRenumbered
<1>5. PICK e \in BreakpointEntries :
         e = Breakpoints!Entry(m, t, nextBreakpoint', records[m][t].processor)
  <2>1. records[m][t].processor \in Processors
    BY <1>0, <1>1 DEF RecordsOf
  <2>. QED
    BY <1>3, <2>1 DEF Breakpoints!Entry, BreakpointEntries
<1>6. breakpoints' \in Seq(BreakpointEntries) /\ Listed' = Listed \union {e}
  <2>1. breakpoints' = Append(breakpoints, e)
    BY <1>1, <1>5
  <2>2. Listed' = {breakpoints'[i] : i \in DOMAIN breakpoints'}
    BY DEF Listed
  <2>. QED
    BY <1>0, <2>1, <2>2, BreakpointAdded
<1>7. EntriesOf(records', Listed')
  <2>1. EntriesOf(records', Listed \union {e})
    BY <1>0, <1>1, <1>4, <1>5, EnabledIsListed, Zenon
  <2>. QED
    BY <1>6, <2>1
<1>8. StepsOf(records', stepToken)
  BY <1>0, <1>1, <1>4 DEF StepsOf, DiffersAt
<1>9. BreakpointTypes'
  <2>1. adapter' = [list |-> breakpoints',
                    step |-> IF stepOwner' # None THEN stepProcessor' ELSE None]
    BY <1>1, BreakpointPushes
  <2>. QED
    BY <1>0, <1>2, <1>3, <1>6, <2>1 DEF BreakpointTypes
<1>10. BreakpointPhases' /\ BreakpointSteps'
  BY <1>0, <1>2 DEF BreakpointPhases, BreakpointSteps
<1>11. BreakpointReleases'
  <2>1. e.owner = m
    BY <1>5 DEF Breakpoints!Entry
  <2>. QED
    BY <1>0, <1>1, <1>2, <1>6, <2>1 DEF BreakpointReleases
<1>. QED
  BY <1>2, <1>4, <1>7, <1>8, <1>9, <1>10, <1>11 DEF BreakpointInv

\* Breakpoint::Disable
LEMMA BreakpointDisable ==
    ASSUME BreakpointInv, NEW m \in Modules, NEW t \in 1..MaxToken, Breakpoints!Disable(m, t)
    PROVE  BreakpointInv'
<1>0. /\ BreakpointTypes /\ BreakpointPhases /\ RecordsOf(records, nextToken, nextBreakpoint)
      /\ EntriesOf(records, Listed) /\ StepsOf(records, stepToken)
      /\ BreakpointSteps /\ BreakpointReleases
  BY DEF BreakpointInv
<1>1. /\ ~gone[m] /\ t \in DOMAIN records[m] /\ records[m][t].id # 0
      /\ records' = [records EXCEPT ![m][t].id = 0]
      /\ Breakpoints!EraseEntry(m, records[m][t].id)
  BY DEF Breakpoints!Disable, Breakpoints!Runs
<1>2. UNCHANGED <<nextBreakpoint, stepOwner, stepHandler, stepProcessor, held,
                  nextToken, stepToken, gone, released, phase, handling>>
  BY DEF Breakpoints!Disable, Breakpoints!stepVars, Breakpoints!lifeVars, Breakpoints!phaseVars
<1>3. /\ breakpoints' \in Seq(BreakpointEntries)
      /\ Listed' = EntriesBut(Listed, records[m][t].id, m)
      /\ adapter' = [list |-> breakpoints',
                     step |-> IF stepOwner' # None THEN stepProcessor' ELSE None]
  BY <1>0, <1>1, <1>2, BreakpointErases
<1>4. /\ RecordsOf(records', nextToken, nextBreakpoint)
      /\ DiffersAt(records, records', m, t) /\ records'[m][t].id = 0
  <2>1. Renumbers(records, nextToken, nextBreakpoint, m, t, 0, nextBreakpoint, records')
    BY <1>0, <1>1, BreakpointConstants DEF BreakpointTypes, Renumbers
  <2>. QED
    BY <2>1, RecordRenumbered
<1>5. EntriesOf(records', Listed')
  <2>2. EntriesOf(records', EntriesBut(Listed, records[m][t].id, m))
    BY <1>0, <1>1, <1>4, DisabledIsNotListed, Zenon
  <2>. QED
    BY <1>3, <2>2
<1>6. StepsOf(records', stepToken)
  BY <1>0, <1>1, <1>4 DEF StepsOf, DiffersAt
<1>7. BreakpointTypes'
  BY <1>0, <1>2, <1>3 DEF BreakpointTypes
<1>8. BreakpointPhases' /\ BreakpointSteps' /\ BreakpointReleases'
  BY <1>0, <1>2, <1>3 DEF BreakpointPhases, BreakpointSteps, BreakpointReleases, EntriesBut
<1>. QED
  BY <1>2, <1>4, <1>5, <1>6, <1>7, <1>8 DEF BreakpointInv

\* Breakpoint::Destroy
LEMMA BreakpointDestroy ==
    ASSUME BreakpointInv, NEW m \in Modules, NEW t \in 1..MaxToken, Breakpoints!Destroy(m, t)
    PROVE  BreakpointInv'
<1>0. /\ BreakpointTypes /\ BreakpointPhases /\ RecordsOf(records, nextToken, nextBreakpoint)
      /\ EntriesOf(records, Listed) /\ StepsOf(records, stepToken)
      /\ BreakpointSteps /\ BreakpointReleases
  BY DEF BreakpointInv
<1>1. /\ ~gone[m] /\ t \in DOMAIN records[m] /\ t # stepToken[m]
      /\ records' = [records EXCEPT ![m] = Breakpoints!Without(@, t)]
      /\ Breakpoints!EraseEntry(m, records[m][t].id)
  BY DEF Breakpoints!Destroy, Breakpoints!Runs
<1>2. UNCHANGED <<nextBreakpoint, stepOwner, stepHandler, stepProcessor, held,
                  nextToken, stepToken, gone, released, phase, handling>>
  BY DEF Breakpoints!Destroy, Breakpoints!stepVars, Breakpoints!lifeVars, Breakpoints!phaseVars
<1>3. /\ breakpoints' \in Seq(BreakpointEntries)
      /\ Listed' = EntriesBut(Listed, records[m][t].id, m)
      /\ adapter' = [list |-> breakpoints',
                     step |-> IF stepOwner' # None THEN stepProcessor' ELSE None]
  BY <1>0, <1>1, <1>2, BreakpointErases
<1>4. RecordsOf(records', nextToken, nextBreakpoint) /\ HasOneLess(records, records', m, t)
  BY <1>0, <1>1, RecordDestroyed
<1>5. EntriesOf(records', Listed')
  <2>1. EntriesOf(records', EntriesBut(Listed, records[m][t].id, m))
    BY <1>0, <1>1, <1>4, DestroyedIsNotListed, Zenon
  <2>. QED
    BY <1>3, <2>1
<1>6. StepsOf(records', stepToken)
  BY <1>0, <1>1, <1>4 DEF StepsOf, HasOneLess
<1>7. BreakpointTypes'
  BY <1>0, <1>2, <1>3 DEF BreakpointTypes
<1>8. BreakpointPhases' /\ BreakpointSteps' /\ BreakpointReleases'
  BY <1>0, <1>2, <1>3 DEF BreakpointPhases, BreakpointSteps, BreakpointReleases, EntriesBut
<1>. QED
  BY <1>2, <1>4, <1>5, <1>6, <1>7, <1>8 DEF BreakpointInv

\* The record of a step, which is not enabled, goes without the host's list.
DestroysStep(r, next, latest, list, tokens, m, q) ==
    /\ m \in Modules /\ tokens \in [Modules -> 0..MaxToken]
    /\ RecordsOf(r, next, latest) /\ EntriesOf(r, list) /\ StepsOf(r, tokens)
    /\ q = [r EXCEPT ![m] = Breakpoints!Without(@, tokens[m])]

\* Then the entries are those of the enabled records still.
LEMMA StepRecordDestroyed ==
    ASSUME NEW r, NEW next, NEW latest, NEW list, NEW tokens, NEW m, NEW q,
           DestroysStep(r, next, latest, list, tokens, m, q)
    PROVE  /\ RecordsOf(q, next, latest) /\ EntriesOf(q, list)
           /\ StepsOf(q, [tokens EXCEPT ![m] = 0])
<1>. USE DEF DestroysStep
<1>1. RecordsOf(q, next, latest) /\ HasOneLess(r, q, m, tokens[m])
  BY RecordDestroyed
<1>2. EntriesOf(q, list)
  <2>1. CASE tokens[m] = 0
    <3>1. 0 \notin DOMAIN r[m]
      BY DEF RecordsOf
    <3>2. \A n \in Modules : DOMAIN q[n] = DOMAIN r[n] /\ \A t \in DOMAIN r[n] : q[n][t] = r[n][t]
      BY <1>1, <2>1, <3>1 DEF HasOneLess
    <3>3. \A e \in list : e.owner \in Modules
      BY DEF EntriesOf, BreakpointEntries
    <3>. QED
      BY <3>2, <3>3 DEF EntriesOf
  <2>2. CASE tokens[m] # 0
    <3>1. tokens[m] \in DOMAIN r[m] /\ r[m][tokens[m]].id = 0
      BY <2>2 DEF StepsOf
    <3>2. EntriesOf(q, EntriesBut(list, r[m][tokens[m]].id, m))
      BY <1>1, <3>1, DestroyedIsNotListed, Zenon
    <3>3. EntriesBut(list, 0, m) = list
      BY NoEntryOfNone DEF EntriesOf
    <3>. QED
      BY <3>1, <3>2, <3>3
  <2>. QED
    BY <2>1, <2>2
<1>3. StepsOf(q, [tokens EXCEPT ![m] = 0])
  BY <1>1 DEF HasOneLess, StepsOf
<1>. QED
  BY <1>1, <1>2, <1>3

\* Breakpoint::Stop_Next, for Pause and for Step
LEMMA BreakpointStopNext ==
    ASSUME BreakpointInv, NEW m \in Modules, NEW p \in Processors, Breakpoints!Stop_Next(m, p)
    PROVE  BreakpointInv'
<1>0. /\ BreakpointTypes /\ BreakpointPhases /\ RecordsOf(records, nextToken, nextBreakpoint)
      /\ EntriesOf(records, Listed) /\ StepsOf(records, stepToken)
      /\ BreakpointSteps /\ BreakpointReleases
  BY DEF BreakpointInv
<1>1. /\ ~gone[m] /\ nextToken[m] <= MaxToken
      /\ records' = [records EXCEPT ![m] =
            [t \in DOMAIN Breakpoints!Without(records[m], stepToken[m]) \union {nextToken[m]} |->
                IF t = nextToken[m] THEN [processor |-> p, id |-> 0]
                ELSE Breakpoints!Without(records[m], stepToken[m])[t]]]
      /\ nextToken' = [nextToken EXCEPT ![m] = nextToken[m] + 1]
      /\ stepToken' = [stepToken EXCEPT ![m] = nextToken[m]]
      /\ stepHandler' = nextToken[m] /\ held' = FALSE /\ stepOwner' = m /\ stepProcessor' = p
      /\ Breakpoints!Push(m)
  BY DEF Breakpoints!Stop_Next, Breakpoints!CanInsert, Breakpoints!Runs
<1>2. UNCHANGED <<breakpoints, nextBreakpoint, gone, released, phase, handling>>
  BY DEF Breakpoints!Stop_Next, Breakpoints!lifeVars, Breakpoints!phaseVars
<1>3. /\ nextToken \in [Modules -> 1..(MaxToken + 1)] /\ nextBreakpoint \in Nat
      /\ stepToken \in [Modules -> 0..MaxToken]
  BY <1>0, BreakpointConstants DEF BreakpointTypes
<1>4. PICK q : q = [records EXCEPT ![m] = Breakpoints!Without(@, stepToken[m])]
  OBVIOUS
<1>5. /\ RecordsOf(q, nextToken, nextBreakpoint) /\ EntriesOf(q, Listed)
      /\ StepsOf(q, [stepToken EXCEPT ![m] = 0])
  <2>1. DestroysStep(records, nextToken, nextBreakpoint, Listed, stepToken, m, q)
    BY <1>0, <1>3, <1>4 DEF DestroysStep
  <2>. QED
    BY <2>1, StepRecordDestroyed, Zenon
<1>6. records' = [q EXCEPT ![m] = [t \in DOMAIN @ \union {nextToken[m]} |->
                     IF t = nextToken[m] THEN [processor |-> p, id |-> 0] ELSE @[t]]]
  <2>1. DOMAIN records = Modules
    BY <1>0 DEF RecordsOf
  <2>2. q[m] = Breakpoints!Without(records[m], stepToken[m])
    BY <1>4, <2>1
  <2>3. \A f : [q EXCEPT ![m] = f] = [records EXCEPT ![m] = f]
    BY <1>4
  <2>. QED
    BY <1>1, <2>2, <2>3
<1>7. /\ RecordsOf(records', nextToken', nextBreakpoint)
      /\ HasOneMore(q, records', m, nextToken[m])
  <2>1. CreatesRecord(q, nextToken, nextBreakpoint, m, p, records')
    BY <1>1, <1>3, <1>5, <1>6 DEF CreatesRecord
  <2>. QED
    BY <1>1, <2>1, RecordCreated, Zenon
<1>8. Listed' = Listed
  BY <1>2 DEF Listed
<1>9. EntriesOf(records', Listed)
  BY <1>5, <1>7, CreatedIsNotListed, Zenon
<1>10. StepsOf(records', stepToken')
  BY <1>1, <1>3, <1>5, <1>7 DEF StepsOf, HasOneMore
<1>11. BreakpointTypes'
  <2>1. adapter' = [list |-> breakpoints',
                    step |-> IF stepOwner' # None THEN stepProcessor' ELSE None]
    BY <1>1, BreakpointPushes
  <2>2. nextToken' \in [Modules -> 1..(MaxToken + 1)] /\ stepToken' \in [Modules -> 0..MaxToken]
    BY <1>1, <1>3, BreakpointConstants
  <2>. QED
    BY <1>0, <1>1, <1>2, <2>1, <2>2 DEF BreakpointTypes
<1>12. BreakpointPhases'
  BY <1>0, <1>1, <1>2 DEF BreakpointPhases
<1>13. BreakpointSteps' /\ BreakpointReleases'
  BY <1>0, <1>1, <1>2, <1>3, <1>8 DEF BreakpointSteps, BreakpointReleases
<1>. QED
  BY <1>2, <1>7, <1>8, <1>9, <1>10, <1>11, <1>12, <1>13 DEF BreakpointInv

\* Breakpoint::Resume
LEMMA BreakpointResume ==
    ASSUME BreakpointInv, NEW m \in Modules, Breakpoints!Resume(m)
    PROVE  BreakpointInv'
<1>0. /\ BreakpointTypes /\ BreakpointPhases /\ RecordsOf(records, nextToken, nextBreakpoint)
      /\ EntriesOf(records, Listed) /\ StepsOf(records, stepToken)
      /\ BreakpointSteps /\ BreakpointReleases
  BY DEF BreakpointInv
<1>1. /\ records' = [records EXCEPT ![m] = Breakpoints!Without(@, stepToken[m])]
      /\ stepToken' = [stepToken EXCEPT ![m] = 0]
      /\ held' = FALSE /\ stepOwner' = None
      /\ Breakpoints!Push(m)
  BY DEF Breakpoints!Resume
<1>2. UNCHANGED <<breakpoints, nextBreakpoint, stepHandler, stepProcessor, nextToken,
                  gone, released, phase, handling>>
  BY DEF Breakpoints!Resume, Breakpoints!lifeVars, Breakpoints!phaseVars
<1>3. stepToken \in [Modules -> 0..MaxToken] /\ stepToken' \in [Modules -> 0..MaxToken]
  BY <1>0, <1>1, BreakpointConstants DEF BreakpointTypes
<1>4. /\ RecordsOf(records', nextToken, nextBreakpoint) /\ EntriesOf(records', Listed)
      /\ StepsOf(records', stepToken')
  <2>1. DestroysStep(records, nextToken, nextBreakpoint, Listed, stepToken, m, records')
    BY <1>0, <1>1, <1>3 DEF DestroysStep
  <2>. QED
    BY <1>1, <2>1, StepRecordDestroyed, Zenon
<1>5. Listed' = Listed
  BY <1>2 DEF Listed
<1>6. BreakpointTypes'
  <2>1. adapter' = [list |-> breakpoints',
                    step |-> IF stepOwner' # None THEN stepProcessor' ELSE None]
    BY <1>1, BreakpointPushes
  <2>. QED
    BY <1>0, <1>1, <1>2, <1>3, <2>1 DEF BreakpointTypes
<1>7. BreakpointPhases' /\ BreakpointSteps' /\ BreakpointReleases'
  BY <1>0, <1>1, <1>2, <1>5, BreakpointConstants
  DEF BreakpointPhases, BreakpointSteps, BreakpointReleases
<1>. QED
  BY <1>2, <1>4, <1>5, <1>6, <1>7 DEF BreakpointInv

\* A module traps: the tables stay as they are.
LEMMA BreakpointTrap ==
    ASSUME BreakpointInv, NEW m \in Modules, Breakpoints!Trap(m)
    PROVE  BreakpointInv'
<1>0. /\ BreakpointTypes /\ BreakpointPhases /\ RecordsOf(records, nextToken, nextBreakpoint)
      /\ EntriesOf(records, Listed) /\ StepsOf(records, stepToken)
      /\ BreakpointSteps /\ BreakpointReleases
  BY DEF BreakpointInv
<1>1. /\ gone' = [gone EXCEPT ![m] = TRUE]
      /\ phase' = IF phase = "handler" THEN "run" ELSE phase
  BY DEF Breakpoints!Trap
<1>2. UNCHANGED <<breakpoints, nextBreakpoint, stepOwner, stepHandler, stepProcessor, held, adapter,
                  records, nextToken, stepToken, released>>
  BY DEF Breakpoints!Trap, Breakpoints!hostVars, Breakpoints!moduleVars
<1>3. BreakpointTypes' /\ Listed' = Listed
  BY <1>0, <1>2 DEF BreakpointTypes, Listed
<1>4. BreakpointPhases'
  BY <1>0, <1>1, <1>2 DEF BreakpointPhases
<1>5. BreakpointSteps' /\ BreakpointReleases'
  BY <1>0, <1>1, <1>2, <1>3 DEF BreakpointSteps, BreakpointReleases, BreakpointPhases
<1>. QED
  BY <1>0, <1>2, <1>3, <1>4, <1>5 DEF BreakpointInv

\* A module is released with all that it has in the tables.
LEMMA BreakpointRelease ==
    ASSUME BreakpointInv, NEW m \in Modules, Breakpoints!Release(m)
    PROVE  BreakpointInv'
<1>0. /\ BreakpointTypes /\ BreakpointPhases /\ RecordsOf(records, nextToken, nextBreakpoint)
      /\ EntriesOf(records, Listed) /\ StepsOf(records, stepToken)
      /\ BreakpointSteps /\ BreakpointReleases
  BY DEF BreakpointInv
<1>1. /\ released' = [released EXCEPT ![m] = TRUE] /\ gone' = [gone EXCEPT ![m] = TRUE]
      /\ records' = [records EXCEPT ![m] = <<>>] /\ stepToken' = [stepToken EXCEPT ![m] = 0]
      /\ stepOwner' = IF stepOwner = m THEN None ELSE stepOwner
  BY DEF Breakpoints!Release, Breakpoints!StepWithout
<1>2. UNCHANGED <<nextBreakpoint, stepHandler, stepProcessor, held, nextToken, phase, handling>>
  BY DEF Breakpoints!Release, Breakpoints!phaseVars
<1>3. breakpoints' \in Seq(BreakpointEntries) /\ Listed' = {e \in Listed : e.owner # m}
  <2>1. breakpoints' = EntriesOfOthers(m)
    BY DEF Breakpoints!Release, EntriesOfOthers
  <2>2. Listed' = {breakpoints'[i] : i \in DOMAIN breakpoints'}
    BY DEF Listed
  <2>. QED
    BY <1>0, <2>1, <2>2, BreakpointsOfOthers
<1>4. adapter' = [list |-> breakpoints',
                  step |-> IF stepOwner' # None THEN stepProcessor' ELSE None]
  <2>1. CASE breakpoints' # breakpoints \/ stepOwner = m
    BY <2>1, BreakpointPushes DEF Breakpoints!Release
  <2>2. CASE ~(breakpoints' # breakpoints \/ stepOwner = m)
    BY <1>0, <1>1, <1>2, <2>2 DEF Breakpoints!Release, BreakpointTypes
  <2>. QED
    BY <2>1, <2>2
<1>5. /\ \A n \in Modules \ {m} : records'[n] = records[n]
      /\ DOMAIN records'[m] = {} /\ records'[m] = <<>>
      /\ records' = [n \in Modules |-> records'[n]]
  BY <1>0, <1>1 DEF RecordsOf
<1>6. RecordsOf(records', nextToken, nextBreakpoint)
  <2>1. ASSUME NEW n \in Modules PROVE records'[n] = [t \in DOMAIN records'[n] |-> records'[n][t]]
    <3>1. CASE n = m
      BY <1>5, <3>1
    <3>2. CASE n # m
      BY <1>0, <1>5, <3>2 DEF RecordsOf
    <3>. QED
      BY <3>1, <3>2
  <2>2. ASSUME NEW n \in Modules, NEW t \in DOMAIN records'[n]
        PROVE  n # m /\ records'[n] = records[n]
    BY <1>5
  <2>. QED
    BY <1>0, <1>5, <2>1, <2>2 DEF RecordsOf
<1>7. EntriesOf(records', Listed')
  <2>1. \A e \in Listed' : e \in Listed /\ e.owner \in Modules \ {m}
    BY <1>0, <1>3 DEF EntriesOf, BreakpointEntries
  <2>2. ASSUME NEW n \in Modules, NEW t \in DOMAIN records'[n], records'[n][t].id # 0
        PROVE  Breakpoints!Entry(n, t, records'[n][t].id, records'[n][t].processor) \in Listed'
    <3>1. n # m /\ records'[n] = records[n]
      BY <1>5, <2>2
    <3>2. PICK e : e = Breakpoints!Entry(n, t, records[n][t].id, records[n][t].processor)
      OBVIOUS
    <3>3. e \in Listed /\ e.owner = n
      BY <1>0, <2>2, <3>1, <3>2 DEF EntriesOf, Breakpoints!Entry
    <3>. QED
      BY <1>3, <3>1, <3>2, <3>3
  <2>3. Listed' \subseteq BreakpointEntries
    BY <1>0, <1>3 DEF EntriesOf
  <2>4. \A e \in Listed' : /\ e.handler \in DOMAIN records'[e.owner]
                           /\ records'[e.owner][e.handler].id = e.id
                           /\ records'[e.owner][e.handler].processor = e.processor
    BY <1>0, <1>5, <2>1 DEF EntriesOf
  <2>. QED
    BY <2>2, <2>3, <2>4 DEF EntriesOf
<1>8. stepToken' \in [Modules -> 0..MaxToken] /\ StepsOf(records', stepToken')
  BY <1>0, <1>1, <1>5, BreakpointConstants DEF BreakpointTypes, StepsOf
<1>9. BreakpointTypes'
  BY <1>0, <1>1, <1>2, <1>3, <1>4, <1>8 DEF BreakpointTypes
<1>10. BreakpointPhases'
  BY <1>0, <1>1, <1>2 DEF BreakpointPhases
<1>11. BreakpointSteps'
  BY <1>0, <1>1, <1>2, BreakpointConstants DEF BreakpointSteps, BreakpointTypes
<1>12. BreakpointReleases'
  BY <1>0, <1>1, <1>3, BreakpointConstants DEF BreakpointReleases, BreakpointPhases
<1>. QED
  BY <1>2, <1>6, <1>7, <1>8, <1>9, <1>10, <1>11, <1>12 DEF BreakpointInv

\* The handler of a breakpoint is called: the records stay as they are.
LEMMA BreakpointHit ==
    ASSUME BreakpointInv, Breakpoints!Hit
    PROVE  BreakpointInv'
<1>0. /\ BreakpointTypes /\ BreakpointPhases /\ RecordsOf(records, nextToken, nextBreakpoint)
      /\ EntriesOf(records, Listed) /\ StepsOf(records, stepToken)
      /\ BreakpointSteps /\ BreakpointReleases
  BY DEF BreakpointInv
<1>1. UNCHANGED <<breakpoints, nextBreakpoint, stepOwner, stepHandler, stepProcessor, held, adapter,
                  nextToken, gone, released>>
  BY DEF Breakpoints!Hit, Breakpoints!hostVars, Breakpoints!lifeVars
<1>2. phase = "run"
  BY DEF Breakpoints!Hit
<1>3. PICK i \in DOMAIN adapter.list :
         \E m, token : Breakpoints!Call_Handler(m, token, adapter.list[i].processor, adapter.list[i].id)
  BY DEF Breakpoints!Hit
<1>4. adapter.list[i].id # 0
  <2>1. adapter.list = breakpoints
    BY <1>0 DEF BreakpointTypes
  <2>2. breakpoints[i] \in BreakpointEntries
    BY <1>0, <1>3, <2>1 DEF BreakpointTypes
  <2>. QED
    BY <2>1, <2>2, BreakpointConstants DEF BreakpointEntries
<1>5. /\ phase' \in {"run", "handler"}
      /\ UNCHANGED <<records, stepToken>>
  BY <1>2, <1>3, <1>4 DEF Breakpoints!Call_Handler
<1>6. BreakpointTypes' /\ Listed' = Listed
  BY <1>0, <1>1, <1>5 DEF BreakpointTypes, Listed
<1>7. BreakpointPhases'
  BY <1>0, <1>1, <1>2, <1>5 DEF BreakpointPhases
<1>8. BreakpointSteps' /\ BreakpointReleases'
  BY <1>0, <1>1, <1>5, <1>6 DEF BreakpointSteps, BreakpointReleases
<1>. QED
  BY <1>0, <1>1, <1>5, <1>6, <1>7, <1>8 DEF BreakpointInv

\* A step ends: the record of it goes when its handler is called.
LEMMA BreakpointStepped ==
    ASSUME BreakpointInv, Breakpoints!Stepped
    PROVE  BreakpointInv'
<1>0. /\ BreakpointTypes /\ BreakpointPhases /\ RecordsOf(records, nextToken, nextBreakpoint)
      /\ EntriesOf(records, Listed) /\ StepsOf(records, stepToken)
      /\ BreakpointSteps /\ BreakpointReleases
  BY DEF BreakpointInv
<1>1. /\ phase = "run" /\ adapter.step # None
      /\ adapter' = [adapter EXCEPT !.step = None]
      /\ stepOwner' = IF adapter.step = stepProcessor THEN None ELSE stepOwner
      /\ IF stepOwner # None /\ adapter.step = stepProcessor
         THEN Breakpoints!Call_Handler(stepOwner, stepHandler, adapter.step, 0)
         ELSE UNCHANGED <<phase, handling, records, stepToken>>
  BY DEF Breakpoints!Stepped
<1>2. UNCHANGED <<breakpoints, nextBreakpoint, stepHandler, stepProcessor, held, nextToken,
                  gone, released>>
  BY DEF Breakpoints!Stepped, Breakpoints!lifeVars
<1>3. stepOwner \in Modules /\ adapter.step = stepProcessor
  BY <1>0, <1>1 DEF BreakpointTypes
<1>4. stepOwner' = None /\ Breakpoints!Call_Handler(stepOwner, stepHandler, adapter.step, 0)
  BY <1>1, <1>3, BreakpointConstants
<1>5. stepHandler = stepToken[stepOwner] /\ stepToken \in [Modules -> 0..MaxToken]
  BY <1>0, <1>3 DEF BreakpointSteps, BreakpointTypes
<1>6. /\ phase' \in {"run", "handler"}
      /\ \/ UNCHANGED <<records, stepToken>>
         \/ /\ records' = [records EXCEPT ![stepOwner] = Breakpoints!Without(@, stepToken[stepOwner])]
            /\ stepToken' = [stepToken EXCEPT ![stepOwner] = 0]
  BY <1>1, <1>4, <1>5 DEF Breakpoints!Call_Handler
<1>7. /\ RecordsOf(records', nextToken, nextBreakpoint) /\ EntriesOf(records', Listed)
      /\ StepsOf(records', stepToken') /\ stepToken' \in [Modules -> 0..MaxToken]
  <2>1. CASE UNCHANGED <<records, stepToken>>
    BY <1>0, <1>5, <2>1
  <2>2. CASE /\ records' = [records EXCEPT ![stepOwner] =
                               Breakpoints!Without(@, stepToken[stepOwner])]
             /\ stepToken' = [stepToken EXCEPT ![stepOwner] = 0]
    <3>1. DestroysStep(records, nextToken, nextBreakpoint, Listed, stepToken, stepOwner, records')
      BY <1>0, <1>3, <1>5, <2>2 DEF DestroysStep
    <3>2. /\ RecordsOf(records', nextToken, nextBreakpoint) /\ EntriesOf(records', Listed)
          /\ StepsOf(records', stepToken')
      BY <2>2, <3>1, StepRecordDestroyed, Zenon
    <3>3. stepToken' \in [Modules -> 0..MaxToken]
      <4>1. 0 \in 0..MaxToken
        BY BreakpointConstants
      <4>2. \A f \in [Modules -> 0..MaxToken] : \A n : [f EXCEPT ![n] = 0] \in [Modules -> 0..MaxToken]
        BY <4>1, Zenon
      <4>. QED
        BY <1>5, <2>2, <4>2, Zenon
    <3>. QED
      BY <3>2, <3>3
  <2>. QED
    BY <1>6, <2>1, <2>2
<1>8. Listed' = Listed
  BY <1>2 DEF Listed
<1>9. BreakpointTypes'
  <2>1. adapter' = [list |-> breakpoints, step |-> None]
    BY <1>0, <1>1 DEF BreakpointTypes
  <2>. QED
    BY <1>0, <1>2, <1>4, <1>7, <2>1 DEF BreakpointTypes
<1>10. BreakpointPhases'
  BY <1>0, <1>1, <1>2, <1>6 DEF BreakpointPhases
<1>11. BreakpointSteps' /\ BreakpointReleases'
  BY <1>0, <1>2, <1>4, <1>8, BreakpointConstants DEF BreakpointSteps, BreakpointReleases
<1>. QED
  BY <1>2, <1>7, <1>8, <1>9, <1>10, <1>11 DEF BreakpointInv

\* A handler returns, or the game goes on after the pause.
LEMMA BreakpointGoesOn ==
    ASSUME BreakpointInv,
           (\E pause \in BOOLEAN : Breakpoints!Return(pause)) \/ Breakpoints!Continue
    PROVE  BreakpointInv'
<1>1. UNCHANGED <<breakpoints, nextBreakpoint, stepOwner, stepHandler, stepProcessor, adapter,
                  records, nextToken, stepToken, gone, released>>
  BY DEF Breakpoints!Return, Breakpoints!Continue, Breakpoints!stepVars, Breakpoints!moduleVars,
     Breakpoints!lifeVars
<1>2. BreakpointPhases'
  <2>0. BreakpointPhases
    BY DEF BreakpointInv
  <2>1. CASE Breakpoints!Continue
    BY <1>1, <2>0, <2>1 DEF BreakpointPhases, Breakpoints!Continue
  <2>2. ASSUME NEW pause \in BOOLEAN, Breakpoints!Return(pause)
        PROVE  BreakpointPhases'
    <3>1. held' = pause /\ phase' = IF pause THEN "held" ELSE "run"
      BY <2>2 DEF Breakpoints!Return
    <3>2. held' \in BOOLEAN /\ (held' => phase' = "held") /\ phase' \in {"run", "handler", "held"}
      BY <3>1, Zenon
    <3>. QED
      BY <1>1, <2>0, <3>2 DEF BreakpointPhases
  <2>. QED
    BY <2>1, <2>2
<1>3. BreakpointTypes' /\ Listed' = Listed
  BY <1>1 DEF BreakpointInv, BreakpointTypes, Listed
<1>4. BreakpointSteps' /\ BreakpointReleases'
  BY <1>1, <1>3 DEF BreakpointInv, BreakpointSteps, BreakpointReleases
<1>. QED
  BY <1>1, <1>2, <1>3, <1>4 DEF BreakpointInv

\* Steps of the other parts.
LEMMA BreakpointStutters == ASSUME BreakpointInv, UNCHANGED breakpointVars PROVE BreakpointInv'
<1>1. Listed' = Listed
  BY DEF Listed, breakpointVars
<1>2. BreakpointTypes' /\ BreakpointPhases'
  BY DEF BreakpointInv, BreakpointTypes, BreakpointPhases, breakpointVars
<1>3. BreakpointSteps' /\ BreakpointReleases'
  BY <1>1 DEF BreakpointInv, BreakpointSteps, BreakpointReleases, breakpointVars
<1>. QED
  BY <1>1, <1>2, <1>3 DEF BreakpointInv, breakpointVars

\* Every step of the breakpoints keeps the invariant.
LEMMA BreakpointStep == ASSUME BreakpointInv, Breakpoints!Next PROVE BreakpointInv'
  BY BreakpointCreate, BreakpointStopNext, BreakpointEnable, BreakpointDisable,
     BreakpointDestroy, BreakpointResume, BreakpointTrap, BreakpointRelease, BreakpointHit,
     BreakpointStepped, BreakpointGoesOn
  DEF Breakpoints!Next

\* The inductive invariant says all that BreakpointsSound does.
LEMMA BreakpointInvIsSound == ASSUME BreakpointInv PROVE Breakpoints!BreakpointsSound
<1>0. /\ BreakpointTypes /\ BreakpointPhases /\ RecordsOf(records, nextToken, nextBreakpoint)
      /\ EntriesOf(records, Listed) /\ StepsOf(records, stepToken)
      /\ BreakpointSteps /\ BreakpointReleases
  BY DEF BreakpointInv
<1>1. Breakpoints!TypeOK
  <2>1. held = (phase = "held" /\ held)
    BY <1>0, Zenon DEF BreakpointPhases
  <2>2. phase \in {"run", "handler", "held"} /\ stepOwner \in Modules \union {None}
    BY <1>0 DEF BreakpointTypes, BreakpointPhases
  <2>3. \A i \in DOMAIN breakpoints : breakpoints[i] \in BreakpointEntries
    BY <1>0 DEF BreakpointTypes
  <2>. QED
    BY <2>1, <2>2, <2>3, Zenon DEF BreakpointEntries, Breakpoints!TypeOK
<1>2. Breakpoints!AdapterAgrees
  BY <1>0 DEF BreakpointTypes, Breakpoints!AdapterAgrees
<1>3. \A m : Breakpoints!Entries(m) = {e \in Listed : e.owner = m}
  BY DEF Breakpoints!Entries, Breakpoints!ToSet, Listed
<1>4. Breakpoints!NoOwnerReleased
  BY <1>0, <1>3 DEF BreakpointReleases, Breakpoints!NoOwnerReleased
<1>5. ASSUME NEW m \in Modules, ~gone[m]
      PROVE  /\ Breakpoints!Entries(m)
                   = {Breakpoints!Entry(m, t, records[m][t].id, records[m][t].processor) :
                         t \in {x \in DOMAIN records[m] : records[m][x].id # 0}}
             /\ stepToken[m] # 0 => stepToken[m] \in DOMAIN records[m]
             /\ stepOwner = m => stepToken[m] # 0 /\ stepHandler = stepToken[m]
  <2>1. stepToken[m] # 0 => stepToken[m] \in DOMAIN records[m]
    BY <1>0 DEF StepsOf
  <2>2. stepOwner = m => stepToken[m] # 0 /\ stepHandler = stepToken[m]
    BY <1>0 DEF BreakpointSteps
  <2>. DEFINE enabledOnes == {x \in DOMAIN records[m] : records[m][x].id # 0}
              entryOf(t) == Breakpoints!Entry(m, t, records[m][t].id, records[m][t].processor)
  <2>3. ASSUME NEW e \in Listed, e.owner = m
        PROVE  \E t \in enabledOnes : e = entryOf(t)
    <3>1. e \in BreakpointEntries /\ e.handler \in DOMAIN records[m]
          /\ records[m][e.handler].id = e.id /\ records[m][e.handler].processor = e.processor
      BY <1>0, <2>3 DEF EntriesOf
    <3>2. e.id # 0
          /\ e = [id |-> e.id, owner |-> e.owner, handler |-> e.handler, processor |-> e.processor]
      BY <3>1, BreakpointConstants DEF BreakpointEntries
    <3>3. e.handler \in enabledOnes /\ e = entryOf(e.handler)
      BY <2>3, <3>1, <3>2 DEF Breakpoints!Entry
    <3>. QED
      BY <3>3
  <2>4. ASSUME NEW t \in enabledOnes
        PROVE  entryOf(t) \in Listed /\ entryOf(t).owner = m
    BY <1>0 DEF EntriesOf, Breakpoints!Entry
  <2>5. {e \in Listed : e.owner = m} = {entryOf(t) : t \in enabledOnes}
    <3>. HIDE DEF enabledOnes, entryOf
    <3>. QED
      BY <2>3, <2>4
  <2>. QED
    BY <1>3, <2>1, <2>2, <2>5
<1>6. Breakpoints!RecordsAgree
  BY <1>5 DEF Breakpoints!RecordsAgree
<1>. QED
  BY <1>1, <1>2, <1>4, <1>6 DEF Breakpoints!BreakpointsSound

\* Whatever modules do with breakpoints and steps, and whenever one traps or is released: the
\* host lists exactly the enabled records of the modules that live, the adapter has that list
\* and the host's step, and nothing in either is of a module that was released
\* (breakpoint.cpp of the SDK, breakpoints.cpp of the host).
THEOREM BreakpointsAreSound == Spec => []BreakpointsSound
<1>1. Init => BreakpointInv
  BY BreakpointInitially DEF Init
<1>2. BreakpointInv /\ [Next]_vars => BreakpointInv'
  <2>1. ASSUME BreakpointInv, BreakpointsNext PROVE BreakpointInv'
    BY <2>1, BreakpointStep DEF BreakpointsNext
  <2>2. ASSUME BreakpointInv, Next, ~BreakpointsNext PROVE UNCHANGED breakpointVars
    BY <2>2 DEF Next, TexturesNext, DatagramNext, PatchesNext, CoroutineNext, TimersNext,
       ListenersNext, LibcHeapNext, StdioNext, PacketsNext, GraphNext
  <2>. QED
    BY <2>1, <2>2, BreakpointStutters DEF vars
<1>3. BreakpointInv => BreakpointsSound
  BY BreakpointInvIsSound DEF BreakpointsSound
<1>. QED
  BY <1>1, <1>2, <1>3, PTL DEF Spec

-----------------------------------------------------------------------------
(* Coroutines                                                                *)

\* The sizes, the finite sets and the elements of a list that pass a test, as Coroutine takes
\* them.
LEMMA CoroutineCardinality == \A S : Coroutine!Cardinality(S) = Cardinality(S)
  BY Zenon DEF Coroutine!Cardinality, Cardinality

LEMMA CoroutineFinite == \A S : Coroutine!IsFiniteSet(S) <=> IsFiniteSet(S)
  BY Zenon DEF Coroutine!IsFiniteSet, IsFiniteSet

LEMMA CoroutineNth == \A K, i : Coroutine!Nth(K, i) = Nth(K, i)
  BY CoroutineCardinality, Zenon DEF Coroutine!Nth, Nth

LEMMA CoroutinePicked == \A s, K : Coroutine!Picked(s, K) = Picked(s, K)
  BY CoroutineCardinality, CoroutineNth, Zenon DEF Coroutine!Picked, Picked

\* What the wait w is taken out of.
Without(s, w) == Coroutine!Filter(s, LAMBDA d : d # w)

\* It is left with the others.
LEMMA WithoutOf ==
    ASSUME NEW s \in Seq(Nat), NEW w
    PROVE  /\ Without(s, w) \in Seq(Nat)
           /\ Coroutine!ToSet(Without(s, w)) = Coroutine!ToSet(s) \ {w}
           /\ s = <<>> => Without(s, w) = <<>>
<1>. DEFINE K == {i \in 1..Len(s) : s[i] # w}
<1>1. Without(s, w) = Picked(s, K)
  BY CoroutinePicked DEF Without, Coroutine!Filter
<1>2. K \in SUBSET (1..Len(s))
  OBVIOUS
<1>7. s = <<>> => K = {}
  OBVIOUS
<1>8. s = <<>> => Without(s, w) = <<>>
  BY <1>1, <1>7, PickedNone
<1>. HIDE DEF K
<1>3. Picked(s, K) \in Seq(Nat)
  BY <1>2, PickedOf
<1>4. {Picked(s, K)[i] : i \in 1..Len(Picked(s, K))} = {s[k] : k \in K}
  BY <1>2, PickedRange
<1>5. DOMAIN Picked(s, K) = 1..Len(Picked(s, K)) /\ DOMAIN s = 1..Len(s)
  BY <1>3
<1>6. {s[k] : k \in K} = {s[i] : i \in 1..Len(s)} \ {w}
  BY DEF K
<1>. QED
  BY <1>1, <1>3, <1>4, <1>5, <1>6, <1>8 DEF Coroutine!ToSet

\* The elements of a list with one more, of the rest of a list, of one without its last.
LEMMA ElementsAppended ==
    ASSUME NEW S, NEW s \in Seq(S), NEW e \in S
    PROVE  /\ Append(s, e) \in Seq(S)
           /\ Coroutine!ToSet(Append(s, e)) = Coroutine!ToSet(s) \union {e}
<1>1. /\ Append(s, e) \in Seq(S) /\ DOMAIN s = 1..Len(s)
      /\ DOMAIN Append(s, e) = 1..(Len(s) + 1) /\ Len(s) \in Nat
      /\ Append(s, e)[Len(s) + 1] = e /\ \A i \in 1..Len(s) : Append(s, e)[i] = s[i]
  OBVIOUS
<1>. QED
  BY <1>1 DEF Coroutine!ToSet

LEMMA ElementsOfTail ==
    ASSUME NEW S, NEW s \in Seq(S), s # <<>>
    PROVE  /\ Tail(s) \in Seq(S) /\ s[1] \in S
           /\ Coroutine!ToSet(s) = Coroutine!ToSet(Tail(s)) \union {s[1]}
<1>1. /\ Tail(s) \in Seq(S) /\ s[1] \in S /\ Len(s) \in Nat /\ Len(s) > 0
      /\ DOMAIN s = 1..Len(s) /\ DOMAIN Tail(s) = 1..(Len(s) - 1)
      /\ \A i \in 1..(Len(s) - 1) : Tail(s)[i] = s[i + 1]
  OBVIOUS
<1>2. \A i \in 1..Len(s) : i = 1 \/ (i - 1 \in 1..(Len(s) - 1) /\ (i - 1) + 1 = i)
  BY <1>1
<1>3. \A i \in 1..(Len(s) - 1) : i + 1 \in 1..Len(s)
  BY <1>1
<1>4. 1 \in 1..Len(s)
  BY <1>1
<1>5. \A i \in 1..Len(s) : i = 1 \/ (i - 1 \in 1..(Len(s) - 1) /\ Tail(s)[i - 1] = s[i])
  BY <1>1, <1>2
<1>6. \A i \in 1..Len(s) : s[i] \in Coroutine!ToSet(Tail(s)) \union {s[1]}
  BY <1>1, <1>5 DEF Coroutine!ToSet
<1>7. \A i \in 1..(Len(s) - 1) : Tail(s)[i] \in Coroutine!ToSet(s)
  BY <1>1, <1>3 DEF Coroutine!ToSet
<1>8. s[1] \in Coroutine!ToSet(s)
  BY <1>1, <1>4 DEF Coroutine!ToSet
<1>9. /\ Coroutine!ToSet(Tail(s)) \subseteq Coroutine!ToSet(s)
      /\ Coroutine!ToSet(s) \subseteq Coroutine!ToSet(Tail(s)) \union {s[1]}
  BY <1>1, <1>6, <1>7 DEF Coroutine!ToSet
<1>. QED
  BY <1>1, <1>8, <1>9

LEMMA ElementsOfFront ==
    ASSUME NEW S, NEW s \in Seq(S), s # <<>>, Coroutine!IsInjective(s)
    PROVE  /\ Coroutine!Front(s) \in Seq(S) /\ Coroutine!Last(s) \in S
           /\ Coroutine!IsInjective(Coroutine!Front(s))
           /\ Coroutine!ToSet(Coroutine!Front(s)) = Coroutine!ToSet(s) \ {Coroutine!Last(s)}
           /\ Coroutine!Last(s) \in Coroutine!ToSet(s)
<1>1. PICK n \in Nat : n = Len(s) /\ n # 0
  OBVIOUS
<1>2. Coroutine!Front(s) = SubSeq(s, 1, n - 1) /\ Coroutine!Last(s) = s[n]
  BY <1>1 DEF Coroutine!Front, Coroutine!Last
<1>3. /\ DOMAIN s = 1..n /\ s[n] \in S
      /\ SubSeq(s, 1, n - 1) \in Seq(S) /\ DOMAIN SubSeq(s, 1, n - 1) = 1..(n - 1)
      /\ \A i \in 1..(n - 1) : SubSeq(s, 1, n - 1)[i] = s[i]
  BY <1>1
<1>4. \A i, j \in 1..n : s[i] = s[j] => i = j
  BY <1>3 DEF Coroutine!IsInjective
<1>5. \A i \in 1..(n - 1) : i \in 1..n /\ i # n
  BY <1>1
<1>6. \A i \in 1..n : i = n \/ i \in 1..(n - 1)
  BY <1>1
<1>7. n \in 1..n
  BY <1>1
<1>8. Coroutine!IsInjective(Coroutine!Front(s))
  BY <1>2, <1>3, <1>4, <1>5 DEF Coroutine!IsInjective
<1>9. Coroutine!ToSet(s) = {s[i] : i \in 1..n}
  BY <1>3 DEF Coroutine!ToSet
<1>10. Coroutine!ToSet(Coroutine!Front(s)) = {s[i] : i \in 1..(n - 1)}
  BY <1>2, <1>3 DEF Coroutine!ToSet
<1>11. {s[i] : i \in 1..(n - 1)} = {s[i] : i \in 1..n} \ {s[n]}
  BY <1>4, <1>5, <1>6, <1>7
<1>. QED
  BY <1>2, <1>3, <1>7, <1>8, <1>9, <1>10, <1>11

\* One more in a list without repetitions.
LEMMA InjectiveAppended ==
    ASSUME NEW S, NEW s \in Seq(S), NEW e \in S, Coroutine!IsInjective(s),
           e \notin Coroutine!ToSet(s)
    PROVE  Coroutine!IsInjective(Append(s, e))
<1>1. /\ DOMAIN s = 1..Len(s)
      /\ DOMAIN Append(s, e) = 1..(Len(s) + 1) /\ Len(s) \in Nat
      /\ Append(s, e)[Len(s) + 1] = e /\ \A i \in 1..Len(s) : Append(s, e)[i] = s[i]
  OBVIOUS
<1>2. \A i \in 1..(Len(s) + 1) : i = Len(s) + 1 \/ i \in 1..Len(s)
  BY <1>1
<1>. QED
  BY <1>1, <1>2 DEF Coroutine!ToSet, Coroutine!IsInjective

\* A queue with what Make_Ready may add to it.
LEMMA ReadiedOf ==
    ASSUME NEW q \in Seq(Coroutine!Handles), NEW h \in Coroutine!Handles, NEW cs, NEW s
    PROVE  /\ Coroutine!Readied(q, h, cs, s) \in Seq(Coroutine!Handles)
           /\ Coroutine!ToSet(q) \subseteq Coroutine!ToSet(Coroutine!Readied(q, h, cs, s))
           /\ s # "pending" /\ cs # <<>> => h \in Coroutine!ToSet(Coroutine!Readied(q, h, cs, s))
           /\ Coroutine!ToSet(Coroutine!Readied(q, h, cs, s)) \subseteq Coroutine!ToSet(q) \union {h}
<1>1. CASE s = "pending" \/ cs = <<>> \/ h \in Coroutine!ToSet(q)
  BY <1>1 DEF Coroutine!Readied
<1>2. CASE ~(s = "pending" \/ cs = <<>> \/ h \in Coroutine!ToSet(q))
  <2>1. Coroutine!Readied(q, h, cs, s) = Append(q, h)
    BY <1>2 DEF Coroutine!Readied
  <2>. QED
    BY <1>2, <2>1, ElementsAppended
<1>. QED
  BY <1>1, <1>2

-----------------------------------------------------------------------------

CoroutineWaits ==
    [awaited : Coroutine!Handles, owner : Coroutines, propagate : BOOLEAN, holds : BOOLEAN]

CoroutineTypes ==
    /\ state \in [Coroutine!Handles -> {"pending", "fulfilled", "rejected"}]
    /\ conts \in [Coroutine!Handles -> Seq(Nat)]
    /\ \A h \in Coroutine!Handles : Coroutine!ToSet(conts[h]) \subseteq DOMAIN waits
    /\ ready \in Seq(Coroutine!Handles)
    /\ frame \in [Coroutines -> {"none", "running", "suspended", "ended", "destroyed"}]
    /\ waits \in Seq(CoroutineWaits)
    /\ running \in Seq(Coroutines) /\ stopping \in BOOLEAN

\* A suspended frame is held by one record, and no other frame by any.
CoroutineHolders ==
    /\ \A w \in DOMAIN waits : waits[w].holds => frame[waits[w].owner] = "suspended"
    /\ \A c \in Coroutines : frame[c] = "suspended" =>
          \E w \in DOMAIN waits : waits[w].owner = c /\ waits[w].holds
    /\ \A v, w \in DOMAIN waits :
          waits[v].holds /\ waits[w].holds /\ waits[v].owner = waits[w].owner => v = w

CoroutineStack ==
    /\ Coroutine!IsInjective(running)
    /\ \A c \in Coroutines : frame[c] = "running" <=> c \in Coroutine!ToSet(running)

\* A promise has the continuations of the records that hold a frame and wait for it, and a
\* settled one is queued for them.
CoroutineReached ==
    \A w \in DOMAIN waits, h \in Coroutine!Handles :
        waits[w].holds /\ h \in {waits[w].awaited, waits[w].owner}
           <=> w \in Coroutine!ToSet(conts[h])
CoroutineQueued ==
    \A h \in Coroutine!Handles :
        state[h] # "pending" /\ conts[h] # <<>> => h \in Coroutine!ToSet(ready)

\* Whatever is over has answered, and so has everything after the shutdown.
CoroutineAnswers ==
    /\ \A c \in Coroutines : frame[c] \in {"ended", "destroyed"} => state[c] # "pending"
    /\ stopping => \A h \in Coroutine!Handles : state[h] # "pending"

CoroutineInv ==
    /\ CoroutineTypes /\ CoroutineHolders /\ CoroutineStack /\ CoroutineReached
    /\ CoroutineQueued /\ CoroutineAnswers

\* The result of a coroutine is a promise.
LEMMA ResultsArePromises == Coroutines \subseteq Coroutine!Handles
  BY DEF Coroutine!Handles

\* What a record of the waits says.
LEMMA WaitsOf ==
    ASSUME CoroutineTypes, NEW w \in DOMAIN waits
    PROVE  /\ waits[w].owner \in Coroutines /\ waits[w].owner \in Coroutine!Handles
           /\ waits[w].awaited \in Coroutine!Handles
           /\ waits[w].propagate \in BOOLEAN /\ waits[w].holds \in BOOLEAN
           /\ w \in Nat
<1>1. waits[w] \in CoroutineWaits /\ w \in Nat
  BY DEF CoroutineTypes
<1>. QED
  BY <1>1, ResultsArePromises DEF CoroutineWaits

\* Nothing has been awaited.
LEMMA CoroutineInitially == Coroutine!Init => CoroutineInv
<1>. SUFFICES ASSUME Coroutine!Init PROVE CoroutineInv
  OBVIOUS
<1>1. DOMAIN waits = {} /\ waits = <<>> /\ ready = <<>> /\ running = <<>>
  BY DEF Coroutine!Init
<1>2. CoroutineTypes
  <2>1. conts \in [Coroutine!Handles -> Seq(Nat)]
    BY DEF Coroutine!Init
  <2>2. \A h \in Coroutine!Handles : Coroutine!ToSet(conts[h]) = {}
    BY DEF Coroutine!Init, Coroutine!ToSet
  <2>3. /\ waits \in Seq(CoroutineWaits) /\ running \in Seq(Coroutines)
        /\ ready \in Seq(Coroutine!Handles)
    BY <1>1
  <2>. QED
    BY <2>1, <2>2, <2>3 DEF Coroutine!Init, CoroutineTypes
<1>3. CoroutineHolders /\ CoroutineReached /\ CoroutineQueued
  BY <1>1 DEF Coroutine!Init, CoroutineHolders, CoroutineReached, CoroutineQueued
<1>4. CoroutineStack
  BY <1>1 DEF Coroutine!Init, CoroutineStack, Coroutine!IsInjective, Coroutine!ToSet
<1>5. CoroutineAnswers
  BY DEF Coroutine!Init, CoroutineAnswers
<1>. QED
  BY <1>2, <1>3, <1>4, <1>5 DEF CoroutineInv

\* Others' steps.
LEMMA CoroutineStutters == ASSUME CoroutineInv, UNCHANGED coroutineVars PROVE CoroutineInv'
  BY DEF CoroutineInv, CoroutineTypes, CoroutineHolders, CoroutineStack, CoroutineReached,
     CoroutineQueued, CoroutineAnswers, coroutineVars

\* A promise is settled by whoever has it.
LEMMA CoroutineSettle ==
    ASSUME CoroutineInv, NEW h \in Coroutine!Handles, NEW s \in {"fulfilled", "rejected"},
           Coroutine!Settle(h, s)
    PROVE  CoroutineInv'
<1>1. /\ state' = [state EXCEPT ![h] = IF @ = "pending" THEN s ELSE @]
      /\ ready' = Coroutine!Readied(ready, h, conts[h], "settled")
      /\ UNCHANGED <<conts, frame, waits, running, stopping>>
  BY DEF Coroutine!Settle, Coroutine!Settled
<1>2. CoroutineTypes /\ ready \in Seq(Coroutine!Handles)
  BY DEF CoroutineInv, CoroutineTypes
<1>3. /\ ready' \in Seq(Coroutine!Handles)
      /\ Coroutine!ToSet(ready) \subseteq Coroutine!ToSet(ready')
      /\ conts[h] # <<>> => h \in Coroutine!ToSet(ready')
  BY <1>1, <1>2, ReadiedOf
<1>4. CoroutineTypes'
  BY <1>1, <1>2, <1>3 DEF CoroutineTypes
<1>5. CoroutineHolders' /\ CoroutineStack' /\ CoroutineReached'
  BY <1>1 DEF CoroutineInv, CoroutineHolders, CoroutineStack, CoroutineReached
<1>6. \A p \in Coroutine!Handles : p # h => state'[p] = state[p]
  BY <1>1, <1>2 DEF CoroutineTypes
<1>7. \A p \in Coroutine!Handles : state[p] # "pending" => state'[p] # "pending"
  BY <1>1, <1>2 DEF CoroutineTypes
<1>8. CoroutineQueued'
  BY <1>1, <1>3, <1>6 DEF CoroutineInv, CoroutineQueued
<1>9. CoroutineAnswers'
  BY <1>1, <1>7, ResultsArePromises DEF CoroutineInv, CoroutineAnswers
<1>. QED
  BY <1>4, <1>5, <1>8, <1>9 DEF CoroutineInv

\* A coroutine is called.
LEMMA CoroutineStart ==
    ASSUME CoroutineInv, NEW c \in Coroutines, Coroutine!Start(c)
    PROVE  CoroutineInv'
<1>1. /\ frame[c] = "none" /\ frame' = [frame EXCEPT ![c] = "running"]
      /\ running' = Append(running, c)
      /\ UNCHANGED <<state, conts, ready, waits, stopping>>
  BY DEF Coroutine!Start
<1>2. CoroutineTypes /\ running \in Seq(Coroutines) /\ CoroutineStack
  BY DEF CoroutineInv, CoroutineTypes
<1>3. c \notin Coroutine!ToSet(running) /\ Coroutine!IsInjective(running)
  BY <1>1, <1>2 DEF CoroutineStack
<1>4. /\ running' \in Seq(Coroutines)
      /\ Coroutine!ToSet(running') = Coroutine!ToSet(running) \union {c}
      /\ Coroutine!IsInjective(running')
  BY <1>1, <1>2, <1>3, ElementsAppended, InjectiveAppended
<1>5. CoroutineTypes'
  BY <1>1, <1>2, <1>4 DEF CoroutineTypes
<1>6. frame'[c] = "running" /\ \A d \in Coroutines : d # c => frame'[d] = frame[d]
  BY <1>1, <1>2 DEF CoroutineTypes
<1>7. \A w \in DOMAIN waits : waits[w].owner \in Coroutines
  BY <1>2, WaitsOf
<1>8. CoroutineHolders'
  BY <1>1, <1>6, <1>7 DEF CoroutineInv, CoroutineHolders
<1>9. CoroutineStack'
  BY <1>4, <1>6 DEF CoroutineInv, CoroutineStack
<1>10. CoroutineReached' /\ CoroutineQueued' /\ CoroutineAnswers'
  BY <1>1, <1>6 DEF CoroutineInv, CoroutineReached, CoroutineQueued, CoroutineAnswers
<1>. QED
  BY <1>5, <1>8, <1>9, <1>10 DEF CoroutineInv

\* The innermost frame: it runs, and no record holds it.
LEMMA InnermostFrame ==
    ASSUME CoroutineInv, running # <<>>
    PROVE  LET c == Coroutine!Last(running) IN
           /\ c \in Coroutines /\ c \in Coroutine!Handles /\ frame[c] = "running"
           /\ \A w \in DOMAIN waits : waits[w].holds => waits[w].owner # c
           /\ Coroutine!Front(running) \in Seq(Coroutines)
           /\ Coroutine!IsInjective(Coroutine!Front(running))
           /\ Coroutine!ToSet(Coroutine!Front(running)) = Coroutine!ToSet(running) \ {c}
<1>1. running \in Seq(Coroutines) /\ Coroutine!IsInjective(running)
  BY DEF CoroutineInv, CoroutineTypes, CoroutineStack
<1>2. /\ Coroutine!Last(running) \in Coroutines
      /\ Coroutine!Last(running) \in Coroutine!ToSet(running)
      /\ Coroutine!Front(running) \in Seq(Coroutines)
      /\ Coroutine!IsInjective(Coroutine!Front(running))
      /\ Coroutine!ToSet(Coroutine!Front(running))
            = Coroutine!ToSet(running) \ {Coroutine!Last(running)}
  BY <1>1, ElementsOfFront
<1>3. frame[Coroutine!Last(running)] = "running"
  BY <1>2 DEF CoroutineInv, CoroutineStack
<1>4. \A w \in DOMAIN waits : waits[w].holds => frame[waits[w].owner] = "suspended"
  BY DEF CoroutineInv, CoroutineHolders
<1>. QED
  BY <1>2, <1>3, <1>4, ResultsArePromises

\* A frame awaits a promise, and both the promise and its result get a continuation.
LEMMA CoroutineAwait ==
    ASSUME CoroutineInv, NEW h \in Coroutine!Handles, NEW propagate \in BOOLEAN,
           Coroutine!Await(h, propagate)
    PROVE  CoroutineInv'
<1>1. PICK c, w, cs :
      /\ c = Coroutine!Last(running) /\ w = Len(waits) + 1
      /\ cs = [p \in Coroutine!Handles |->
                 IF p \in {h, c} THEN Append(conts[p], w) ELSE conts[p]]
  OBVIOUS
<1>2. /\ running # <<>> /\ h # c /\ ~stopping
      /\ waits' = Append(waits, [awaited |-> h, owner |-> c, propagate |-> propagate,
                                 holds |-> TRUE])
      /\ conts' = cs
      /\ ready' = Coroutine!Registered(cs, c, h)
      /\ frame' = [frame EXCEPT ![c] = "suspended"]
      /\ running' = Coroutine!Front(running)
      /\ UNCHANGED <<state, stopping>>
  BY <1>1 DEF Coroutine!Await, Coroutine!Awaits
<1>3. /\ c \in Coroutines /\ c \in Coroutine!Handles /\ frame[c] = "running"
      /\ \A v \in DOMAIN waits : waits[v].holds => waits[v].owner # c
      /\ running' \in Seq(Coroutines)
      /\ Coroutine!IsInjective(running')
      /\ Coroutine!ToSet(running') = Coroutine!ToSet(running) \ {c}
  BY <1>1, <1>2, InnermostFrame
<1>4. /\ CoroutineTypes /\ CoroutineHolders /\ CoroutineStack /\ CoroutineReached
      /\ CoroutineQueued /\ CoroutineAnswers
  BY DEF CoroutineInv
<1>5. PICK r \in CoroutineWaits :
        r = [awaited |-> h, owner |-> c, propagate |-> propagate, holds |-> TRUE]
  BY <1>3 DEF CoroutineWaits
<1>6. r.awaited = h /\ r.owner = c /\ r.holds
  BY <1>5
<1>7. waits \in Seq(CoroutineWaits) /\ w \in Nat /\ DOMAIN waits = 1..(w - 1)
  BY <1>1, <1>4 DEF CoroutineTypes
<1>8. /\ waits' \in Seq(CoroutineWaits) /\ DOMAIN waits' = 1..w /\ waits'[w] = r
      /\ \A v \in 1..(w - 1) : waits'[v] = waits[v]
  BY <1>1, <1>2, <1>5, <1>7
<1>9. \A v \in DOMAIN waits' : v = w \/ (v \in DOMAIN waits /\ v # w)
  BY <1>7, <1>8
<1>10. DOMAIN waits \subseteq DOMAIN waits' /\ w \in DOMAIN waits' /\ w \notin DOMAIN waits
  BY <1>1, <1>7, <1>8
<1>11. ASSUME NEW p \in Coroutine!Handles
       PROVE  /\ conts'[p] \in Seq(Nat)
              /\ p \in {h, c} => /\ Coroutine!ToSet(conts'[p]) = Coroutine!ToSet(conts[p]) \union {w}
                                 /\ conts'[p] # <<>>
              /\ p \notin {h, c} => conts'[p] = conts[p]
  <2>1. conts[p] \in Seq(Nat) /\ conts'[p] = IF p \in {h, c} THEN Append(conts[p], w) ELSE conts[p]
    BY <1>1, <1>2, <1>4 DEF CoroutineTypes
  <2>2. /\ Append(conts[p], w) \in Seq(Nat)
        /\ Coroutine!ToSet(Append(conts[p], w)) = Coroutine!ToSet(conts[p]) \union {w}
    BY <1>7, <2>1, ElementsAppended
  <2>3. Append(conts[p], w) # <<>>
    <3>1. w \in Coroutine!ToSet(Append(conts[p], w))
      BY <2>2
    <3>. QED
      BY <3>1 DEF Coroutine!ToSet
  <2>. QED
    BY <2>1, <2>2, <2>3
<1>12. /\ ready' \in Seq(Coroutine!Handles)
       /\ Coroutine!ToSet(ready) \subseteq Coroutine!ToSet(ready')
       /\ \A p \in {h, c} : state[p] # "pending" => p \in Coroutine!ToSet(ready')
  <2>1. PICK q : q = Coroutine!Readied(ready, h, cs[h], state[h])
    OBVIOUS
  <2>2. ready' = Coroutine!Readied(q, c, cs[c], state[c])
    BY <1>2, <2>1 DEF Coroutine!Registered
  <2>3. cs[h] # <<>> /\ cs[c] # <<>>
    BY <1>2, <1>3, <1>11
  <2>4. /\ q \in Seq(Coroutine!Handles)
        /\ Coroutine!ToSet(ready) \subseteq Coroutine!ToSet(q)
        /\ state[h] # "pending" => h \in Coroutine!ToSet(q)
    BY <1>4, <2>1, <2>3, ReadiedOf DEF CoroutineTypes
  <2>5. /\ ready' \in Seq(Coroutine!Handles)
        /\ Coroutine!ToSet(q) \subseteq Coroutine!ToSet(ready')
        /\ state[c] # "pending" => c \in Coroutine!ToSet(ready')
    BY <1>3, <2>2, <2>3, <2>4, ReadiedOf
  <2>. QED
    BY <2>4, <2>5
<1>13. frame'[c] = "suspended" /\ \A d \in Coroutines : d # c => frame'[d] = frame[d]
  BY <1>2, <1>3, <1>4 DEF CoroutineTypes
<1>14. CoroutineTypes'
  <2>1. conts' \in [Coroutine!Handles -> Seq(Nat)]
    BY <1>1, <1>2, <1>11
  <2>2. ASSUME NEW p \in Coroutine!Handles
        PROVE  Coroutine!ToSet(conts'[p]) \subseteq DOMAIN waits'
    <3>1. Coroutine!ToSet(conts[p]) \subseteq DOMAIN waits
      BY <1>4 DEF CoroutineTypes
    <3>2. Coroutine!ToSet(conts'[p]) \subseteq Coroutine!ToSet(conts[p]) \union {w}
      BY <1>11
    <3>. QED
      BY <1>10, <3>1, <3>2
  <2>3. frame' \in [Coroutines -> {"none", "running", "suspended", "ended", "destroyed"}]
    BY <1>2, <1>4 DEF CoroutineTypes
  <2>. QED
    BY <1>2, <1>3, <1>4, <1>8, <1>12, <2>1, <2>2, <2>3 DEF CoroutineTypes
<1>15. \A v \in DOMAIN waits : waits[v].owner \in Coroutines /\ waits'[v] = waits[v]
  BY <1>4, <1>7, <1>8, WaitsOf
<1>16. CoroutineHolders'
  <2>1. \A v \in DOMAIN waits' : waits'[v].holds => frame'[waits'[v].owner] = "suspended"
    BY <1>3, <1>4, <1>6, <1>8, <1>9, <1>13, <1>15 DEF CoroutineHolders
  <2>2. ASSUME NEW d \in Coroutines, frame'[d] = "suspended"
        PROVE  \E v \in DOMAIN waits' : waits'[v].owner = d /\ waits'[v].holds
    <3>1. CASE d = c
      BY <1>6, <1>8, <1>10, <3>1
    <3>2. CASE d # c
      <4>1. PICK v \in DOMAIN waits : waits[v].owner = d /\ waits[v].holds
        BY <1>4, <1>13, <2>2, <3>2 DEF CoroutineHolders
      <4>. QED
        BY <1>10, <1>15, <4>1
    <3>. QED
      BY <3>1, <3>2
  <2>3. ASSUME NEW v \in DOMAIN waits', NEW u \in DOMAIN waits',
               waits'[v].holds, waits'[u].holds, waits'[v].owner = waits'[u].owner
        PROVE  v = u
    <3>1. CASE v \in DOMAIN waits /\ u \in DOMAIN waits
      BY <1>4, <1>15, <2>3, <3>1 DEF CoroutineHolders
    <3>2. \A x \in DOMAIN waits : waits[x].holds => waits'[x].owner # c
      BY <1>3, <1>15
    <3>. QED
      BY <1>6, <1>8, <1>9, <1>15, <2>3, <3>1, <3>2
  <2>. QED
    BY <2>1, <2>2, <2>3 DEF CoroutineHolders
<1>17. CoroutineStack'
  BY <1>3, <1>4, <1>13 DEF CoroutineStack
<1>18. CoroutineReached'
  <2>1. ASSUME NEW v \in DOMAIN waits', NEW p \in Coroutine!Handles
        PROVE  waits'[v].holds /\ p \in {waits'[v].awaited, waits'[v].owner}
                  <=> v \in Coroutine!ToSet(conts'[p])
    <3>1. CASE v = w
      <4>1. w \notin Coroutine!ToSet(conts[p])
        BY <1>4, <1>10 DEF CoroutineTypes
      <4>. QED
        BY <1>6, <1>8, <1>11, <3>1, <4>1
    <3>2. CASE v # w /\ v \in DOMAIN waits
      <4>1. waits[v].holds /\ p \in {waits[v].awaited, waits[v].owner}
               <=> v \in Coroutine!ToSet(conts[p])
        BY <1>4, <3>2 DEF CoroutineReached
      <4>. QED
        BY <1>11, <1>15, <3>2, <4>1
    <3>. QED
      BY <1>9, <3>1, <3>2
  <2>. QED
    BY <2>1 DEF CoroutineReached
<1>19. CoroutineQueued'
  BY <1>2, <1>4, <1>11, <1>12 DEF CoroutineQueued
<1>20. CoroutineAnswers'
  BY <1>2, <1>4, <1>13 DEF CoroutineAnswers
<1>. QED
  BY <1>14, <1>16, <1>17, <1>18, <1>19, <1>20 DEF CoroutineInv

\* The innermost frame is over, with an answer that may be new; continuations and records stay.
LEMMA FrameIsOver ==
    ASSUME CoroutineInv, running # <<>>, NEW e \in {"ended", "destroyed"},
           NEW a \in {"fulfilled", "rejected"}, NEW c, c = Coroutine!Last(running),
           state' = [state EXCEPT ![c] = IF @ = "pending" THEN a ELSE @],
           frame' = [frame EXCEPT ![c] = e],
           running' = Coroutine!Front(running),
           UNCHANGED <<conts, waits, stopping>>,
           ready' \in Seq(Coroutine!Handles),
           Coroutine!ToSet(ready) \subseteq Coroutine!ToSet(ready'),
           conts[c] # <<>> => c \in Coroutine!ToSet(ready')
    PROVE  CoroutineInv'
<1>1. /\ c \in Coroutines /\ c \in Coroutine!Handles /\ frame[c] = "running"
      /\ \A v \in DOMAIN waits : waits[v].holds => waits[v].owner # c
      /\ running' \in Seq(Coroutines)
      /\ Coroutine!IsInjective(running')
      /\ Coroutine!ToSet(running') = Coroutine!ToSet(running) \ {c}
  BY InnermostFrame
<1>2. /\ CoroutineTypes /\ CoroutineHolders /\ CoroutineStack /\ CoroutineReached
      /\ CoroutineQueued /\ CoroutineAnswers
  BY DEF CoroutineInv
<1>3. frame'[c] = e /\ \A d \in Coroutines : d # c => frame'[d] = frame[d]
  BY <1>1, <1>2 DEF CoroutineTypes
<1>4. /\ state'[c] # "pending"
      /\ \A p \in Coroutine!Handles : p # c => state'[p] = state[p]
  BY <1>1, <1>2 DEF CoroutineTypes
<1>5. CoroutineTypes'
  <2>1. state' \in [Coroutine!Handles -> {"pending", "fulfilled", "rejected"}]
    BY <1>2 DEF CoroutineTypes
  <2>2. frame' \in [Coroutines -> {"none", "running", "suspended", "ended", "destroyed"}]
    BY <1>2 DEF CoroutineTypes
  <2>. QED
    BY <1>1, <1>2, <2>1, <2>2 DEF CoroutineTypes
<1>6. \A v \in DOMAIN waits : waits[v].owner \in Coroutines
  BY <1>2, WaitsOf
<1>7. CoroutineHolders'
  BY <1>1, <1>2, <1>3, <1>6 DEF CoroutineHolders
<1>8. CoroutineStack'
  BY <1>1, <1>2, <1>3 DEF CoroutineStack
<1>9. CoroutineReached'
  BY <1>2 DEF CoroutineReached
<1>10. CoroutineQueued'
  BY <1>2, <1>4 DEF CoroutineQueued
<1>11. CoroutineAnswers'
  BY <1>2, <1>3, <1>4, ResultsArePromises DEF CoroutineAnswers
<1>. QED
  BY <1>5, <1>7, <1>8, <1>9, <1>10, <1>11 DEF CoroutineInv

\* There is no memory for a continuation: the result is rejected and the frame destroyed.
LEMMA CoroutineAwaitFails ==
    ASSUME CoroutineInv, NEW h \in Coroutine!Handles, NEW propagate \in BOOLEAN,
           NEW registered \in SUBSET Coroutine!Handles,
           Coroutine!AwaitFails(h, propagate, registered)
    PROVE  CoroutineInv'
<1>1. PICK c, w, cs :
      /\ c = Coroutine!Last(running) /\ w = Len(waits) + 1
      /\ cs = [p \in Coroutine!Handles |->
                 IF p \in registered THEN Append(conts[p], w) ELSE conts[p]]
  OBVIOUS
<1>2. /\ running # <<>>
      /\ state' = [state EXCEPT ![c] = IF @ = "pending" THEN "rejected" ELSE @]
      /\ ready' = Coroutine!Readied(Coroutine!Registered(cs, c, h), c, cs[c], "rejected")
      /\ frame' = [frame EXCEPT ![c] = "destroyed"]
      /\ running' = Coroutine!Front(running)
      /\ UNCHANGED <<conts, waits, stopping>>
  BY <1>1 DEF Coroutine!AwaitFails, Coroutine!Awaits
<1>3. c \in Coroutine!Handles /\ ready \in Seq(Coroutine!Handles)
  BY <1>1, <1>2, InnermostFrame DEF CoroutineInv, CoroutineTypes
<1>4. conts[c] # <<>> => cs[c] # <<>>
  <2>1. conts[c] \in Seq(Nat) /\ Len(waits) + 1 \in Nat
    BY <1>3 DEF CoroutineInv, CoroutineTypes
  <2>2. w \in Coroutine!ToSet(Append(conts[c], w))
    BY <1>1, <2>1, ElementsAppended
  <2>3. Append(conts[c], w) # <<>>
    BY <2>2 DEF Coroutine!ToSet
  <2>. QED
    BY <1>1, <1>3, <2>3
<1>5. PICK q : q = Coroutine!Readied(ready, h, cs[h], state[h])
  OBVIOUS
<1>6. PICK r : r = Coroutine!Readied(q, c, cs[c], state[c])
  OBVIOUS
<1>7. ready' = Coroutine!Readied(r, c, cs[c], "rejected")
  BY <1>2, <1>5, <1>6 DEF Coroutine!Registered
<1>8. q \in Seq(Coroutine!Handles) /\ Coroutine!ToSet(ready) \subseteq Coroutine!ToSet(q)
  BY <1>3, <1>5, ReadiedOf
<1>9. r \in Seq(Coroutine!Handles) /\ Coroutine!ToSet(q) \subseteq Coroutine!ToSet(r)
  BY <1>3, <1>6, <1>8, ReadiedOf
<1>10. /\ ready' \in Seq(Coroutine!Handles) /\ Coroutine!ToSet(r) \subseteq Coroutine!ToSet(ready')
       /\ cs[c] # <<>> => c \in Coroutine!ToSet(ready')
  BY <1>3, <1>7, <1>9, ReadiedOf
<1>. QED
  BY <1>1, <1>2, <1>4, <1>8, <1>9, <1>10, FrameIsOver

\* A coroutine returns.
LEMMA CoroutineReturn == ASSUME CoroutineInv, Coroutine!Return PROVE CoroutineInv'
<1>1. PICK c : c = Coroutine!Last(running)
  OBVIOUS
<1>2. /\ running # <<>>
      /\ state' = [state EXCEPT ![c] = IF @ = "pending" THEN "fulfilled" ELSE @]
      /\ ready' = Coroutine!Readied(ready, c, conts[c], "settled")
      /\ frame' = [frame EXCEPT ![c] = "ended"]
      /\ running' = Coroutine!Front(running)
      /\ UNCHANGED <<conts, waits, stopping>>
  BY <1>1 DEF Coroutine!Return, Coroutine!Settled
<1>3. c \in Coroutine!Handles /\ ready \in Seq(Coroutine!Handles)
  BY <1>1, <1>2, InnermostFrame DEF CoroutineInv, CoroutineTypes
<1>4. /\ ready' \in Seq(Coroutine!Handles)
      /\ Coroutine!ToSet(ready) \subseteq Coroutine!ToSet(ready')
      /\ conts[c] # <<>> => c \in Coroutine!ToSet(ready')
  BY <1>2, <1>3, ReadiedOf
<1>. QED
  BY <1>1, <1>2, <1>4, FrameIsOver

\* What remains of the continuations cs when the wait w of owner c for promise a is over.
LeftBy(c, a, w, cs) ==
    [p \in Coroutine!Handles |-> IF p \in {c, a} THEN Without(cs[p], w) ELSE cs[p]]

\* Finish of a record that holds the frame of c and waits for a.
Finished(c, a, pr, w, cs, q, st) ==
    /\ conts' = LeftBy(c, a, w, cs)
    /\ waits' = [waits EXCEPT ![w].holds = FALSE]
    /\ IF st[c] # "pending" \/ (pr /\ st[a] = "rejected")
       THEN /\ frame' = [frame EXCEPT ![c] = "destroyed"]
            /\ state' = IF st[c] # "pending" THEN st ELSE [st EXCEPT ![c] = "rejected"]
            /\ ready' = IF st[c] # "pending" THEN q
                        ELSE Coroutine!Readied(q, c, LeftBy(c, a, w, cs)[c], "rejected")
            /\ UNCHANGED running
       ELSE /\ frame' = [frame EXCEPT ![c] = "running"]
            /\ running' = Append(running, c)
            /\ state' = st /\ ready' = q

LEMMA FinishOf ==
    ASSUME NEW w, NEW cs, NEW q, NEW st, Coroutine!Finish(w, cs, q, st), waits[w].holds
    PROVE  Finished(waits[w].owner, waits[w].awaited, waits[w].propagate, w, cs, q, st)
  BY Zenon DEF Coroutine!Finish, Coroutine!Emptied, Without, LeftBy, Finished

\* A wait is over: its record loses the frame and both promises its continuation, and the frame
\* runs on or is destroyed with an answer.
LEMMA CoroutineFinish ==
    ASSUME CoroutineInv, NEW h \in Coroutine!Handles, conts[h] # <<>>,
           NEW w, w = conts[h][1],
           NEW cs, cs = [conts EXCEPT ![h] = Tail(@)],
           NEW q \in Seq(Coroutine!Handles),
           \A p \in Coroutine!ToSet(ready) : p # h => p \in Coroutine!ToSet(q),
           state[h] # "pending" /\ cs[h] # <<>> => h \in Coroutine!ToSet(q),
           Coroutine!Finish(w, cs, q, state), stopping' = stopping
    PROVE  CoroutineInv'
<1>1. /\ CoroutineTypes /\ CoroutineHolders /\ CoroutineStack /\ CoroutineReached
      /\ CoroutineQueued /\ CoroutineAnswers
  BY DEF CoroutineInv
<1>2. conts[h] \in Seq(Nat)
  BY <1>1 DEF CoroutineTypes
<1>3. /\ Tail(conts[h]) \in Seq(Nat)
      /\ Coroutine!ToSet(conts[h]) = Coroutine!ToSet(Tail(conts[h])) \union {w}
  BY <1>2, ElementsOfTail
<1>4. w \in DOMAIN waits /\ w \in Coroutine!ToSet(conts[h])
  BY <1>1, <1>3 DEF CoroutineTypes
<1>5. waits[w].holds /\ h \in {waits[w].awaited, waits[w].owner}
  BY <1>1, <1>4 DEF CoroutineReached
<1>6. PICK c \in Coroutines, a \in Coroutine!Handles, pr \in BOOLEAN :
        c = waits[w].owner /\ a = waits[w].awaited /\ pr = waits[w].propagate
  BY <1>1, <1>4, WaitsOf
<1>7. PICK left : left = LeftBy(c, a, w, cs)
  OBVIOUS
<1>8. left = [p \in Coroutine!Handles |->
                 IF p \in {c, a} THEN Without(cs[p], w) ELSE cs[p]]
  BY <1>7 DEF LeftBy
<1>9. Finished(c, a, pr, w, cs, q, state)
  <2>1. Finished(waits[w].owner, waits[w].awaited, waits[w].propagate, w, cs, q, state)
    BY <1>5, FinishOf
  <2>. QED
    BY <1>6, <2>1
<1>10. /\ conts' = left
      /\ waits' = [waits EXCEPT ![w].holds = FALSE]
      /\ \/ /\ frame' = [frame EXCEPT ![c] = "destroyed"] /\ running' = running
            /\ \/ state[c] # "pending" /\ state' = state /\ ready' = q
               \/ /\ state' = [state EXCEPT ![c] = "rejected"]
                  /\ ready' = Coroutine!Readied(q, c, left[c], "rejected")
         \/ /\ frame' = [frame EXCEPT ![c] = "running"]
            /\ running' = Append(running, c)
            /\ state' = state /\ ready' = q
  BY <1>7, <1>9 DEF Finished
<1>11. c \in Coroutine!Handles /\ frame[c] = "suspended"
  BY <1>1, <1>4, <1>5, <1>6, ResultsArePromises DEF CoroutineHolders
<1>12. ASSUME NEW p \in Coroutine!Handles
       PROVE  /\ conts'[p] \in Seq(Nat)
              /\ p \in {c, a} => Coroutine!ToSet(conts'[p]) = Coroutine!ToSet(conts[p]) \ {w}
              /\ p \notin {c, a} => conts'[p] = conts[p]
              /\ conts'[p] # <<>> => conts[p] # <<>> /\ (p = h => cs[h] # <<>>)
  <2>1. conts[p] \in Seq(Nat) /\ h \in {c, a}
    BY <1>1, <1>5, <1>6 DEF CoroutineTypes
  <2>2. cs[p] = IF p = h THEN Tail(conts[h]) ELSE conts[p]
    BY <1>1 DEF CoroutineTypes
  <2>3. cs[p] \in Seq(Nat) /\ Coroutine!ToSet(cs[p]) \ {w} = Coroutine!ToSet(conts[p]) \ {w}
    BY <1>3, <2>1, <2>2
  <2>4. conts'[p] = IF p \in {c, a} THEN Without(cs[p], w) ELSE cs[p]
    BY <1>8, <1>10
  <2>5. /\ Without(cs[p], w) \in Seq(Nat)
        /\ Coroutine!ToSet(Without(cs[p], w)) = Coroutine!ToSet(cs[p]) \ {w}
        /\ cs[p] = <<>> => Without(cs[p], w) = <<>>
    BY <2>3, WithoutOf
  <2>. QED
    BY <2>1, <2>2, <2>3, <2>4, <2>5
<1>13. /\ waits' \in Seq(CoroutineWaits) /\ DOMAIN waits' = DOMAIN waits
       /\ ~waits'[w].holds
       /\ \A v \in DOMAIN waits : /\ waits'[v].owner = waits[v].owner
                                  /\ waits'[v].awaited = waits[v].awaited
                                  /\ v # w => waits'[v] = waits[v]
  <2>1. waits \in Seq(CoroutineWaits) /\ waits[w] \in CoroutineWaits
    BY <1>1, <1>4 DEF CoroutineTypes
  <2>2. PICK r : r = [waits[w] EXCEPT !.holds = FALSE]
    OBVIOUS
  <2>3. r \in CoroutineWaits /\ ~r.holds /\ r.owner = waits[w].owner /\ r.awaited = waits[w].awaited
    BY <2>1, <2>2 DEF CoroutineWaits
  <2>4. waits' = [waits EXCEPT ![w] = r]
    BY <1>10, <2>2
  <2>. QED
    BY <1>4, <2>1, <2>3, <2>4
<1>14. \A v \in DOMAIN waits : waits[v].owner \in Coroutines
  BY <1>1, WaitsOf
<1>15. \A d \in Coroutines : d # c => frame'[d] = frame[d]
  BY <1>1, <1>10 DEF CoroutineTypes
<1>16. frame'[c] \in {"running", "destroyed"}
  BY <1>1, <1>10 DEF CoroutineTypes
<1>17. CoroutineHolders'
  <2>1. \A v \in DOMAIN waits' : waits'[v].holds => v # w /\ waits[v].holds
    BY <1>13
  <2>2. \A v \in DOMAIN waits : waits[v].holds /\ v # w => waits[v].owner # c
    BY <1>1, <1>4, <1>5, <1>6 DEF CoroutineHolders
  <2>3. \A v \in DOMAIN waits' : waits'[v].holds => frame'[waits'[v].owner] = "suspended"
    BY <1>1, <1>13, <1>14, <1>15, <2>1, <2>2 DEF CoroutineHolders
  <2>4. ASSUME NEW d \in Coroutines, frame'[d] = "suspended"
        PROVE  \E v \in DOMAIN waits' : waits'[v].owner = d /\ waits'[v].holds
    <3>1. d # c
      BY <1>16, <2>4
    <3>2. PICK v \in DOMAIN waits : waits[v].owner = d /\ waits[v].holds
      BY <1>1, <1>15, <2>4, <3>1 DEF CoroutineHolders
    <3>. QED
      BY <1>6, <1>13, <3>1, <3>2
  <2>. QED
    BY <1>1, <1>13, <2>1, <2>3, <2>4 DEF CoroutineHolders
<1>18. CoroutineReached'
  <2>1. ASSUME NEW v \in DOMAIN waits', NEW p \in Coroutine!Handles
        PROVE  waits'[v].holds /\ p \in {waits'[v].awaited, waits'[v].owner}
                  <=> v \in Coroutine!ToSet(conts'[p])
    <3>1. waits[v].holds /\ p \in {waits[v].awaited, waits[v].owner}
             <=> v \in Coroutine!ToSet(conts[p])
      BY <1>1, <1>13, <2>1 DEF CoroutineReached
    <3>2. CASE v # w
      BY <1>12, <1>13, <3>1, <3>2
    <3>3. CASE v = w
      BY <1>5, <1>6, <1>12, <1>13, <3>1, <3>3
    <3>. QED
      BY <3>2, <3>3
  <2>. QED
    BY <2>1 DEF CoroutineReached
<1>19. \A p \in Coroutine!Handles : Coroutine!ToSet(conts'[p]) \subseteq DOMAIN waits'
  BY <1>1, <1>12, <1>13 DEF CoroutineTypes
<1>20. conts' \in [Coroutine!Handles -> Seq(Nat)]
  BY <1>8, <1>10, <1>12
<1>21. \A p \in Coroutine!Handles :
          state[p] # "pending" /\ conts'[p] # <<>> => p \in Coroutine!ToSet(q)
  BY <1>1, <1>12 DEF CoroutineQueued
<1>22. /\ ready' \in Seq(Coroutine!Handles)
       /\ Coroutine!ToSet(q) \subseteq Coroutine!ToSet(ready')
       /\ \A p \in Coroutine!Handles :
             \/ state'[p] = state[p]
             \/ p = c /\ state'[p] = "rejected"
                /\ (conts'[p] # <<>> => p \in Coroutine!ToSet(ready'))
       /\ state' \in [Coroutine!Handles -> {"pending", "fulfilled", "rejected"}]
       /\ frame'[c] = "destroyed" => state'[c] # "pending"
  <2>1. CASE state' = state /\ ready' = q /\ (frame'[c] = "destroyed" => state[c] # "pending")
    BY <1>1, <2>1 DEF CoroutineTypes
  <2>2. CASE /\ state' = [state EXCEPT ![c] = "rejected"]
             /\ ready' = Coroutine!Readied(q, c, left[c], "rejected")
    <3>1. state'[c] = "rejected" /\ \A p \in Coroutine!Handles : p # c => state'[p] = state[p]
      BY <1>1, <1>11, <2>2 DEF CoroutineTypes
    <3>2. state' \in [Coroutine!Handles -> {"pending", "fulfilled", "rejected"}]
      BY <1>1, <2>2 DEF CoroutineTypes
    <3>3. /\ ready' \in Seq(Coroutine!Handles)
          /\ Coroutine!ToSet(q) \subseteq Coroutine!ToSet(ready')
          /\ left[c] # <<>> => c \in Coroutine!ToSet(ready')
      BY <1>11, <2>2, ReadiedOf
    <3>. QED
      BY <1>10, <3>1, <3>2, <3>3
  <2>3. \A x : frame' = [frame EXCEPT ![c] = x] => frame'[c] = x
    BY <1>1 DEF CoroutineTypes
  <2>. QED
    BY <1>10, <2>1, <2>2, <2>3
<1>23. CoroutineQueued'
  BY <1>21, <1>22 DEF CoroutineQueued
<1>24. CoroutineAnswers'
  <2>1. \A p \in Coroutine!Handles : state[p] # "pending" => state'[p] # "pending"
    BY <1>22
  <2>2. \A d \in Coroutines : frame'[d] \in {"ended", "destroyed"} => state'[d] # "pending"
    BY <1>1, <1>15, <1>16, <1>22, <2>1, ResultsArePromises DEF CoroutineAnswers
  <2>. QED
    BY <1>1, <2>1, <2>2 DEF CoroutineAnswers
<1>25. running' \in Seq(Coroutines) /\ CoroutineStack'
  <2>1. c \notin Coroutine!ToSet(running) /\ running \in Seq(Coroutines)
    BY <1>1, <1>11 DEF CoroutineStack, CoroutineTypes
  <2>2. CASE frame' = [frame EXCEPT ![c] = "destroyed"] /\ running' = running
    <3>1. frame'[c] = "destroyed"
      BY <1>1, <2>2 DEF CoroutineTypes
    <3>. QED
      BY <1>1, <1>15, <2>1, <2>2, <3>1 DEF CoroutineStack
  <2>3. CASE frame' = [frame EXCEPT ![c] = "running"] /\ running' = Append(running, c)
    <3>1. frame'[c] = "running"
      BY <1>1, <2>3 DEF CoroutineTypes
    <3>2. /\ running' \in Seq(Coroutines)
          /\ Coroutine!ToSet(running') = Coroutine!ToSet(running) \union {c}
          /\ Coroutine!IsInjective(running')
      BY <1>1, <2>1, <2>3, ElementsAppended, InjectiveAppended DEF CoroutineStack
    <3>. QED
      BY <1>1, <1>15, <3>1, <3>2 DEF CoroutineStack
  <2>. QED
    BY <1>10, <2>2, <2>3
<1>26. frame' \in [Coroutines -> {"none", "running", "suspended", "ended", "destroyed"}]
  BY <1>1, <1>10 DEF CoroutineTypes
<1>27. CoroutineTypes'
  BY <1>1, <1>13, <1>19, <1>20, <1>22, <1>25, <1>26 DEF CoroutineTypes
<1>. QED
  BY <1>17, <1>18, <1>23, <1>24, <1>25, <1>27 DEF CoroutineInv

\* One round of Dispatch.
LEMMA CoroutineDispatch == ASSUME CoroutineInv, Coroutine!Dispatch PROVE CoroutineInv'
<1>1. PICK h, cs, q :
      /\ h = ready[1]
      /\ cs = [conts EXCEPT ![h] = IF @ = <<>> THEN @ ELSE Tail(@)]
      /\ q = Coroutine!Readied(Tail(ready), h, cs[h], state[h])
  OBVIOUS
<1>2. /\ ready # <<>>
      /\ IF conts[h] = <<>>
         THEN ready' = q /\ UNCHANGED <<state, conts, frame, waits, running>>
         ELSE Coroutine!Finish(conts[h][1], cs, q, state)
      /\ stopping' = stopping
  BY <1>1, Zenon DEF Coroutine!Dispatch
<1>3. /\ ready \in Seq(Coroutine!Handles) /\ CoroutineQueued
      /\ conts \in [Coroutine!Handles -> Seq(Nat)]
  BY DEF CoroutineInv, CoroutineTypes
<1>4. /\ Tail(ready) \in Seq(Coroutine!Handles) /\ h \in Coroutine!Handles
      /\ Coroutine!ToSet(ready) = Coroutine!ToSet(Tail(ready)) \union {h}
  BY <1>1, <1>2, <1>3, ElementsOfTail
<1>5. /\ q \in Seq(Coroutine!Handles)
      /\ Coroutine!ToSet(Tail(ready)) \subseteq Coroutine!ToSet(q)
      /\ state[h] # "pending" /\ cs[h] # <<>> => h \in Coroutine!ToSet(q)
  BY <1>1, <1>4, ReadiedOf
<1>6. \A p \in Coroutine!ToSet(ready) : p # h => p \in Coroutine!ToSet(q)
  BY <1>4, <1>5
<1>7. CASE conts[h] = <<>>
  <2>1. ready' = q /\ UNCHANGED <<state, conts, frame, waits, running, stopping>>
    BY <1>2, <1>7
  <2>2. CoroutineQueued'
    BY <1>3, <1>6, <1>7, <2>1 DEF CoroutineQueued
  <2>. QED
    BY <1>5, <2>1, <2>2 DEF CoroutineInv, CoroutineTypes, CoroutineHolders, CoroutineStack,
       CoroutineReached, CoroutineAnswers
<1>8. CASE conts[h] # <<>>
  <2>1. cs = [conts EXCEPT ![h] = Tail(@)]
    BY <1>1, <1>8
  <2>2. Coroutine!Finish(conts[h][1], cs, q, state)
    BY <1>2, <1>8
  <2>. QED
    BY <1>2, <1>4, <1>5, <1>6, <1>8, <2>1, <2>2, CoroutineFinish
<1>. QED
  BY <1>7, <1>8

\* A list of all elements of a finite set.
LEMMA ListOfSet ==
    ASSUME NEW S, IsFiniteSet(S)
    PROVE  /\ Coroutine!SetToSeq(S) \in Seq(S)
           /\ Coroutine!ToSet(Coroutine!SetToSeq(S)) = S
<1>. DEFINE n == Cardinality(S)
            Lists(T) == {f \in [1..n -> T] : Coroutine!IsInjective(f)}
<1>1. n \in Nat /\ ExistsBijection(1..n, S)
  BY FS_NatBijection, FS_CardinalityType
<1>2. PICK b \in Bijection(1..n, S) : TRUE
  BY <1>1 DEF ExistsBijection
<1>3. b \in [1..n -> S] /\ \A i, j \in 1..n : b[i] = b[j] => i = j
  BY <1>2 DEF Bijection, Injection, IsInjective
<1>4. b \in [1..n -> S] /\ Coroutine!IsInjective(b)
  BY <1>3 DEF Coroutine!IsInjective
<1>5. PICK f : f = Coroutine!SetToSeq(S)
  OBVIOUS
<1>6. f = CHOOSE g \in [1..n -> S] : Coroutine!IsInjective(g)
  BY <1>5, CoroutineCardinality DEF Coroutine!SetToSeq
<1>7. f \in [1..n -> S] /\ Coroutine!IsInjective(f)
  BY <1>4, <1>6
<1>8. \A i, j \in 1..n : f[i] = f[j] => i = j
  BY <1>7 DEF Coroutine!IsInjective
<1>9. f \in Injection(1..n, S)
  BY <1>7, <1>8 DEF Injection, IsInjective
<1>10. Cardinality(1..n) = n /\ IsFiniteSet(1..n)
  BY <1>1, FS_Interval
<1>11. f \in Surjection(1..n, S)
  BY <1>9, <1>10, FS_Injection
<1>12. \A x \in S : \E i \in 1..n : f[i] = x
  BY <1>11 DEF Surjection
<1>13. f \in Seq(S) /\ DOMAIN f = 1..n
  BY <1>1, <1>7
<1>14. Coroutine!ToSet(f) = S
  BY <1>7, <1>12, <1>13 DEF Coroutine!ToSet
<1>. QED
  BY <1>5, <1>13, <1>14

\* The shutdown answers whatever is pending and queues all that waits.
LEMMA CoroutineShutdown == ASSUME CoroutineInv, Coroutine!Promises_Shutdown PROVE CoroutineInv'
<1>1. PICK L : L = {h \in Coroutine!Handles : conts[h] # <<>> /\ h \notin Coroutine!ToSet(ready)}
  OBVIOUS
<1>2. PICK late : late = Coroutine!SetToSeq(L)
  OBVIOUS
<1>3. /\ stopping' = TRUE
      /\ state' = [h \in Coroutine!Handles |->
                     IF state[h] = "pending" THEN "rejected" ELSE state[h]]
      /\ ready' = ready \o late
      /\ UNCHANGED <<conts, frame, waits, running>>
  BY <1>1, <1>2, Zenon DEF Coroutine!Promises_Shutdown
<1>4. IsFiniteSet(L)
  <2>1. IsFiniteSet(Coroutines) /\ IsFiniteSet(Promises)
    BY PartsAssumption, CoroutineFinite DEF Coroutine!CoroutineAssumption
  <2>2. IsFiniteSet(Coroutine!Handles)
    BY <2>1, FS_Union DEF Coroutine!Handles
  <2>3. L \subseteq Coroutine!Handles
    BY <1>1
  <2>. QED
    BY <2>2, <2>3, FS_Subset
<1>5. late \in Seq(L) /\ Coroutine!ToSet(late) = L
  BY <1>2, <1>4, ListOfSet
<1>6. late \in Seq(Coroutine!Handles) /\ ready \in Seq(Coroutine!Handles)
  <2>1. L \subseteq Coroutine!Handles
    BY <1>1
  <2>. QED
    BY <1>5, <2>1 DEF CoroutineInv, CoroutineTypes
<1>7. /\ ready' \in Seq(Coroutine!Handles)
      /\ Coroutine!ToSet(ready) \union L \subseteq Coroutine!ToSet(ready')
  <2>1. PICK n \in Nat, m \in Nat : n = Len(ready) /\ m = Len(late)
    BY <1>6
  <2>2. /\ ready \o late \in Seq(Coroutine!Handles)
        /\ DOMAIN ready = 1..n /\ DOMAIN late = 1..m /\ DOMAIN (ready \o late) = 1..(n + m)
        /\ \A i \in 1..n : i \in 1..(n + m) /\ (ready \o late)[i] = ready[i]
        /\ \A i \in 1..m : n + i \in 1..(n + m) /\ (ready \o late)[n + i] = late[i]
    BY <1>6, <2>1
  <2>3. Coroutine!ToSet(ready) \subseteq Coroutine!ToSet(ready \o late)
    BY <2>2 DEF Coroutine!ToSet
  <2>4. Coroutine!ToSet(late) \subseteq Coroutine!ToSet(ready \o late)
    BY <2>2 DEF Coroutine!ToSet
  <2>. QED
    BY <1>3, <1>5, <2>2, <2>3, <2>4
<1>8. \A h \in Coroutine!Handles : state'[h] \in {"fulfilled", "rejected"}
  BY <1>3 DEF CoroutineInv, CoroutineTypes
<1>9. CoroutineTypes'
  <2>1. state' \in [Coroutine!Handles -> {"pending", "fulfilled", "rejected"}]
    BY <1>3, <1>8
  <2>. QED
    BY <1>3, <1>7, <2>1 DEF CoroutineInv, CoroutineTypes
<1>10. CoroutineHolders' /\ CoroutineStack' /\ CoroutineReached'
  BY <1>3 DEF CoroutineInv, CoroutineHolders, CoroutineStack, CoroutineReached
<1>11. CoroutineQueued'
  BY <1>1, <1>3, <1>7 DEF CoroutineQueued
<1>12. CoroutineAnswers'
  BY <1>8, ResultsArePromises DEF CoroutineAnswers
<1>. QED
  BY <1>9, <1>10, <1>11, <1>12 DEF CoroutineInv

\* Every step of the coroutines keeps the invariant.
LEMMA CoroutineStep == ASSUME CoroutineInv, Coroutine!Next PROVE CoroutineInv'
  BY CoroutineSettle, CoroutineStart, CoroutineAwait, CoroutineAwaitFails, CoroutineReturn,
     CoroutineDispatch, CoroutineShutdown
  DEF Coroutine!Next

\* The inductive invariant says all that CoroutinesSound does.
LEMMA CoroutineInvIsSound == ASSUME CoroutineInv PROVE Coroutine!CoroutinesSound
<1>1. /\ CoroutineTypes /\ CoroutineHolders /\ CoroutineStack /\ CoroutineReached
      /\ CoroutineQueued /\ CoroutineAnswers
  BY DEF CoroutineInv
<1>2. Coroutine!TypeOK
  <2>1. DOMAIN waits = 1..Len(waits)
    BY <1>1 DEF CoroutineTypes
  <2>2. \A h \in Coroutine!Handles : Coroutine!ToSet(conts[h]) \subseteq 1..Len(waits)
    BY <1>1, <2>1 DEF CoroutineTypes
  <2>3. Coroutine!ToSet(ready) \subseteq Coroutine!Handles
    <3>1. \A i \in DOMAIN ready : ready[i] \in Coroutine!Handles
      BY <1>1 DEF CoroutineTypes
    <3>. QED
      BY <3>1 DEF Coroutine!ToSet
  <2>4. \A w \in DOMAIN waits : waits[w] \in CoroutineWaits
    BY <1>1 DEF CoroutineTypes
  <2>. QED
    BY <1>1, <2>2, <2>3, <2>4 DEF CoroutineTypes, CoroutineWaits, Coroutine!TypeOK
<1>3. Coroutine!EachFrameHeldOnce
  <2>1. ASSUME NEW c \in Coroutines
        PROVE  Coroutine!Cardinality({w \in DOMAIN waits : waits[w].owner = c /\ waits[w].holds})
                  = IF frame[c] = "suspended" THEN 1 ELSE 0
    <3>. DEFINE H == {w \in DOMAIN waits : waits[w].owner = c /\ waits[w].holds}
    <3>1. CASE frame[c] = "suspended"
      <4>1. PICK w \in H : TRUE
        BY <1>1, <3>1 DEF CoroutineHolders
      <4>2. H = {w}
        BY <1>1, <4>1 DEF CoroutineHolders
      <4>3. Cardinality({w}) = 1
        BY FS_Singleton
      <4>. QED
        BY <3>1, <4>2, <4>3, CoroutineCardinality
    <3>2. CASE frame[c] # "suspended"
      <4>1. H = {}
        BY <1>1, <3>2 DEF CoroutineHolders
      <4>2. Cardinality({}) = 0
        BY FS_EmptySet
      <4>. QED
        BY <3>2, <4>1, <4>2, CoroutineCardinality
    <3>. QED
      BY <3>1, <3>2
  <2>2. Coroutine!ToSet(running) = {c \in Coroutines : frame[c] = "running"}
    <3>1. Coroutine!ToSet(running) \subseteq Coroutines
      <4>1. \A i \in DOMAIN running : running[i] \in Coroutines
        BY <1>1 DEF CoroutineTypes
      <4>. QED
        BY <4>1 DEF Coroutine!ToSet
    <3>. QED
      BY <1>1, <3>1 DEF CoroutineStack
  <2>. QED
    BY <1>1, <2>1, <2>2 DEF CoroutineStack, Coroutine!EachFrameHeldOnce
<1>4. Coroutine!NoFrameForgotten
  BY <1>1 DEF CoroutineReached, CoroutineQueued, Coroutine!NoFrameForgotten
<1>5. Coroutine!GoneMeansAnswered
  <2>1. ASSUME stopping, ready = <<>>, NEW c \in Coroutines, frame[c] = "suspended" PROVE FALSE
    <3>1. PICK w \in DOMAIN waits : waits[w].owner = c /\ waits[w].holds
      BY <1>1, <2>1 DEF CoroutineHolders
    <3>2. w \in Coroutine!ToSet(conts[c])
      BY <1>1, <3>1, ResultsArePromises DEF CoroutineReached
    <3>3. conts[c] # <<>>
      BY <3>2 DEF Coroutine!ToSet
    <3>4. c \in Coroutine!ToSet(ready)
      BY <1>1, <2>1, <3>3, ResultsArePromises DEF CoroutineQueued, CoroutineAnswers
    <3>. QED
      BY <2>1, <3>4 DEF Coroutine!ToSet
  <2>. QED
    BY <1>1, <2>1 DEF CoroutineAnswers, Coroutine!GoneMeansAnswered
<1>. QED
  BY <1>2, <1>3, <1>4, <1>5 DEF Coroutine!CoroutinesSound

\* Whichever of the promise that it awaits and its own result settles first, in whatever order
\* and however deep frames run inside each other: a suspended coroutine is held by one wait,
\* which both promises reach and which resumes or destroys it once, and after the shutdown none
\* is left (Suspend_On and Finish of coroutine.cpp).
THEOREM CoroutinesAreSound == Spec => []CoroutinesSound
<1>1. Init => CoroutineInv
  BY CoroutineInitially DEF Init
<1>2. CoroutineInv /\ [Next]_vars => CoroutineInv'
  <2>1. ASSUME CoroutineInv, CoroutineNext PROVE CoroutineInv'
    BY <2>1, CoroutineStep DEF CoroutineNext
  <2>2. ASSUME CoroutineInv, Next, ~CoroutineNext PROVE UNCHANGED coroutineVars
    BY <2>2 DEF Next, TexturesNext, DatagramNext, BreakpointsNext, PatchesNext, TimersNext,
       ListenersNext, LibcHeapNext, StdioNext, PacketsNext, GraphNext
  <2>. QED
    BY <2>1, <2>2, CoroutineStutters DEF vars
<1>3. CoroutineInv => CoroutinesSound
  BY CoroutineInvIsSound DEF CoroutinesSound
<1>. QED
  BY <1>1, <1>2, <1>3, PTL DEF Spec

=============================================================================
