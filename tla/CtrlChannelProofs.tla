-------------------------- MODULE CtrlChannelProofs --------------------------
(***************************************************************************)
(* Proofs about CtrlChannel, for any links, any limit of retransmissions   *)
(* and any bounds.  What the channel does to the link registry are steps   *)
(* of LinkState; a stopped measurement waits for a TSA that restarts it;   *)
(* an answered TSU is the split of the peer.                               *)
(***************************************************************************)
EXTENDS CtrlChannel, FiniteSetTheorems, TLAPS

LSP == INSTANCE LinkStateProofs
        WITH Cids <- Links, DefaultLinkCid <- WIFI_CID, FixDefaultLink <- FALSE

-----------------------------------------------------------------------------
(***************************************************************************)
(* Sequence numbers, by how long ago they were given out.                  *)
(***************************************************************************)

\* How many csns have been given out since `csn`, that one included: when `next` is
\* the next one, and now.
AgeAt(next, csn) == (next - csn) % CsnSpace
Age(csn) == AgeAt(m_mxCtrSeqNumber, csn)

\* The csns that CsnDiff can order.
Recent(csn) == 0 < Age(csn) /\ Age(csn) < 32768

\* No csn is in use that is older than half the csns: no message, answer or entry is
\* that late, and less than half the csns have gone by since the last TSU.
CsnsAreRecent ==
    /\ \A entry \in m_txedCtrQueue : \A csn \in entry.csns : Recent(csn)
    /\ \A msg \in wire : Recent(msg.csn)
    /\ \A ack \in acks : Recent(ack.csn)
    /\ \A csn \in lastTsu.csns : Recent(csn)
    /\ Age(m_maxTsaSn) < 32768 /\ Age(peer.maxTsuSeqNum) < 32768

\* The remainders that csns need.
LEMMA Remainder ==
    ASSUME NEW d \in Int, -CsnSpace < d, d < 2 * CsnSpace
    PROVE  d % CsnSpace = IF d < 0 THEN d + CsnSpace ELSE IF d < CsnSpace THEN d ELSE d - CsnSpace
  <1>1. CASE d < 0
    BY <1>1 DEF CsnSpace
  <1>2. CASE d >= 0 /\ d < CsnSpace
    BY <1>2 DEF CsnSpace
  <1>3. CASE d >= CsnSpace
    BY <1>3 DEF CsnSpace
  <1> QED
    BY <1>1, <1>2, <1>3 DEF CsnSpace

\* What a csn is, to the provers.
LEMMA CsnRange ==
    ASSUME NEW x \in Csns
    PROVE  x \in Int /\ 0 <= x /\ x < CsnSpace
  BY DEF Csns, CsnSpace

LEMMA InCsnRange ==
    ASSUME NEW x \in Int, 0 <= x, x < CsnSpace
    PROVE  x \in Csns
  <1>1. CsnSpace \in Int
    BY DEF CsnSpace
  <1> QED
    BY <1>1 DEF Csns

LEMMA AgeValue ==
    ASSUME NEW next \in Csns, NEW csn \in Csns
    PROVE  (next - csn) % CsnSpace = IF csn <= next THEN next - csn ELSE next - csn + CsnSpace
  <1> DEFINE d == next - csn
  <1>1. d \in Int
    BY CsnRange
  <1>2. -CsnSpace < d /\ d < CsnSpace /\ d < 2 * CsnSpace /\ (d < 0 <=> ~ csn <= next)
    BY CsnRange DEF CsnSpace
  <1> HIDE DEF d
  <1>3. d % CsnSpace = IF d < 0 THEN d + CsnSpace ELSE d
    BY <1>1, <1>2, Remainder
  <1> QED
    BY <1>2, <1>3 DEF d

LEMMA WrapAround ==
    ASSUME NEW d \in Int, 0 <= d, d < 2 * CsnSpace
    PROVE  d % CsnSpace \in Csns /\ d % CsnSpace = IF d < CsnSpace THEN d ELSE d - CsnSpace
  <1>1. d % CsnSpace = IF d < CsnSpace THEN d ELSE d - CsnSpace
    BY Remainder DEF CsnSpace
  <1>2. d % CsnSpace \in Int
    BY <1>1 DEF CsnSpace
  <1>3. 0 <= d % CsnSpace /\ d % CsnSpace < CsnSpace
    BY <1>1 DEF CsnSpace
  <1> QED
    BY <1>1, <1>2, <1>3, InCsnRange

\* The csn n messages from now.
LEMMA CsnAfterValue ==
    ASSUME m_mxCtrSeqNumber \in Csns, NEW n \in 0 .. 255
    PROVE  /\ CsnAfter(n) \in Csns
           /\ CsnAfter(n) = IF m_mxCtrSeqNumber + n < CsnSpace THEN m_mxCtrSeqNumber + n
                            ELSE m_mxCtrSeqNumber + n - CsnSpace
  <1>1. PICK d : d = m_mxCtrSeqNumber + n
    OBVIOUS
  <1>2. d \in Int
    BY <1>1, CsnRange
  <1>3. 0 <= d /\ d < 2 * CsnSpace
    BY <1>1, CsnRange DEF CsnSpace
  <1>4. d % CsnSpace \in Csns /\ d % CsnSpace = IF d < CsnSpace THEN d ELSE d - CsnSpace
    BY <1>2, <1>3, WrapAround
  <1>5. CsnAfter(n) = d % CsnSpace
    BY <1>1 DEF CsnAfter
  <1>6. m_mxCtrSeqNumber \in Int
    BY CsnRange
  <1>7. CsnAfter(n) \in Csns
    BY <1>4, <1>5
  <1>8. CsnAfter(n) = IF m_mxCtrSeqNumber + n < CsnSpace THEN m_mxCtrSeqNumber + n
                      ELSE m_mxCtrSeqNumber + n - CsnSpace
    BY <1>1, <1>2, <1>4, <1>5, <1>6 DEF CsnSpace
  <1> QED
    BY <1>7, <1>8

\* The age of a csn is a number below the size of the csn space.
LEMMA AgeType ==
    ASSUME m_mxCtrSeqNumber \in Csns, NEW csn \in Csns
    PROVE  Age(csn) \in Int /\ 0 <= Age(csn) /\ Age(csn) < CsnSpace
  <1>1. Age(csn) = IF csn <= m_mxCtrSeqNumber THEN m_mxCtrSeqNumber - csn
                   ELSE m_mxCtrSeqNumber - csn + CsnSpace
    BY AgeValue DEF Age, AgeAt
  <1>2. Age(csn) \in Int
    BY <1>1, CsnRange DEF CsnSpace
  <1>3. 0 <= Age(csn) /\ Age(csn) < CsnSpace
    BY <1>1, CsnRange DEF CsnSpace
  <1> QED
    BY <1>2, <1>3

\* A step that gives out n csns makes all others older by n.
LEMMA AgeStep ==
    ASSUME m_mxCtrSeqNumber \in Csns, NEW n \in 0 .. 255, m_mxCtrSeqNumber' = CsnAfter(n),
           NEW csn \in Csns, Age(csn) < 32768
    PROVE  Age(csn)' = Age(csn) + n
  <1>1. m_mxCtrSeqNumber' \in Csns
    BY CsnAfterValue
  <1>2. Age(csn)' = IF csn <= m_mxCtrSeqNumber' THEN m_mxCtrSeqNumber' - csn
                    ELSE m_mxCtrSeqNumber' - csn + CsnSpace
    BY <1>1, AgeValue DEF Age, AgeAt
  <1>3. Age(csn) = IF csn <= m_mxCtrSeqNumber THEN m_mxCtrSeqNumber - csn
                   ELSE m_mxCtrSeqNumber - csn + CsnSpace
    BY AgeValue DEF Age, AgeAt
  <1>4. m_mxCtrSeqNumber' = IF m_mxCtrSeqNumber + n < CsnSpace THEN m_mxCtrSeqNumber + n
                            ELSE m_mxCtrSeqNumber + n - CsnSpace
    BY CsnAfterValue
  <1> QED
    BY <1>2, <1>3, <1>4, CsnRange DEF CsnSpace

\* The csns that it gives out are younger.
LEMMA NewAge ==
    ASSUME m_mxCtrSeqNumber \in Csns, NEW n \in 0 .. 255, m_mxCtrSeqNumber' = CsnAfter(n),
           NEW k \in Nat, k < n, NEW csn, csn = CsnAfter(k)
    PROVE  csn \in Csns /\ Age(csn)' = n - k
  <1>1. k \in 0 .. 255
    OBVIOUS
  <1>2. csn \in Csns /\ m_mxCtrSeqNumber' \in Csns
    BY <1>1, CsnAfterValue
  <1>3. Age(csn)' = IF csn <= m_mxCtrSeqNumber' THEN m_mxCtrSeqNumber' - csn
                    ELSE m_mxCtrSeqNumber' - csn + CsnSpace
    BY <1>2, AgeValue DEF Age, AgeAt
  <1>4. /\ csn = IF m_mxCtrSeqNumber + k < CsnSpace THEN m_mxCtrSeqNumber + k
                 ELSE m_mxCtrSeqNumber + k - CsnSpace
        /\ m_mxCtrSeqNumber' = IF m_mxCtrSeqNumber + n < CsnSpace THEN m_mxCtrSeqNumber + n
                               ELSE m_mxCtrSeqNumber + n - CsnSpace
    BY <1>1, CsnAfterValue
  <1>5. Age(csn)' = n - k
    BY <1>3, <1>4, CsnRange DEF CsnSpace
  <1> QED
    BY <1>2, <1>5

\* CsnDiff orders the recent csns by their age, also across the wrap-around.
LEMMA CsnDiffIsAge ==
    ASSUME m_mxCtrSeqNumber \in Csns, NEW x \in Csns, NEW y \in Csns,
           Age(x) < 32768, Age(y) < 32768
    PROVE  CsnDiff(x, y) = Age(y) - Age(x)
  <1>1. Age(x) = IF x <= m_mxCtrSeqNumber THEN m_mxCtrSeqNumber - x
                 ELSE m_mxCtrSeqNumber - x + CsnSpace
    BY AgeValue DEF Age, AgeAt
  <1>2. Age(y) = IF y <= m_mxCtrSeqNumber THEN m_mxCtrSeqNumber - y
                 ELSE m_mxCtrSeqNumber - y + CsnSpace
    BY AgeValue DEF Age, AgeAt
  <1> QED
    BY <1>1, <1>2, CsnRange DEF CsnSpace, CsnDiff

\* A set of small numbers is small.
LEMMA SmallSet ==
    ASSUME NEW n \in Nat, NEW S \in SUBSET (0 .. n)
    PROVE  Cardinality(S) <= n + 1
  <1>1. IsFiniteSet(0 .. n) /\ Cardinality(0 .. n) = n + 1
    BY FS_Interval
  <1>2. Cardinality(S) <= Cardinality(0 .. n)
    BY <1>1, FS_Subset
  <1> QED
    BY <1>1, <1>2

\* The csns of a round of probes.
LEMMA LinkCount ==
    /\ Cardinality(Links) \in 0 .. 255
    /\ Cardinality(Links) > 0
    /\ \A cid \in Links : /\ Cardinality({link \in Links : link < cid}) \in Nat
                          /\ Cardinality({link \in Links : link < cid}) < Cardinality(Links)
  <1>1. IsFiniteSet(Links) /\ Links \subseteq 0 .. 254 /\ WIFI_CID \in Links
    BY ChannelAssumption
  <1>2. PICK n \in Nat : n = 254
    OBVIOUS
  <1>3. Cardinality(Links) \in Nat /\ Cardinality(Links) <= 255
    <2>1. Cardinality(Links) \in Nat
      BY <1>1, FS_CardinalityType
    <2>2. Links \in SUBSET (0 .. n)
      BY <1>1, <1>2
    <2>3. Cardinality(Links) <= n + 1
      BY <2>2, SmallSet
    <2> QED
      BY <1>2, <2>1, <2>3
  <1>4. Cardinality(Links) # 0
    <2>1. Cardinality(Links) = 0 => Links = {}
      BY <1>1, FS_EmptySet
    <2> QED
      BY <1>1, <2>1
  <1>5. ASSUME NEW cid \in Links
        PROVE  /\ Cardinality({link \in Links : link < cid}) \in Nat
               /\ Cardinality({link \in Links : link < cid}) < Cardinality(Links)
    <2> DEFINE before == {link \in Links : link < cid}
    <2>1. before \subseteq Links /\ before # Links
      BY <1>1
    <2>2. IsFiniteSet(before) /\ Cardinality(before) <= Cardinality(Links)
          /\ Cardinality(before) # Cardinality(Links)
      BY <1>1, <2>1, FS_Subset
    <2>3. Cardinality(before) \in Nat
      BY <2>2, FS_CardinalityType
    <2> QED
      BY <1>3, <2>2, <2>3
  <1> QED
    BY <1>3, <1>4, <1>5

-----------------------------------------------------------------------------
(***************************************************************************)
(* The link registry.                                                      *)
(***************************************************************************)

\* Every step of the control channel is a step of the registry or leaves it alone.
LEMMA RegistryStep ==
    ASSUME TypeOK, [Next]_vars
    PROVE  [LS!Next]_linkVars
  <1>1. ASSUME NEW entry \in m_txedCtrQueue, GiveUp(entry)
        PROVE  LS!Next
    <2>1. entry.cid \in m_cidList
      BY DEF TypeOK, Entries
    <2> QED
      BY <1>1, <2>1 DEF GiveUp, LS!Next
  <1>2. ASSUME NEW range \in {0, 1}, WifiPowerTrace(range)
        PROVE  LS!Next
    <2>1. WIFI_CID \in m_cidList
      BY ChannelAssumption DEF TypeOK
    <2> QED
      BY <1>2, <2>1 DEF WifiPowerTrace, LS!Next
  <1>3. ASSUME NEW ack \in acks, RecvAck(ack)
        PROVE  [LS!Next]_linkVars
    <2>1. ack.cid \in m_cidList
      BY DEF TypeOK, Acks
    <2> QED
      BY <1>3, <2>1 DEF RecvAck, LS!Next
  <1>4. CASE PeriodicProbeMsg
    BY <1>4 DEF PeriodicProbeMsg
  <1>5. ASSUME NEW split \in SUBSET Links, NEW by \in BOOLEAN, Decide(split, by)
        PROVE  UNCHANGED linkVars
    BY <1>5 DEF Decide
  <1>6. ASSUME NEW entry \in m_txedCtrQueue, Retransmit(entry)
        PROVE  UNCHANGED linkVars
    BY <1>6 DEF Retransmit, RetransmitWith
  <1>7. ASSUME NEW msg \in wire, PeerRecvCtrlMsg(msg)
        PROVE  UNCHANGED linkVars
    BY <1>7 DEF PeerRecvCtrlMsg
  <1>8. CASE UNCHANGED vars
    BY <1>8 DEF vars
  <1> QED
    BY <1>1, <1>2, <1>3, <1>4, <1>5, <1>6, <1>7, <1>8 DEF Next, RetxCtrlMsgExpires

\* The registry of this module is the one that LinkStateProofs is about.
LEMMA SameRegistry ==
    /\ LS!TypeOK <=> LSP!TypeOK
    /\ LS!NoUpLinkOutranksDefault <=> LSP!NoUpLinkOutranksDefault
    /\ LS!UpLinks = LSP!UpLinks
    /\ LS!Down = LSP!Down
    /\ [LS!Next]_linkVars => [LSP!Next]_(LSP!vars)
    /\ WIFI_CID \in Links /\ Links \subseteq 0 .. (LSP!UINT8_MAX - 1)
  <1>1. LS!TypeOK <=> LSP!TypeOK
    BY DEF LS!TypeOK, LSP!TypeOK
  <1>2. LS!UpLinks = LSP!UpLinks /\ LS!Down = LSP!Down
    BY DEF LS!UpLinks, LSP!UpLinks, LS!IsLinkUp, LSP!IsLinkUp, LS!Down, LSP!Down
  <1>3. LS!NoUpLinkOutranksDefault <=> LSP!NoUpLinkOutranksDefault
    BY <1>2 DEF LS!NoUpLinkOutranksDefault, LSP!NoUpLinkOutranksDefault, LS!Outranks, LSP!Outranks
  <1>4. \A up : LS!SearchOkCid(up) = LSP!SearchOkCid(up)
    BY DEF LS!SearchOkCid, LSP!SearchOkCid, LS!Outranks, LSP!Outranks,
           LS!UINT8_MAX, LSP!UINT8_MAX
  <1>5. \A cid : LS!GoesDown(cid) <=> LSP!GoesDown(cid)
    BY <1>2, <1>4 DEF LS!GoesDown, LSP!GoesDown, LS!IsLinkUp, LSP!IsLinkUp, LS!SetLinkDown,
                      LSP!SetLinkDown, LS!UINT8_MAX, LSP!UINT8_MAX
  <1>6. \A cid, own, others : LS!ComesUp(cid, own, others) <=> LSP!ComesUp(cid, own, others)
    BY DEF LS!ComesUp, LSP!ComesUp, LS!SetLinkUp, LSP!SetLinkUp, LS!Outranks, LSP!Outranks
  <1>7. LS!Next => LSP!Next
    BY <1>5, <1>6 DEF LS!Next, LSP!Next, LS!AddPhyLink, LSP!AddPhyLink,
         LS!SetFixedDefaultCid, LSP!SetFixedDefaultCid, LS!LinkBitMapDown, LSP!LinkBitMapDown,
         LS!LinkBitMapUp, LSP!LinkBitMapUp, LS!CtrlMsgDown, LSP!CtrlMsgDown,
         LS!CtrlMsgUp, LSP!CtrlMsgUp, LS!LowRssiDown, LSP!LowRssiDown,
         LS!HighRssiUp, LSP!HighRssiUp, LS!WIFI_CID, LSP!WIFI_CID
  <1>8. WIFI_CID \in Links /\ Links \subseteq 0 .. (LSP!UINT8_MAX - 1)
    BY ChannelAssumption DEF LSP!UINT8_MAX
  <1> QED
    BY <1>1, <1>2, <1>3, <1>7, <1>8 DEF linkVars, LSP!vars

-----------------------------------------------------------------------------
(***************************************************************************)
(* Types.                                                                  *)
(***************************************************************************)

\* The registry keeps its types.
LEMMA RegistryType ==
    ASSUME TypeOK, [Next]_vars
    PROVE  LS!TypeOK' /\ m_cidList' = Links
  <1>1. LSP!TypeOK /\ [LSP!Next]_(LSP!vars)
    BY RegistryStep, SameRegistry DEF TypeOK
  <1>2. LSP!TypeOK'
    BY <1>1, SameRegistry, LSP!TypeStep
  <1>3. LS!TypeOK'
    BY <1>2 DEF LS!TypeOK, LSP!TypeOK
  <1>4. m_cidList' = m_cidList
    <2>1. ASSUME NEW c, \/ LS!CtrlMsgDown(c) \/ LS!CtrlMsgUp(c)
                        \/ LS!LowRssiDown(c) \/ LS!HighRssiUp(c)
          PROVE  m_cidList' = m_cidList
      BY <2>1 DEF LS!CtrlMsgDown, LS!CtrlMsgUp, LS!LowRssiDown, LS!HighRssiUp
    <2> QED
      BY <2>1 DEF Next, RetxCtrlMsgExpires, PeriodicProbeMsg, Decide, GiveUp, Retransmit,
                  RetransmitWith, WifiPowerTrace, PeerRecvCtrlMsg, RecvAck, linkVars, vars
  <1> QED
    BY <1>3, <1>4 DEF TypeOK

\* The entries of a queue.
QueueOK(queue) ==
    /\ queue \subseteq Entries
    /\ \A entry \in queue :
          /\ entry.first \in entry.csns
          /\ SentOver(entry) # {}
          /\ IsFiniteSet(entry.csns) /\ Cardinality(entry.csns) <= MAX_RETX_ATTEMPT + 1

\* The copies of an entry are messages.
LEMMA CopiesType ==
    ASSUME NEW entry \in Entries, NEW csn \in Csns, NEW up \in BOOLEAN
    PROVE  /\ Copies(entry, csn, up) \subseteq CtrlMsgs
           /\ \A msg \in Copies(entry, csn, up) :
                 msg.csn = csn /\ msg.type = entry.type /\ msg.split = entry.split
  <1>1. SentOver(entry) \subseteq Links
    BY DEF SentOver, Entries
  <1> QED
    BY <1>1 DEF Copies, Entries, CtrlMsgs

\* A new entry has one csn.
LEMMA EntryType ==
    ASSUME NEW type \in CtrlTypes, NEW cid \in Links, NEW split \in SUBSET Links, NEW csn \in Csns,
           type = "tsu" => split # {}
    PROVE  LET entry == Entry(type, cid, split, csn)
           IN  /\ entry \in Entries /\ QueueOK({entry})
               /\ entry.type = type /\ entry.split = split
               /\ entry.csns = {csn} /\ entry.first = csn /\ entry.cid = cid
  <1> DEFINE entry == Entry(type, cid, split, csn)
  <1>1. entry \in Entries
    BY DEF Entry, Entries
  <1>2. /\ entry.type = type /\ entry.split = split
        /\ entry.csns = {csn} /\ entry.first = csn /\ entry.cid = cid
    BY DEF Entry
  <1>3. IsFiniteSet({csn}) /\ Cardinality({csn}) = 1
    BY FS_Singleton, Zenon
  <1>4. 1 <= MAX_RETX_ATTEMPT + 1
    BY ChannelAssumption
  <1>5. SentOver(entry) # {}
    BY <1>2 DEF SentOver
  <1> QED
    BY <1>1, <1>2, <1>3, <1>4, <1>5 DEF QueueOK

LEMMA SendTsuType ==
    ASSUME TypeOK, NEW split \in SUBSET Links, split # {}, NEW queue \in SUBSET m_txedCtrQueue,
           NEW up \in BOOLEAN, SendTsu(split, queue, up)
    PROVE  /\ QueueOK(m_txedCtrQueue') /\ wire' \subseteq CtrlMsgs
           /\ m_mxCtrSeqNumber' \in Csns
           /\ lastTsu' \in [split : SUBSET Links, csns : SUBSET Csns, answered : BOOLEAN, overtaken : BOOLEAN]
  <1> DEFINE entry == Entry("tsu", 0, split, m_mxCtrSeqNumber)
  <1>1. m_mxCtrSeqNumber \in Csns /\ 0 \in Links /\ "tsu" \in CtrlTypes
    BY ChannelAssumption DEF TypeOK, CtrlTypes, WIFI_CID
  <1>2. entry \in Entries /\ QueueOK({entry})
    BY <1>1, EntryType
  <1>3. QueueOK(m_txedCtrQueue)
    BY DEF QueueOK, TypeOK
  <1>4. QueueOK(m_txedCtrQueue')
    <2>1. m_txedCtrQueue' = queue \cup {entry}
      BY DEF SendTsu
    <2> HIDE DEF entry
    <2> QED
      BY <1>2, <1>3, <2>1 DEF QueueOK
  <1>5. wire' \subseteq CtrlMsgs
    <2>1. Copies(entry, m_mxCtrSeqNumber, up) \subseteq CtrlMsgs
      BY <1>1, <1>2, CopiesType
    <2>2. wire' \subseteq wire \cup Copies(entry, m_mxCtrSeqNumber, up)
      BY DEF SendTsu, Send
    <2> QED
      BY <2>1, <2>2 DEF TypeOK
  <1>6. m_mxCtrSeqNumber' \in Csns
    <2>1. 1 \in 0 .. 255
      OBVIOUS
    <2> QED
      BY <1>1, <2>1, CsnAfterValue DEF SendTsu
  <1> QED
    BY <1>1, <1>4, <1>5, <1>6 DEF SendTsu

\* The splits that LinkDownTsu asks for.
LEMMA LinkDownType ==
    ASSUME TypeOK, LS!TypeOK', m_cidList' = Links, NEW cid, NEW split \in LinkDownTsu(cid)
    PROVE  split \in SUBSET Links /\ split # {}
  <1>1. LS!UpLinks' \subseteq Links /\ m_defaultLinkCid' \in Links
    BY DEF LS!UpLinks, LS!TypeOK
  <1>2. m_lastSplit \subseteq Links
    BY DEF TypeOK
  <1>3. CASE m_lastSplit = {}
    BY <1>1, <1>3 DEF LinkDownTsu
  <1>4. CASE m_lastSplit # {}
    <2>1. PICK dealt \in (SUBSET LS!UpLinks') \ {{}} : split = (m_lastSplit \ {cid}) \cup dealt
      BY <1>4 DEF LinkDownTsu
    <2> QED
      BY <1>1, <1>2, <2>1
  <1> QED
    BY <1>3, <1>4

\* What follows a link that goes down: nothing, or one TSU.
LEMMA NotifyCases ==
    ASSUME TypeOK, LS!TypeOK', m_cidList' = Links, NEW cid, NEW changed \in BOOLEAN, NEW queue,
           NotifyLinkDown(cid, changed, queue)
    PROVE  /\ m_lastSplit' \subseteq Links
           /\ \/ m_txedCtrQueue' = queue /\ UNCHANGED <<wire, m_mxCtrSeqNumber, lastTsu>>
              \/ \E split \in SUBSET Links, up \in BOOLEAN :
                    split # {} /\ SendTsu(split, queue, up)
  <1>1. CASE ~ changed \/ LinkDownTsu(cid) = {}
    BY <1>1 DEF NotifyLinkDown, TypeOK
  <1>2. CASE ~ (~ changed \/ LinkDownTsu(cid) = {})
    <2> DEFINE up == m_enableMarkCtrlLinkMap' => (WIFI_CID \in LS!UpLinks')
    <2>1. PICK split \in LinkDownTsu(cid) :
             /\ m_lastSplit' = IF m_lastSplit = {} THEN {} ELSE split
             /\ SendTsu(split, queue, up)
      BY <1>2 DEF NotifyLinkDown
    <2>2. up \in BOOLEAN
      OBVIOUS
    <2> HIDE DEF up
    <2>3. split \in SUBSET Links /\ split # {}
      BY LinkDownType
    <2>4. PICK u \in BOOLEAN : u = up
      BY <2>2
    <2>5. SendTsu(split, queue, u)
      BY <2>1, <2>4 DEF SendTsu
    <2> QED
      BY <2>1, <2>3, <2>5
  <1> QED
    BY <1>1, <1>2

\* A round of probes.
LEMMA ProbeType ==
    ASSUME TypeOK, PeriodicProbeMsg
    PROVE  /\ QueueOK(m_txedCtrQueue') /\ wire' \subseteq CtrlMsgs
           /\ m_mxCtrSeqNumber' \in Csns
  <1> DEFINE probe(cid) == Entry("probe", cid, {}, ProbeCsn(cid))
  <1>1. m_mxCtrSeqNumber \in Csns /\ "probe" \in CtrlTypes /\ {} \in SUBSET Links
        /\ "probe" # "tsu"
    BY DEF TypeOK, CtrlTypes
  <1>2. ASSUME NEW cid \in Links
        PROVE  /\ ProbeCsn(cid) \in Csns /\ probe(cid) \in Entries /\ QueueOK({probe(cid)})
    <2>1. ProbeCsn(cid) \in Csns
      <3>1. Cardinality({link \in Links : link < cid}) \in 0 .. 255
        BY LinkCount
      <3> QED
        BY <1>1, <3>1, CsnAfterValue DEF ProbeCsn
    <2> QED
      BY <1>1, <2>1, EntryType
  <1>3. QueueOK(m_txedCtrQueue')
    <2>1. m_txedCtrQueue' = m_txedCtrQueue \cup {probe(cid) : cid \in Links}
      BY DEF PeriodicProbeMsg
    <2>2. QueueOK(m_txedCtrQueue)
      BY DEF TypeOK, QueueOK
    <2> HIDE DEF probe
    <2> QED
      BY <1>2, <2>1, <2>2 DEF QueueOK
  <1>4. LinkStatus \in BOOLEAN
    BY DEF LinkStatus
  <1>5. wire' \subseteq CtrlMsgs
    <2>1. wire' \subseteq wire \cup UNION {Copies(probe(cid), ProbeCsn(cid), LinkStatus) : cid \in Links}
      BY DEF PeriodicProbeMsg, Send
    <2>2. ASSUME NEW cid \in Links
          PROVE  Copies(probe(cid), ProbeCsn(cid), LinkStatus) \subseteq CtrlMsgs
      BY <1>2, <1>4, CopiesType
    <2> HIDE DEF probe
    <2> QED
      BY <2>1, <2>2 DEF TypeOK
  <1>6. m_mxCtrSeqNumber' \in Csns
    BY <1>1, LinkCount, CsnAfterValue DEF PeriodicProbeMsg
  <1> QED
    BY <1>3, <1>5, <1>6

\* The entry that is sent again has one csn more, and no more than the limit allows.
LEMMA RetransmitType ==
    ASSUME TypeOK, NEW entry \in m_txedCtrQueue, Retransmit(entry)
    PROVE  /\ QueueOK(m_txedCtrQueue') /\ wire' \subseteq CtrlMsgs
           /\ m_mxCtrSeqNumber' \in Csns
           /\ lastTsu' \in [split : SUBSET Links, csns : SUBSET Csns, answered : BOOLEAN, overtaken : BOOLEAN]
  <1> DEFINE again == [entry EXCEPT !.csns = @ \cup {m_mxCtrSeqNumber}]
  <1>1. m_mxCtrSeqNumber \in Csns /\ entry \in Entries
    BY DEF TypeOK
  <1>2. /\ again \in Entries /\ again.csns = entry.csns \cup {m_mxCtrSeqNumber}
        /\ again.type = entry.type /\ again.split = entry.split
        /\ again.cid = entry.cid /\ again.first = entry.first
    BY <1>1 DEF Entries
  <1>3. QueueOK(m_txedCtrQueue) /\ QueueOK({entry})
    BY DEF TypeOK, QueueOK
  <1>4. /\ IsFiniteSet(entry.csns \cup {m_mxCtrSeqNumber})
        /\ Cardinality(entry.csns \cup {m_mxCtrSeqNumber}) <= MAX_RETX_ATTEMPT + 1
    <2>1. IsFiniteSet(entry.csns) /\ Cardinality(entry.csns) <= MAX_RETX_ATTEMPT
      BY <1>3 DEF Retransmit, RetransmitWith, QueueOK
    <2>2. Cardinality(entry.csns) \in Nat
      BY <2>1, FS_CardinalityType
    <2>3. /\ IsFiniteSet(entry.csns \cup {m_mxCtrSeqNumber})
          /\ \/ Cardinality(entry.csns \cup {m_mxCtrSeqNumber}) = Cardinality(entry.csns)
             \/ Cardinality(entry.csns \cup {m_mxCtrSeqNumber}) = Cardinality(entry.csns) + 1
      BY <2>1, FS_AddElement
    <2> QED
      BY <2>1, <2>2, <2>3, ChannelAssumption
  <1>5. QueueOK({again})
    <2>1. SentOver(again) = SentOver(entry)
      BY <1>2 DEF SentOver
    <2>2. entry.first \in entry.csns /\ SentOver(entry) # {}
      BY <1>3 DEF QueueOK
    <2> HIDE DEF again
    <2> QED
      BY <1>2, <1>4, <2>1, <2>2 DEF QueueOK
  <1>6. QueueOK(m_txedCtrQueue')
    <2>1. m_txedCtrQueue' = (m_txedCtrQueue \ {entry}) \cup {again}
      BY DEF Retransmit, RetransmitWith
    <2> HIDE DEF again
    <2> QED
      BY <1>3, <1>5, <2>1 DEF QueueOK
  <1>7. LinkStatus \in BOOLEAN
    BY DEF LinkStatus
  <1>8. wire' \subseteq CtrlMsgs
    <2>1. Copies(entry, m_mxCtrSeqNumber, LinkStatus) \subseteq CtrlMsgs
      BY <1>1, <1>7, CopiesType
    <2>2. wire' \subseteq wire \cup Copies(entry, m_mxCtrSeqNumber, LinkStatus)
      BY DEF Retransmit, RetransmitWith, Send
    <2> QED
      BY <2>1, <2>2 DEF TypeOK
  <1>9. m_mxCtrSeqNumber' \in Csns
    <2>1. 1 \in 0 .. 255
      OBVIOUS
    <2> QED
      BY <1>1, <2>1, CsnAfterValue DEF Retransmit, RetransmitWith
  <1>10. lastTsu' \in [split : SUBSET Links, csns : SUBSET Csns, answered : BOOLEAN, overtaken : BOOLEAN]
    BY <1>1 DEF Retransmit, RetransmitWith, TypeOK
  <1> QED
    BY <1>6, <1>8, <1>9, <1>10

\* A step that changes only the queue, by taking entries out of it or by sending a TSU.
LEMMA QueueStepType ==
    ASSUME TypeOK, NEW queue \in SUBSET m_txedCtrQueue,
           \/ m_txedCtrQueue' = queue /\ UNCHANGED <<wire, m_mxCtrSeqNumber, lastTsu>>
           \/ \E split \in SUBSET Links, up \in BOOLEAN : split # {} /\ SendTsu(split, queue, up)
    PROVE  /\ QueueOK(m_txedCtrQueue') /\ wire' \subseteq CtrlMsgs
           /\ m_mxCtrSeqNumber' \in Csns
           /\ lastTsu' \in [split : SUBSET Links, csns : SUBSET Csns, answered : BOOLEAN, overtaken : BOOLEAN]
  <1>1. CASE m_txedCtrQueue' = queue /\ UNCHANGED <<wire, m_mxCtrSeqNumber, lastTsu>>
    BY <1>1 DEF TypeOK, QueueOK
  <1>2. ASSUME NEW split \in SUBSET Links, NEW up \in BOOLEAN, split # {}, SendTsu(split, queue, up)
        PROVE  /\ QueueOK(m_txedCtrQueue') /\ wire' \subseteq CtrlMsgs
               /\ m_mxCtrSeqNumber' \in Csns
               /\ lastTsu' \in [split : SUBSET Links, csns : SUBSET Csns, answered : BOOLEAN, overtaken : BOOLEAN]
    BY <1>2, SendTsuType
  <1> QED
    BY <1>1, <1>2

\* The types of what the other side and the history hold.
LEMMA TypeParts ==
    ASSUME LS!TypeOK', m_cidList' = Links, QueueOK(m_txedCtrQueue'), wire' \subseteq CtrlMsgs,
           m_mxCtrSeqNumber' \in Csns, m_maxTsaSn' \in Csns, m_lastSplit' \subseteq Links,
           m_measurementOn' \in BOOLEAN, m_enableMarkCtrlLinkMap' \in BOOLEAN,
           m_wifiPowerRange' \in {0, 1}, acks' \subseteq Acks, tsuGivenUp' \in BOOLEAN,
           peer' \in [maxTsuSeqNum : Csns, maxLinkMapUpdateSn : Csns, split : SUBSET Links,
                      wifiUp : BOOLEAN],
           used' \in [probes : Nat, decisions : Nat, powers : Nat, scenario : Scenarios],
           lastTsu' \in [split : SUBSET Links, csns : SUBSET Csns, answered : BOOLEAN, overtaken : BOOLEAN]
    PROVE  TypeOK'
  <1>1. \A entry \in m_txedCtrQueue' :
          /\ entry.first \in entry.csns
          /\ SentOver(entry) # {}
          /\ IsFiniteSet(entry.csns) /\ Cardinality(entry.csns) <= MAX_RETX_ATTEMPT + 1
    BY DEF QueueOK
  <1>2. m_txedCtrQueue' \subseteq Entries
    BY DEF QueueOK
  <1> QED
    BY <1>1, <1>2 DEF TypeOK

LEMMA GiveUpCases ==
    ASSUME TypeOK, LS!TypeOK', m_cidList' = Links, NEW entry \in m_txedCtrQueue, GiveUp(entry)
    PROVE  /\ m_lastSplit' \subseteq Links
           /\ \/ /\ m_txedCtrQueue' = m_txedCtrQueue \ {entry}
                 /\ UNCHANGED <<wire, m_mxCtrSeqNumber, lastTsu>>
              \/ \E split \in SUBSET Links, up \in BOOLEAN :
                    split # {} /\ SendTsu(split, m_txedCtrQueue \ {entry}, up)
  <1>1. PICK changed \in BOOLEAN : changed = TakenDown(entry.cid)
    BY DEF TakenDown
  <1>2. NotifyLinkDown(entry.cid, changed, m_txedCtrQueue \ {entry})
    BY <1>1 DEF GiveUp, NotifyLinkDown
  <1> QED
    BY <1>2, NotifyCases

LEMMA WifiPowerCases ==
    ASSUME TypeOK, LS!TypeOK', m_cidList' = Links, NEW range \in {0, 1}, WifiPowerTrace(range)
    PROVE  /\ m_lastSplit' \subseteq Links
           /\ \/ m_txedCtrQueue' = m_txedCtrQueue /\ UNCHANGED <<wire, m_mxCtrSeqNumber, lastTsu>>
              \/ \E split \in SUBSET Links, up \in BOOLEAN :
                    split # {} /\ SendTsu(split, m_txedCtrQueue, up)
  <1>1. CASE range = 0
    <2>1. PICK changed \in BOOLEAN : changed = TakenDown(WIFI_CID)
      BY DEF TakenDown
    <2>2. NotifyLinkDown(WIFI_CID, changed, m_txedCtrQueue)
      BY <1>1, <2>1 DEF WifiPowerTrace, NotifyLinkDown
    <2> QED
      BY <2>2, NotifyCases
  <1>2. CASE range # 0
    BY <1>2 DEF WifiPowerTrace, TypeOK
  <1> QED
    BY <1>1, <1>2

LEMMA DecideCases ==
    ASSUME TypeOK, NEW split \in SUBSET Links, NEW by \in BOOLEAN, Decide(split, by)
    PROVE  \E up \in BOOLEAN : SendTsu(split, m_txedCtrQueue, up)
  <1>1. PICK up \in BOOLEAN : up = LinkStatus
    BY DEF LinkStatus
  <1> QED
    BY <1>1 DEF Decide, SendTsu

LEMMA TypeInductive ==
    ASSUME TypeOK, [Next]_vars
    PROVE  TypeOK'
  <1>0. LS!TypeOK' /\ m_cidList' = Links
    BY RegistryType
  <1>1. CASE PeriodicProbeMsg
    <2>1. QueueOK(m_txedCtrQueue') /\ wire' \subseteq CtrlMsgs /\ m_mxCtrSeqNumber' \in Csns
      BY <1>1, ProbeType
    <2>2. used' \in [probes : Nat, decisions : Nat, powers : Nat, scenario : Scenarios]
      BY <1>1 DEF PeriodicProbeMsg, TypeOK
    <2> QED
      BY <1>0, <1>1, <2>1, <2>2, TypeParts DEF PeriodicProbeMsg, TypeOK, history
  <1>2. ASSUME NEW split \in (SUBSET Links) \ {{}}, NEW by \in BOOLEAN, Decide(split, by)
        PROVE  TypeOK'
    <2>1. \E up \in BOOLEAN : SendTsu(split, m_txedCtrQueue, up)
      BY <1>2, DecideCases
    <2>2. /\ QueueOK(m_txedCtrQueue') /\ wire' \subseteq CtrlMsgs
          /\ m_mxCtrSeqNumber' \in Csns
          /\ lastTsu' \in [split : SUBSET Links, csns : SUBSET Csns, answered : BOOLEAN, overtaken : BOOLEAN]
      BY <2>1, QueueStepType
    <2>3. used' \in [probes : Nat, decisions : Nat, powers : Nat, scenario : Scenarios]
      BY <1>2 DEF Decide, TypeOK
    <2> QED
      BY <1>0, <1>2, <2>2, <2>3, TypeParts DEF Decide, TypeOK
  <1>3. ASSUME NEW entry \in m_txedCtrQueue, GiveUp(entry)
        PROVE  TypeOK'
    <2>1. /\ QueueOK(m_txedCtrQueue') /\ wire' \subseteq CtrlMsgs
          /\ m_mxCtrSeqNumber' \in Csns
          /\ lastTsu' \in [split : SUBSET Links, csns : SUBSET Csns, answered : BOOLEAN, overtaken : BOOLEAN]
          /\ m_lastSplit' \subseteq Links
      <3>1. PICK queue : queue = m_txedCtrQueue \ {entry}
        OBVIOUS
      <3>2. /\ m_lastSplit' \subseteq Links
            /\ \/ m_txedCtrQueue' = queue /\ UNCHANGED <<wire, m_mxCtrSeqNumber, lastTsu>>
               \/ \E split \in SUBSET Links, up \in BOOLEAN :
                     split # {} /\ SendTsu(split, queue, up)
        BY <1>0, <1>3, <3>1, GiveUpCases
      <3>3. queue \in SUBSET m_txedCtrQueue
        BY <3>1
      <3> QED
        BY <3>2, <3>3, QueueStepType
    <2> QED
      BY <1>0, <1>3, <2>1, TypeParts DEF GiveUp, TypeOK
  <1>4. ASSUME NEW entry \in m_txedCtrQueue, Retransmit(entry)
        PROVE  TypeOK'
    <2>1. /\ QueueOK(m_txedCtrQueue') /\ wire' \subseteq CtrlMsgs
          /\ m_mxCtrSeqNumber' \in Csns
          /\ lastTsu' \in [split : SUBSET Links, csns : SUBSET Csns, answered : BOOLEAN, overtaken : BOOLEAN]
      BY <1>4, RetransmitType
    <2> QED
      BY <1>0, <1>4, <2>1, TypeParts DEF Retransmit, RetransmitWith, TypeOK
  <1>5. ASSUME NEW range \in {0, 1}, WifiPowerTrace(range)
        PROVE  TypeOK'
    <2>1. /\ QueueOK(m_txedCtrQueue') /\ wire' \subseteq CtrlMsgs
          /\ m_mxCtrSeqNumber' \in Csns
          /\ lastTsu' \in [split : SUBSET Links, csns : SUBSET Csns, answered : BOOLEAN, overtaken : BOOLEAN]
          /\ m_lastSplit' \subseteq Links
      BY <1>0, <1>5, WifiPowerCases, QueueStepType
    <2>2. used' \in [probes : Nat, decisions : Nat, powers : Nat, scenario : Scenarios]
      BY <1>5 DEF WifiPowerTrace, TypeOK
    <2> QED
      BY <1>0, <1>5, <2>1, <2>2, TypeParts DEF WifiPowerTrace, TypeOK
  <1>6. ASSUME NEW msg \in wire, PeerRecvCtrlMsg(msg)
        PROVE  TypeOK'
    <2>1. msg \in CtrlMsgs
      BY DEF TypeOK
    <2>2. acks' \subseteq Acks /\ wire' \subseteq CtrlMsgs
      BY <1>6, <2>1 DEF PeerRecvCtrlMsg, TypeOK, Acks, CtrlMsgs
    <2>3. peer' \in [maxTsuSeqNum : Csns, maxLinkMapUpdateSn : Csns, split : SUBSET Links,
                     wifiUp : BOOLEAN]
      BY <1>6, <2>1 DEF PeerRecvCtrlMsg, TypeOK, CtrlMsgs
    <2>4. QueueOK(m_txedCtrQueue')
      BY <1>6 DEF PeerRecvCtrlMsg, TypeOK, QueueOK
    <2> QED
      BY <1>0, <1>6, <2>2, <2>3, <2>4, TypeParts DEF PeerRecvCtrlMsg, TypeOK, history
  <1>7. ASSUME NEW ack \in acks, RecvAck(ack)
        PROVE  TypeOK'
    <2>1. ack.csn \in Csns
      BY DEF TypeOK, Acks
    <2>2. acks' \subseteq Acks
      BY <1>7 DEF RecvAck, TypeOK
    <2>3. QueueOK(m_txedCtrQueue')
      BY <1>7 DEF RecvAck, TypeOK, QueueOK
    <2>4. m_maxTsaSn' \in Csns /\ m_measurementOn' \in BOOLEAN
      BY <1>7, <2>1 DEF RecvAck, TypeOK
    <2>5. lastTsu' \in [split : SUBSET Links, csns : SUBSET Csns, answered : BOOLEAN, overtaken : BOOLEAN]
      BY <1>7 DEF RecvAck, TypeOK
    <2> QED
      BY <1>0, <1>7, <2>2, <2>3, <2>4, <2>5, TypeParts DEF RecvAck, TypeOK
  <1>8. CASE UNCHANGED vars
    <2>1. QueueOK(m_txedCtrQueue')
      BY <1>8 DEF vars, TypeOK, QueueOK
    <2> QED
      BY <1>0, <1>8, <2>1, TypeParts DEF vars, history, TypeOK
  <1> QED
    BY <1>1, <1>2, <1>3, <1>4, <1>5, <1>6, <1>7, <1>8 DEF Next, RetxCtrlMsgExpires

LEMMA TypeInit ==
    ASSUME Init
    PROVE  TypeOK
  <1>1. LastCsn \in Csns /\ FirstCsn \in Csns
    <2>1. FirstCsn \in Csns
      BY ChannelAssumption DEF Csns
    <2>2. CASE FirstCsn = 0
      BY <2>1, <2>2 DEF LastCsn
    <2>3. CASE FirstCsn # 0
      <3>1. PICK last : last = FirstCsn - 1
        OBVIOUS
      <3>2. last \in Int
        BY <2>1, <3>1, CsnRange
      <3>3. 0 <= last /\ last < CsnSpace
        BY <2>1, <2>3, <3>1, CsnRange DEF CsnSpace
      <3> QED
        BY <2>1, <2>3, <3>1, <3>2, <3>3, InCsnRange DEF LastCsn
    <2> QED
      BY <2>1, <2>2, <2>3
  <1>2. used.scenario \in Scenarios
    BY DEF Init
  <1>3. m_preferLargeCidValue \in BOOLEAN
    BY <1>2, ChannelAssumption DEF Init, ScenarioType
  <1>4. LS!TypeOK
    BY <1>3, ChannelAssumption DEF Init, LS!TypeOK
  <1>5. used \in [probes : Nat, decisions : Nat, powers : Nat, scenario : Scenarios]
    BY DEF Init
  <1>6. m_cidList = Links /\ m_txedCtrQueue = {} /\ wire = {} /\ acks = {} /\ m_lastSplit = {}
    BY DEF Init
  <1>7. /\ m_mxCtrSeqNumber \in Csns /\ m_maxTsaSn \in Csns
        /\ m_measurementOn \in BOOLEAN /\ m_enableMarkCtrlLinkMap \in BOOLEAN
        /\ m_wifiPowerRange \in {0, 1} /\ tsuGivenUp \in BOOLEAN
    BY <1>1 DEF Init
  <1>8. /\ peer \in [maxTsuSeqNum : Csns, maxLinkMapUpdateSn : Csns, split : SUBSET Links,
                     wifiUp : BOOLEAN]
        /\ lastTsu \in [split : SUBSET Links, csns : SUBSET Csns, answered : BOOLEAN,
                        overtaken : BOOLEAN]
    BY <1>1 DEF Init
  <1> QED
    BY <1>4, <1>5, <1>6, <1>7, <1>8 DEF TypeOK

\* The registry, the queue, the messages of both directions, the peer and the history
\* always have their types; in particular no entry is transmitted more than
\* MAX_RETX_ATTEMPT + 1 times (RetxCtrlMsgExpires), each is sent over at least one
\* link, and the csns stay in 16 bits.
THEOREM TypeCorrect == Spec => []TypeOK
  <1>1. Init => TypeOK
    BY TypeInit
  <1>2. TypeOK /\ [Next]_vars => TypeOK'
    BY TypeInductive
  <1> QED
    BY <1>1, <1>2, PTL DEF Spec

-----------------------------------------------------------------------------
(***************************************************************************)
(* The control channel keeps what LinkState promises.                      *)
(***************************************************************************)

\* What RetxCtrlMsgExpires, WifiPowerTrace and RecvCtrlMsg do to the link registry are
\* operations of LinkState: every step of the channel is one step of LinkState on
\* configured links, or leaves the registry alone.
THEOREM RegistryIsRefined == Spec => [][LS!Next]_linkVars
  <1>1. TypeOK /\ [Next]_vars => [LS!Next]_linkVars
    BY RegistryStep
  <1> QED
    BY <1>1, TypeCorrect, PTL DEF Spec

\* The priority of the default link survives the channel: whatever is lost, repeated
\* or answered, and whether large or small cids are preferred, no link that is up
\* outranks the default link.
THEOREM ChannelKeepsPriority == Spec => []LS!NoUpLinkOutranksDefault
  <1>1. Init => LS!NoUpLinkOutranksDefault
    <2> SUFFICES ASSUME Init, NEW cid \in LS!UpLinks
                 PROVE  ~ LS!Outranks(cid, m_defaultLinkCid)
      BY DEF LS!NoUpLinkOutranksDefault
    <2>1. CASE FirstCsn = 0
      <3>1. cid = WIFI_CID /\ m_defaultLinkCid = WIFI_CID
        BY <2>1 DEF Init, LS!UpLinks, LS!IsLinkUp, LS!Down
      <3> QED
        BY <3>1, ChannelAssumption DEF LS!Outranks
    <2>2. CASE FirstCsn # 0
      BY <2>2 DEF Init, LS!UpLinks
    <2> QED
      BY <2>1, <2>2
  <1>2. TypeOK /\ LS!NoUpLinkOutranksDefault /\ [Next]_vars => LS!NoUpLinkOutranksDefault'
    <2> SUFFICES ASSUME TypeOK, LS!NoUpLinkOutranksDefault, [Next]_vars
                 PROVE  LS!NoUpLinkOutranksDefault'
      OBVIOUS
    <2>1. LSP!TypeOK /\ LSP!NoUpLinkOutranksDefault /\ [LSP!Next]_(LSP!vars)
      BY RegistryStep, SameRegistry DEF TypeOK
    <2>2. LSP!TypeOK'
      BY RegistryType DEF LS!TypeOK, LSP!TypeOK
    <2>3. LSP!NoUpLinkOutranksDefault'
      BY <2>1, <2>2, SameRegistry, LSP!PriorityStep
    <2> QED
      BY <2>3 DEF LS!NoUpLinkOutranksDefault, LSP!NoUpLinkOutranksDefault, LS!Outranks,
                  LSP!Outranks, LS!UpLinks, LSP!UpLinks, LS!IsLinkUp, LSP!IsLinkUp,
                  LS!Down, LSP!Down
  <1> QED
    BY <1>1, <1>2, TypeCorrect, PTL DEF Spec

-----------------------------------------------------------------------------
(***************************************************************************)
(* What a step does to the ages of the csns, to the queue and to the       *)
(* messages in flight.                                                     *)
(***************************************************************************)

\* The csns in use are older by n after a step that gives out n csns.
LEMMA OldCsns ==
    ASSUME m_mxCtrSeqNumber \in Csns, NEW n \in 0 .. 255, m_mxCtrSeqNumber' = CsnAfter(n),
           NEW c \in Csns, Age(c) < 32768
    PROVE  Age(c) \in Nat /\ AgeAt(m_mxCtrSeqNumber', c) = Age(c) + n
  <1>1. Age(c) \in Nat
    BY AgeType
  <1>2. Age(c)' = Age(c) + n
    BY AgeStep
  <1> QED
    BY <1>1, <1>2 DEF Age

\* The csns that it gives out are not in use, and are younger than those in use.
LEMMA NewCsns ==
    ASSUME m_mxCtrSeqNumber \in Csns, NEW n \in 0 .. 255, m_mxCtrSeqNumber' = CsnAfter(n),
           NEW k \in Nat, k < n, NEW csn, csn = CsnAfter(k)
    PROVE  /\ csn \in Csns /\ AgeAt(m_mxCtrSeqNumber', csn) \in 1 .. n
           /\ \A c \in Csns : Recent(c) =>
                 c # csn /\ AgeAt(m_mxCtrSeqNumber', csn) < AgeAt(m_mxCtrSeqNumber', c)
  <1>1. csn \in Csns /\ Age(csn)' = n - k
    BY NewAge
  <1>2. AgeAt(m_mxCtrSeqNumber', csn) = n - k
    BY <1>1 DEF Age
  <1>3. AgeAt(m_mxCtrSeqNumber', csn) \in 1 .. n
    BY <1>2
  <1>4. ASSUME NEW c \in Csns, Recent(c)
        PROVE  c # csn /\ AgeAt(m_mxCtrSeqNumber', csn) < AgeAt(m_mxCtrSeqNumber', c)
    <2>1. Age(c) \in Nat /\ Age(c) > 0 /\ Age(c) < 32768
      BY <1>4, AgeType DEF Recent
    <2>2. AgeAt(m_mxCtrSeqNumber', c) = Age(c) + n
      BY <2>1, OldCsns
    <2>3. AgeAt(m_mxCtrSeqNumber', csn) < AgeAt(m_mxCtrSeqNumber', c)
      BY <1>2, <2>1, <2>2
    <2>4. AgeAt(m_mxCtrSeqNumber', csn) # AgeAt(m_mxCtrSeqNumber', c)
      BY <1>2, <2>1, <2>2
    <2> QED
      BY <2>3, <2>4
  <1> QED
    BY <1>1, <1>3, <1>4

\* The same for a step that sends one message.
LEMMA NextCsn ==
    ASSUME m_mxCtrSeqNumber \in Csns, m_mxCtrSeqNumber' = CsnAfter(1)
    PROVE  /\ AgeAt(m_mxCtrSeqNumber', m_mxCtrSeqNumber) = 1
           /\ \A c \in Csns : Recent(c) =>
                 /\ c # m_mxCtrSeqNumber
                 /\ AgeAt(m_mxCtrSeqNumber', c) = Age(c) + 1
                 /\ AgeAt(m_mxCtrSeqNumber', c) > 1
           /\ \A c \in Csns : Age(c) < 32768 => AgeAt(m_mxCtrSeqNumber', c) = Age(c) + 1
  <1>1. PICK csn : csn = m_mxCtrSeqNumber
    OBVIOUS
  <1>2. csn = CsnAfter(0)
    <2>1. 0 \in 0 .. 255
      OBVIOUS
    <2>2. CsnAfter(0) = IF m_mxCtrSeqNumber + 0 < CsnSpace THEN m_mxCtrSeqNumber + 0
                        ELSE m_mxCtrSeqNumber + 0 - CsnSpace
      BY <2>1, CsnAfterValue
    <2> QED
      BY <1>1, <2>2, CsnRange DEF CsnSpace
  <1>3. 1 \in 0 .. 255 /\ 0 \in Nat /\ 0 < 1
    OBVIOUS
  <1>4. /\ AgeAt(m_mxCtrSeqNumber', csn) \in 1 .. 1
        /\ \A c \in Csns : Recent(c) =>
              c # csn /\ AgeAt(m_mxCtrSeqNumber', csn) < AgeAt(m_mxCtrSeqNumber', c)
    BY <1>2, <1>3, NewCsns
  <1>5. \A c \in Csns : Age(c) < 32768 => AgeAt(m_mxCtrSeqNumber', c) = Age(c) + 1
    BY <1>3, OldCsns
  <1>6. \A c \in Csns : Recent(c) => Age(c) < 32768
    BY DEF Recent
  <1>7. AgeAt(m_mxCtrSeqNumber', m_mxCtrSeqNumber) = 1
    BY <1>1, <1>4
  <1> QED
    BY <1>1, <1>4, <1>5, <1>6, <1>7

\* The csns in use are csns.
LEMMA InUse ==
    ASSUME TypeOK, CsnsAreRecent
    PROVE  /\ \A entry \in m_txedCtrQueue : \A c \in entry.csns : c \in Csns /\ Recent(c)
           /\ \A msg \in wire : msg.csn \in Csns /\ Recent(msg.csn)
           /\ \A ack \in acks : ack.csn \in Csns /\ Recent(ack.csn)
           /\ \A c \in lastTsu.csns : c \in Csns /\ Recent(c)
           /\ m_maxTsaSn \in Csns /\ Age(m_maxTsaSn) < 32768
           /\ peer.maxTsuSeqNum \in Csns /\ Age(peer.maxTsuSeqNum) < 32768
           /\ m_mxCtrSeqNumber \in Csns
  BY DEF TypeOK, CsnsAreRecent, Entries, CtrlMsgs, Acks

\* What SendTsu adds: an entry, and copies that have its csn and its split.
TsuAdded(split, queue) ==
    \E entry \in Entries :
        /\ entry.type = "tsu" /\ entry.split = split /\ entry.csns = {m_mxCtrSeqNumber}
        /\ m_txedCtrQueue' = queue \cup {entry}
        /\ \A msg \in wire' : \/ msg \in wire
                              \/ /\ msg.csn = m_mxCtrSeqNumber
                                 /\ msg.type = "tsu" /\ msg.split = split

LEMMA SendTsuAdds ==
    ASSUME TypeOK, NEW split \in SUBSET Links, split # {}, NEW queue \in SUBSET m_txedCtrQueue,
           NEW up \in BOOLEAN, SendTsu(split, queue, up)
    PROVE  TsuAdded(split, queue)
  <1> DEFINE entry == Entry("tsu", 0, split, m_mxCtrSeqNumber)
  <1>1. m_mxCtrSeqNumber \in Csns /\ 0 \in Links /\ "tsu" \in CtrlTypes
    BY ChannelAssumption DEF TypeOK, CtrlTypes, WIFI_CID
  <1>2. /\ entry \in Entries
        /\ entry.type = "tsu" /\ entry.split = split /\ entry.csns = {m_mxCtrSeqNumber}
    BY <1>1 DEF Entry, Entries
  <1>3. m_txedCtrQueue' = queue \cup {entry}
    BY DEF SendTsu
  <1>4. wire' \subseteq wire \cup Copies(entry, m_mxCtrSeqNumber, up)
    BY DEF SendTsu, Send
  <1>5. \A msg \in Copies(entry, m_mxCtrSeqNumber, up) :
           msg.csn = m_mxCtrSeqNumber /\ msg.type = entry.type /\ msg.split = entry.split
    BY <1>1, <1>2, CopiesType
  <1> HIDE DEF entry
  <1> QED
    BY <1>2, <1>3, <1>4, <1>5 DEF TsuAdded

\* What a round of probes adds.
LEMMA ProbesAdd ==
    ASSUME TypeOK, PeriodicProbeMsg
    PROVE  /\ m_txedCtrQueue \subseteq m_txedCtrQueue' /\ wire \subseteq wire'
           /\ \A entry \in m_txedCtrQueue' :
                 \/ entry \in m_txedCtrQueue
                 \/ entry.type = "probe" /\ \E cid \in Links : entry.csns = {ProbeCsn(cid)}
           /\ \A msg \in wire' :
                 \/ msg \in wire
                 \/ msg.type = "probe" /\ \E cid \in Links : msg.csn = ProbeCsn(cid)
  <1> DEFINE probe(cid) == Entry("probe", cid, {}, ProbeCsn(cid))
  <1>1. m_mxCtrSeqNumber \in Csns /\ "probe" \in CtrlTypes /\ {} \in SUBSET Links
        /\ "probe" # "tsu"
    BY DEF TypeOK, CtrlTypes
  <1>2. ASSUME NEW cid \in Links
        PROVE  /\ ProbeCsn(cid) \in Csns /\ probe(cid) \in Entries
               /\ probe(cid).type = "probe" /\ probe(cid).csns = {ProbeCsn(cid)}
    <2>1. Cardinality({link \in Links : link < cid}) \in 0 .. 255
      BY LinkCount
    <2>2. ProbeCsn(cid) \in Csns
      BY <1>1, <2>1, CsnAfterValue DEF ProbeCsn
    <2> QED
      BY <1>1, <2>2 DEF Entry, Entries
  <1>3. LinkStatus \in BOOLEAN
    BY DEF LinkStatus
  <1>4. ASSUME NEW cid \in Links, NEW msg \in Copies(probe(cid), ProbeCsn(cid), LinkStatus)
        PROVE  msg.csn = ProbeCsn(cid) /\ msg.type = "probe"
    BY <1>2, <1>3, CopiesType
  <1>5. /\ m_txedCtrQueue' = m_txedCtrQueue \cup {probe(cid) : cid \in Links}
        /\ wire \subseteq wire'
        /\ wire' \subseteq wire \cup UNION {Copies(probe(cid), ProbeCsn(cid), LinkStatus) : cid \in Links}
    BY DEF PeriodicProbeMsg, Send
  <1> HIDE DEF probe
  <1> QED
    BY <1>2, <1>4, <1>5

\* The csns of a round of probes.
LEMMA ProbeCsns ==
    ASSUME TypeOK, PeriodicProbeMsg
    PROVE  /\ \A cid \in Links, c \in Csns : Recent(c) => c # ProbeCsn(cid)
           /\ \A c \in Csns : Age(c) < 32768 =>
                 AgeAt(m_mxCtrSeqNumber', c) = Age(c) + Cardinality(Links)
  <1> DEFINE n == Cardinality(Links)
  <1>1. m_mxCtrSeqNumber \in Csns /\ n \in 0 .. 255 /\ m_mxCtrSeqNumber' = CsnAfter(n)
    BY LinkCount DEF TypeOK, PeriodicProbeMsg
  <1> HIDE DEF n
  <1>2. ASSUME NEW cid \in Links, NEW c \in Csns, Recent(c)
        PROVE  c # ProbeCsn(cid)
    <2>1. PICK k : k = Cardinality({link \in Links : link < cid})
      OBVIOUS
    <2>2. k \in Nat /\ k < n
      BY <2>1, LinkCount DEF n
    <2>3. PICK csn : csn = CsnAfter(k)
      OBVIOUS
    <2>4. c # csn
      BY <1>1, <1>2, <2>2, <2>3, NewCsns
    <2> QED
      BY <2>1, <2>3, <2>4 DEF ProbeCsn
  <1>3. \A c \in Csns : Age(c) < 32768 => AgeAt(m_mxCtrSeqNumber', c) = Age(c) + n
    BY <1>1, OldCsns
  <1> QED
    BY <1>2, <1>3 DEF n

\* What a retransmission adds.
LEMMA RetransmitAdds ==
    ASSUME TypeOK, NEW entry \in m_txedCtrQueue, Retransmit(entry)
    PROVE  /\ m_mxCtrSeqNumber' = CsnAfter(1)
           /\ \E again \in Entries :
                 /\ again.type = entry.type /\ again.split = entry.split
                 /\ again.csns = entry.csns \cup {m_mxCtrSeqNumber}
                 /\ m_txedCtrQueue' = (m_txedCtrQueue \ {entry}) \cup {again}
           /\ \A msg \in wire' : \/ msg \in wire
                                 \/ /\ msg.csn = m_mxCtrSeqNumber
                                    /\ msg.type = entry.type /\ msg.split = entry.split
  <1> DEFINE again == [entry EXCEPT !.csns = @ \cup {m_mxCtrSeqNumber}]
  <1>1. m_mxCtrSeqNumber \in Csns /\ entry \in Entries
    BY DEF TypeOK
  <1>2. /\ again \in Entries /\ again.csns = entry.csns \cup {m_mxCtrSeqNumber}
        /\ again.type = entry.type /\ again.split = entry.split
    BY <1>1 DEF Entries
  <1>3. m_txedCtrQueue' = (m_txedCtrQueue \ {entry}) \cup {again} /\ m_mxCtrSeqNumber' = CsnAfter(1)
    BY DEF Retransmit, RetransmitWith
  <1>4. wire' \subseteq wire \cup Copies(entry, m_mxCtrSeqNumber, LinkStatus)
    BY DEF Retransmit, RetransmitWith, Send
  <1>5. \A msg \in Copies(entry, m_mxCtrSeqNumber, LinkStatus) :
           msg.csn = m_mxCtrSeqNumber /\ msg.type = entry.type /\ msg.split = entry.split
    <2>1. LinkStatus \in BOOLEAN
      BY DEF LinkStatus
    <2> QED
      BY <1>1, <2>1, CopiesType
  <1> HIDE DEF again
  <1> QED
    BY <1>2, <1>3, <1>4, <1>5

-----------------------------------------------------------------------------
(***************************************************************************)
(* A stopped measurement waits for a TSA that restarts it.                 *)
(***************************************************************************)

\* Nothing is sent before the first probes, and the largest csns seen are csns that
\* have been given out.
StartedMeansSent ==
    /\ m_txedCtrQueue # {} => Started
    /\ Started => 0 < Age(m_maxTsaSn) /\ 0 < Age(peer.maxTsuSeqNum)

\* Whatever is in flight under a csn of a TSU is a copy of the TSU or its answer.
TsuAnswersAreTsas ==
    \A entry \in m_txedCtrQueue : entry.type = "tsu" =>
        /\ \A msg \in wire : msg.csn \in entry.csns => msg.type = "tsu"
        /\ \A ack \in acks : ack.csn \in entry.csns => ack.type = "tsa"

\* The TSU that a stopped measurement waits for was first sent after every TSU whose
\* answer has been counted, so that its own answer counts.
WaitingTsuIsNew ==
    (~ m_measurementOn /\ ~ tsuGivenUp) =>
        \E entry \in m_txedCtrQueue :
            entry.type = "tsu" /\ \A csn \in entry.csns : Age(csn) < Age(m_maxTsaSn)

WaitInv == StartedMeansSent /\ TsuAnswersAreTsas /\ WaitingTsuIsNew

LEMMA WaitInit ==
    ASSUME Init
    PROVE  WaitInv
  <1>1. Started => 0 < Age(LastCsn)
    <2> SUFFICES ASSUME Started PROVE 0 < Age(LastCsn)
      OBVIOUS
    <2>1. FirstCsn # 0
      BY DEF Started, Init
    <2>2. FirstCsn \in Csns /\ LastCsn \in Csns /\ m_mxCtrSeqNumber = FirstCsn
      BY TypeInit DEF Init, TypeOK
    <2>3. Age(LastCsn) = IF LastCsn <= m_mxCtrSeqNumber THEN m_mxCtrSeqNumber - LastCsn
                         ELSE m_mxCtrSeqNumber - LastCsn + CsnSpace
      BY <2>2, AgeValue DEF Age, AgeAt
    <2> QED
      BY <2>1, <2>2, <2>3, CsnRange DEF LastCsn
  <1>2. StartedMeansSent
    <2>1. m_maxTsaSn = LastCsn /\ peer.maxTsuSeqNum = LastCsn /\ m_txedCtrQueue = {}
      BY DEF Init
    <2> QED
      BY <1>1, <2>1 DEF StartedMeansSent
  <1> QED
    BY <1>2 DEF WaitInv, Init, TsuAnswersAreTsas, WaitingTsuIsNew

\* A step that sends a TSU, next to entries of the queue.
LEMMA WaitSendTsu ==
    ASSUME TypeOK, CsnsAreRecent, WaitInv, Started, Started',
           NEW split \in SUBSET Links, split # {}, NEW queue \in SUBSET m_txedCtrQueue,
           NEW up \in BOOLEAN, SendTsu(split, queue, up),
           UNCHANGED <<acks, peer, m_maxTsaSn>>
    PROVE  /\ StartedMeansSent' /\ TsuAnswersAreTsas'
           /\ \E entry \in m_txedCtrQueue' :
                 entry.type = "tsu" /\ \A csn \in entry.csns : Age(csn)' < Age(m_maxTsaSn)'
  <1>0. TsuAdded(split, queue)
    BY SendTsuAdds
  <1>1. PICK new \in Entries :
           /\ new.type = "tsu" /\ new.split = split /\ new.csns = {m_mxCtrSeqNumber}
           /\ m_txedCtrQueue' = queue \cup {new}
           /\ \A msg \in wire' : \/ msg \in wire
                                 \/ /\ msg.csn = m_mxCtrSeqNumber
                                    /\ msg.type = "tsu" /\ msg.split = split
    BY <1>0 DEF TsuAdded
  <1>2. m_mxCtrSeqNumber \in Csns /\ m_mxCtrSeqNumber' = CsnAfter(1)
    BY DEF TypeOK, SendTsu
  <1>3. /\ AgeAt(m_mxCtrSeqNumber', m_mxCtrSeqNumber) = 1
        /\ \A c \in Csns : Recent(c) => c # m_mxCtrSeqNumber
        /\ \A c \in Csns : Age(c) < 32768 => AgeAt(m_mxCtrSeqNumber', c) = Age(c) + 1
    BY <1>2, NextCsn
  <1>4. /\ 0 < Age(m_maxTsaSn) /\ Age(m_maxTsaSn) \in Nat
        /\ 0 < Age(peer.maxTsuSeqNum) /\ Age(peer.maxTsuSeqNum) \in Nat
        /\ Age(m_maxTsaSn)' = Age(m_maxTsaSn) + 1
        /\ Age(peer.maxTsuSeqNum)' = Age(peer.maxTsuSeqNum) + 1
    BY <1>3, InUse, AgeType DEF WaitInv, StartedMeansSent, Age
  <1>5. StartedMeansSent'
    BY <1>4 DEF StartedMeansSent
  <1>6. TsuAnswersAreTsas'
    BY <1>1, <1>3, InUse DEF WaitInv, TsuAnswersAreTsas
  <1>7. /\ new.type = "tsu"
        /\ \A csn \in new.csns : Age(csn)' < Age(m_maxTsaSn)'
    BY <1>1, <1>3, <1>4 DEF Age
  <1> QED
    BY <1>1, <1>5, <1>6, <1>7

\* The TSU that a stopped measurement waits for.
Awaited(entry) ==
    entry.type = "tsu" /\ \A csn \in entry.csns : Age(csn) < Age(m_maxTsaSn)

\* A step that gives out no csn and sends nothing to the peer.
LEMMA WaitQuiet ==
    ASSUME TypeOK, CsnsAreRecent, WaitInv, m_mxCtrSeqNumber' = m_mxCtrSeqNumber,
           wire' \subseteq wire, acks' \subseteq acks, m_txedCtrQueue' \subseteq m_txedCtrQueue
    PROVE  TsuAnswersAreTsas'
  BY DEF WaitInv, TsuAnswersAreTsas

LEMMA WaitProbes ==
    ASSUME TypeOK, CsnsAreRecent, WaitInv, PeriodicProbeMsg
    PROVE  WaitInv'
  <1>1. /\ m_txedCtrQueue \subseteq m_txedCtrQueue' /\ wire \subseteq wire'
        /\ \A entry \in m_txedCtrQueue' :
              \/ entry \in m_txedCtrQueue
              \/ entry.type = "probe" /\ \E cid \in Links : entry.csns = {ProbeCsn(cid)}
        /\ \A msg \in wire' :
              \/ msg \in wire
              \/ msg.type = "probe" /\ \E cid \in Links : msg.csn = ProbeCsn(cid)
    BY ProbesAdd
  <1>2. /\ \A cid \in Links, c \in Csns : Recent(c) => c # ProbeCsn(cid)
        /\ \A c \in Csns : Age(c) < 32768 =>
              AgeAt(m_mxCtrSeqNumber', c) = Age(c) + Cardinality(Links)
    BY ProbeCsns
  <1>3. UNCHANGED <<m_maxTsaSn, acks, peer, m_measurementOn, tsuGivenUp>>
    BY DEF PeriodicProbeMsg, history
  <1>4. Cardinality(Links) \in Nat /\ Cardinality(Links) > 0
    BY LinkCount
  <1>5. StartedMeansSent'
    <2>1. /\ Age(m_maxTsaSn)' = Age(m_maxTsaSn) + Cardinality(Links)
          /\ Age(peer.maxTsuSeqNum)' = Age(peer.maxTsuSeqNum) + Cardinality(Links)
      BY <1>2, <1>3, InUse DEF Age
    <2>2. Age(m_maxTsaSn) \in Nat /\ Age(peer.maxTsuSeqNum) \in Nat
      BY InUse, AgeType
    <2>3. Started'
      BY DEF PeriodicProbeMsg, Started, TypeOK
    <2> QED
      BY <1>4, <2>1, <2>2, <2>3 DEF StartedMeansSent
  <1>6. TsuAnswersAreTsas'
    BY <1>1, <1>2, <1>3, InUse DEF WaitInv, TsuAnswersAreTsas
  <1>7. WaitingTsuIsNew'
    <2> SUFFICES ASSUME ~ m_measurementOn', ~ tsuGivenUp'
                 PROVE  \E entry \in m_txedCtrQueue' :
                            entry.type = "tsu" /\ \A csn \in entry.csns : Age(csn)' < Age(m_maxTsaSn)'
      BY DEF WaitingTsuIsNew
    <2>1. PICK entry \in m_txedCtrQueue : Awaited(entry)
      BY <1>3 DEF WaitInv, WaitingTsuIsNew, Awaited
    <2>2. ASSUME NEW csn \in entry.csns
          PROVE  Age(csn)' < Age(m_maxTsaSn)'
      <3>1. csn \in Csns /\ Age(csn) < 32768 /\ Age(csn) < Age(m_maxTsaSn)
        BY <2>1, InUse DEF Awaited, Recent
      <3>2. Age(csn)' = Age(csn) + Cardinality(Links)
        BY <1>2, <3>1 DEF Age
      <3>3. Age(m_maxTsaSn)' = Age(m_maxTsaSn) + Cardinality(Links)
        BY <1>2, <1>3, InUse DEF Age
      <3>4. Age(csn) \in Nat /\ Age(m_maxTsaSn) \in Nat
        BY <3>1, InUse, AgeType
      <3> QED
        BY <1>4, <3>1, <3>2, <3>3, <3>4
    <2> QED
      BY <1>1, <2>1, <2>2 DEF Awaited
  <1> QED
    BY <1>5, <1>6, <1>7 DEF WaitInv

LEMMA WaitRetransmit ==
    ASSUME TypeOK, CsnsAreRecent, WaitInv, NEW entry \in m_txedCtrQueue, Retransmit(entry)
    PROVE  WaitInv'
  <1>1. m_mxCtrSeqNumber \in Csns /\ m_mxCtrSeqNumber' = CsnAfter(1)
    BY RetransmitAdds DEF TypeOK
  <1>2. PICK again \in Entries :
           /\ again.type = entry.type /\ again.split = entry.split
           /\ again.csns = entry.csns \cup {m_mxCtrSeqNumber}
           /\ m_txedCtrQueue' = (m_txedCtrQueue \ {entry}) \cup {again}
    BY RetransmitAdds
  <1>3. \A msg \in wire' : \/ msg \in wire
                           \/ /\ msg.csn = m_mxCtrSeqNumber
                              /\ msg.type = entry.type /\ msg.split = entry.split
    BY RetransmitAdds
  <1>4. /\ AgeAt(m_mxCtrSeqNumber', m_mxCtrSeqNumber) = 1
        /\ \A c \in Csns : Recent(c) => c # m_mxCtrSeqNumber
        /\ \A c \in Csns : Age(c) < 32768 => AgeAt(m_mxCtrSeqNumber', c) = Age(c) + 1
    BY <1>1, NextCsn
  <1>5. UNCHANGED <<m_maxTsaSn, acks, peer, m_measurementOn, tsuGivenUp, used>>
    BY DEF Retransmit, RetransmitWith
  <1>6. Started
    BY DEF WaitInv, StartedMeansSent
  <1>7. /\ 0 < Age(m_maxTsaSn) /\ Age(m_maxTsaSn) \in Nat
        /\ 0 < Age(peer.maxTsuSeqNum) /\ Age(peer.maxTsuSeqNum) \in Nat
        /\ Age(m_maxTsaSn)' = Age(m_maxTsaSn) + 1
        /\ Age(peer.maxTsuSeqNum)' = Age(peer.maxTsuSeqNum) + 1
    BY <1>4, <1>5, <1>6, InUse, AgeType DEF WaitInv, StartedMeansSent, Age
  <1>8. StartedMeansSent'
    BY <1>5, <1>6, <1>7 DEF StartedMeansSent, Started
  <1>9. TsuAnswersAreTsas'
    BY <1>2, <1>3, <1>4, <1>5, InUse DEF WaitInv, TsuAnswersAreTsas
  <1>10. WaitingTsuIsNew'
    <2> SUFFICES ASSUME ~ m_measurementOn', ~ tsuGivenUp'
                 PROVE  \E e \in m_txedCtrQueue' :
                            e.type = "tsu" /\ \A csn \in e.csns : Age(csn)' < Age(m_maxTsaSn)'
      BY DEF WaitingTsuIsNew
    <2>1. PICK waiting \in m_txedCtrQueue : Awaited(waiting)
      BY <1>5 DEF WaitInv, WaitingTsuIsNew, Awaited
    <2>2. ASSUME NEW csn \in waiting.csns
          PROVE  Age(csn)' < Age(m_maxTsaSn)'
      <3>1. csn \in Csns /\ Age(csn) < 32768 /\ Age(csn) < Age(m_maxTsaSn)
        BY <2>1, InUse DEF Awaited, Recent
      <3>2. Age(csn)' = Age(csn) + 1
        BY <1>4, <3>1 DEF Age
      <3>3. Age(csn) \in Nat
        BY <1>1, <3>1, AgeType
      <3> QED
        BY <1>7, <3>1, <3>2, <3>3
    <2>3. CASE waiting = entry
      <3>1. ASSUME NEW csn \in again.csns
            PROVE  Age(csn)' < Age(m_maxTsaSn)'
        <4>1. CASE csn = m_mxCtrSeqNumber
          BY <1>4, <1>7, <4>1 DEF Age
        <4>2. CASE csn \in entry.csns
          BY <2>2, <2>3, <4>2
        <4> QED
          BY <1>2, <4>1, <4>2
      <3> QED
        BY <1>2, <2>1, <2>3, <3>1 DEF Awaited
    <2>4. CASE waiting # entry
      BY <1>2, <2>1, <2>2, <2>4 DEF Awaited
    <2> QED
      BY <2>3, <2>4
  <1> QED
    BY <1>8, <1>9, <1>10 DEF WaitInv

\* A message at the peer: its answer is of its type, and a csn is only ever replaced
\* by one that has been given out.
LEMMA WaitPeerRecv ==
    ASSUME TypeOK, CsnsAreRecent, WaitInv, NEW msg \in wire, PeerRecvCtrlMsg(msg)
    PROVE  WaitInv'
  <1>1. UNCHANGED <<m_mxCtrSeqNumber, m_txedCtrQueue, m_measurementOn, m_maxTsaSn, used, tsuGivenUp>>
    BY DEF PeerRecvCtrlMsg, history
  <1>2. peer'.maxTsuSeqNum \in {msg.csn, peer.maxTsuSeqNum}
    BY DEF PeerRecvCtrlMsg
  <1>3. 0 < Age(msg.csn)
    BY InUse DEF Recent
  <1>4. StartedMeansSent'
    BY <1>1, <1>2, <1>3 DEF WaitInv, StartedMeansSent, Started, Age
  <1>5. TsuAnswersAreTsas'
    <2>1. wire' \subseteq wire
      BY DEF PeerRecvCtrlMsg
    <2>2. \A ack \in acks' : \/ ack \in acks
                             \/ ack.csn = msg.csn /\ (msg.type = "tsu" => ack.type = "tsa")
      BY DEF PeerRecvCtrlMsg
    <2> QED
      BY <1>1, <2>1, <2>2 DEF WaitInv, TsuAnswersAreTsas
  <1>6. WaitingTsuIsNew'
    BY <1>1 DEF WaitInv, WaitingTsuIsNew, Age
  <1> QED
    BY <1>4, <1>5, <1>6 DEF WaitInv

\* An answer: when it takes the awaited TSU out of the queue it restarts the
\* measurement, because it is a TSA and newer than the TSAs before it.
LEMMA WaitRecvAck ==
    ASSUME TypeOK, CsnsAreRecent, WaitInv, NEW ack \in acks, RecvAck(ack)
    PROVE  WaitInv'
  <1>1. UNCHANGED <<m_mxCtrSeqNumber, wire, peer, used, tsuGivenUp>> /\ acks' \subseteq acks
    BY DEF RecvAck
  <1>2. m_txedCtrQueue' \subseteq m_txedCtrQueue
    BY DEF RecvAck
  <1>3. \/ UNCHANGED <<m_maxTsaSn, m_measurementOn>>
        \/ m_maxTsaSn' = ack.csn /\ m_measurementOn' = TRUE
    BY DEF RecvAck
  <1>4. 0 < Age(ack.csn) /\ Age(ack.csn) < 32768 /\ ack.csn \in Csns
    BY InUse DEF Recent
  <1>5. StartedMeansSent'
    <2>1. 0 < Age(m_maxTsaSn) => 0 < Age(m_maxTsaSn)'
      BY <1>1, <1>3, <1>4 DEF Age
    <2>2. Age(peer.maxTsuSeqNum)' = Age(peer.maxTsuSeqNum)
      BY <1>1 DEF Age
    <2>3. Started' <=> Started
      BY <1>1 DEF Started
    <2> QED
      BY <1>2, <2>1, <2>2, <2>3 DEF WaitInv, StartedMeansSent
  <1>6. TsuAnswersAreTsas'
    BY <1>1, <1>2, WaitQuiet
  <1>7. WaitingTsuIsNew'
    <2> SUFFICES ASSUME ~ m_measurementOn', ~ tsuGivenUp'
                 PROVE  \E e \in m_txedCtrQueue' :
                            e.type = "tsu" /\ \A csn \in e.csns : Age(csn)' < Age(m_maxTsaSn)'
      BY DEF WaitingTsuIsNew
    <2>1. UNCHANGED <<m_maxTsaSn, m_measurementOn>>
      BY <1>3
    <2>2. PICK waiting \in m_txedCtrQueue : Awaited(waiting)
      BY <1>1, <2>1 DEF WaitInv, WaitingTsuIsNew, Awaited
    <2>3. waiting \in m_txedCtrQueue'
      <3>1. CASE ack.csn \in waiting.csns
        <4>1. ack.type = "tsa"
          BY <2>2, <3>1 DEF WaitInv, TsuAnswersAreTsas, Awaited
        <4>2. CsnDiff(ack.csn, m_maxTsaSn) = Age(m_maxTsaSn) - Age(ack.csn)
          BY <1>4, InUse, CsnDiffIsAge
        <4>3. Age(ack.csn) < Age(m_maxTsaSn)
          BY <2>2, <3>1 DEF Awaited
        <4>4. Age(ack.csn) \in Int /\ Age(m_maxTsaSn) \in Int
          BY <1>4, InUse, AgeType
        <4>5. CsnDiff(ack.csn, m_maxTsaSn) > 0
          BY <4>2, <4>3, <4>4
        <4>6. m_measurementOn' = TRUE
          BY <2>2, <3>1, <4>1, <4>5 DEF RecvAck
        <4> QED
          BY <4>6
      <3>2. CASE ack.csn \notin waiting.csns
        BY <2>2, <3>2 DEF RecvAck
      <3> QED
        BY <3>1, <3>2
    <2> QED
      BY <1>1, <2>1, <2>2, <2>3 DEF Awaited, Age
  <1> QED
    BY <1>5, <1>6, <1>7 DEF WaitInv

\* A step that takes entries out of the queue and may send a TSU: the awaited TSU stays
\* in the queue, or is given up.
LEMMA WaitQueueStep ==
    ASSUME TypeOK, CsnsAreRecent, WaitInv, Started, Started', NEW queue \in SUBSET m_txedCtrQueue,
           \/ m_txedCtrQueue' = queue /\ UNCHANGED <<wire, m_mxCtrSeqNumber, lastTsu>>
           \/ \E split \in SUBSET Links, up \in BOOLEAN : split # {} /\ SendTsu(split, queue, up),
           UNCHANGED <<acks, peer, m_maxTsaSn, m_measurementOn>>,
           ~ tsuGivenUp' => ~ tsuGivenUp /\ \A entry \in m_txedCtrQueue \ queue : entry.type # "tsu"
    PROVE  WaitInv'
  <1>1. CASE m_txedCtrQueue' = queue /\ UNCHANGED <<wire, m_mxCtrSeqNumber, lastTsu>>
    <2>1. TsuAnswersAreTsas'
      BY <1>1, WaitQuiet
    <2>2. StartedMeansSent'
      BY <1>1 DEF WaitInv, StartedMeansSent, Age
    <2>3. WaitingTsuIsNew'
      BY <1>1 DEF WaitInv, WaitingTsuIsNew, Age
    <2> QED
      BY <2>1, <2>2, <2>3 DEF WaitInv
  <1>2. ASSUME NEW split \in SUBSET Links, NEW up \in BOOLEAN, split # {}, SendTsu(split, queue, up)
        PROVE  WaitInv'
    <2>1. /\ StartedMeansSent' /\ TsuAnswersAreTsas'
          /\ \E entry \in m_txedCtrQueue' :
                entry.type = "tsu" /\ \A csn \in entry.csns : Age(csn)' < Age(m_maxTsaSn)'
      BY <1>2, WaitSendTsu
    <2> QED
      BY <2>1 DEF WaitInv, WaitingTsuIsNew
  <1> QED
    BY <1>1, <1>2

LEMMA WaitInductive ==
    ASSUME TypeOK, CsnsAreRecent, WaitInv, [Next]_vars
    PROVE  WaitInv'
  <1>0. LS!TypeOK' /\ m_cidList' = Links
    BY RegistryType
  <1>1. CASE PeriodicProbeMsg
    BY <1>1, WaitProbes
  <1>2. ASSUME NEW split \in (SUBSET Links) \ {{}}, NEW by \in BOOLEAN, Decide(split, by)
        PROVE  WaitInv'
    <2>1. PICK up \in BOOLEAN : SendTsu(split, m_txedCtrQueue, up)
      BY <1>2, DecideCases
    <2>2. Started /\ Started' /\ UNCHANGED <<acks, peer, m_maxTsaSn>>
      BY <1>2 DEF Decide, Started, TypeOK
    <2>3. /\ StartedMeansSent' /\ TsuAnswersAreTsas'
          /\ \E entry \in m_txedCtrQueue' :
                entry.type = "tsu" /\ \A csn \in entry.csns : Age(csn)' < Age(m_maxTsaSn)'
      BY <2>1, <2>2, WaitSendTsu
    <2> QED
      BY <2>3 DEF WaitInv, WaitingTsuIsNew
  <1>3. ASSUME NEW entry \in m_txedCtrQueue, GiveUp(entry)
        PROVE  WaitInv'
    <2>1. PICK queue : queue = m_txedCtrQueue \ {entry}
      OBVIOUS
    <2>2. \/ m_txedCtrQueue' = queue /\ UNCHANGED <<wire, m_mxCtrSeqNumber, lastTsu>>
          \/ \E split \in SUBSET Links, up \in BOOLEAN : split # {} /\ SendTsu(split, queue, up)
      BY <1>0, <1>3, <2>1, GiveUpCases
    <2>3. Started /\ Started' /\ UNCHANGED <<acks, peer, m_maxTsaSn, m_measurementOn>>
      BY <1>3 DEF GiveUp, WaitInv, StartedMeansSent, Started
    <2>4. ~ tsuGivenUp' => ~ tsuGivenUp /\ entry.type # "tsu"
      BY <1>3 DEF GiveUp
    <2>5. queue \in SUBSET m_txedCtrQueue
          /\ (~ tsuGivenUp' => ~ tsuGivenUp /\ \A e \in m_txedCtrQueue \ queue : e.type # "tsu")
      BY <2>1, <2>4
    <2> QED
      BY <2>2, <2>3, <2>5, WaitQueueStep
  <1>4. ASSUME NEW entry \in m_txedCtrQueue, Retransmit(entry)
        PROVE  WaitInv'
    BY <1>4, WaitRetransmit
  <1>5. ASSUME NEW range \in {0, 1}, WifiPowerTrace(range)
        PROVE  WaitInv'
    <2>1. PICK queue : queue = m_txedCtrQueue
      OBVIOUS
    <2>2. \/ m_txedCtrQueue' = queue /\ UNCHANGED <<wire, m_mxCtrSeqNumber, lastTsu>>
          \/ \E split \in SUBSET Links, up \in BOOLEAN : split # {} /\ SendTsu(split, queue, up)
      BY <1>0, <1>5, <2>1, WifiPowerCases
    <2>3. Started /\ Started' /\ UNCHANGED <<acks, peer, m_maxTsaSn, m_measurementOn, tsuGivenUp>>
      BY <1>5 DEF WifiPowerTrace, Started, TypeOK
    <2>4. queue \in SUBSET m_txedCtrQueue
          /\ (~ tsuGivenUp' => ~ tsuGivenUp /\ \A e \in m_txedCtrQueue \ queue : e.type # "tsu")
      BY <2>1, <2>3
    <2> QED
      BY <2>2, <2>3, <2>4, WaitQueueStep
  <1>6. ASSUME NEW msg \in wire, PeerRecvCtrlMsg(msg)
        PROVE  WaitInv'
    BY <1>6, WaitPeerRecv
  <1>7. ASSUME NEW ack \in acks, RecvAck(ack)
        PROVE  WaitInv'
    BY <1>7, WaitRecvAck
  <1>8. CASE UNCHANGED vars
    BY <1>8 DEF vars, history, WaitInv, StartedMeansSent, Started, TsuAnswersAreTsas,
                WaitingTsuIsNew, Age
  <1> QED
    BY <1>1, <1>2, <1>3, <1>4, <1>5, <1>6, <1>7, <1>8 DEF Next, RetxCtrlMsgExpires

\* A measurement that a decision stopped is never left without a TSU whose TSA
\* restarts it, unless that TSU was given up: with any loss, delay, reordering and
\* retransmission, as long as no message, answer or counter in use is half the csn
\* space old (RecvCtrlMsg compares 16-bit csns).
THEOREM MeasurementRestarts == (Spec /\ []CsnsAreRecent) => []StoppedMeasurementAwaitsTsa
  <1>1. Init => WaitInv
    BY WaitInit
  <1>2. TypeOK /\ CsnsAreRecent /\ WaitInv /\ [Next]_vars => WaitInv'
    BY WaitInductive
  <1>3. WaitInv => StoppedMeasurementAwaitsTsa
    BY DEF WaitInv, WaitingTsuIsNew, StoppedMeasurementAwaitsTsa, NoTsuWaiting
  <1> QED
    BY <1>1, <1>2, <1>3, TypeCorrect, PTL DEF Spec

-----------------------------------------------------------------------------
(***************************************************************************)
(* An answered TSU is the split of the peer.                               *)
(***************************************************************************)

\* `csn` is not of the last TSU, and is older than all its transmissions.
Older(csn) == csn \notin lastTsu.csns /\ \A c \in lastTsu.csns : Age(c) < Age(csn)

\* The entries that share a csn with the last TSU are the last TSU.
LastTsuInQueue ==
    \A entry \in m_txedCtrQueue :
        \/ entry.type = "tsu" /\ entry.csns \subseteq lastTsu.csns /\ entry.split = lastTsu.split
        \/ entry.csns \cap lastTsu.csns = {}

\* The TSUs in flight are copies of the last one, or older.
LastTsuInFlight ==
    \A msg \in wire :
        IF msg.csn \in lastTsu.csns THEN msg.type = "tsu" /\ msg.split = lastTsu.split
        ELSE msg.type = "tsu" => Older(msg.csn)

\* The peer has taken over the last TSU.
Adopted == peer.maxTsuSeqNum \in lastTsu.csns

\* The peer answers the last TSU only after it has taken it over, and no older TSU
\* overtakes it.
LastTsuAtPeer ==
    /\ IF Adopted THEN peer.split = lastTsu.split ELSE Older(peer.maxTsuSeqNum)
    /\ lastTsu.answered => Adopted
    /\ \A ack \in acks : ack.csn \in lastTsu.csns => Adopted

AdoptInv ==
    /\ LastTsuInQueue
    /\ ~ lastTsu.overtaken => LastTsuInFlight /\ LastTsuAtPeer

LEMMA AdoptInit ==
    ASSUME Init
    PROVE  AdoptInv
  BY DEF Init, AdoptInv, LastTsuInQueue, LastTsuInFlight, LastTsuAtPeer, Adopted, Older

LEMMA AdoptSendTsu ==
    ASSUME TypeOK, CsnsAreRecent, WaitInv, AdoptInv, Started,
           NEW split \in SUBSET Links, split # {}, NEW queue \in SUBSET m_txedCtrQueue,
           NEW up \in BOOLEAN, SendTsu(split, queue, up),
           UNCHANGED <<acks, peer>>
    PROVE  AdoptInv'
  <1>0. TsuAdded(split, queue)
    BY SendTsuAdds
  <1>1. PICK new \in Entries :
           /\ new.type = "tsu" /\ new.split = split /\ new.csns = {m_mxCtrSeqNumber}
           /\ m_txedCtrQueue' = queue \cup {new}
           /\ \A msg \in wire' : \/ msg \in wire
                                 \/ /\ msg.csn = m_mxCtrSeqNumber
                                    /\ msg.type = "tsu" /\ msg.split = split
    BY <1>0 DEF TsuAdded
  <1>2. m_mxCtrSeqNumber \in Csns /\ m_mxCtrSeqNumber' = CsnAfter(1)
    BY DEF TypeOK, SendTsu
  <1>3. /\ AgeAt(m_mxCtrSeqNumber', m_mxCtrSeqNumber) = 1
        /\ \A c \in Csns : Recent(c) => /\ c # m_mxCtrSeqNumber
                                        /\ AgeAt(m_mxCtrSeqNumber', c) > 1
    BY <1>2, NextCsn
  <1>4. /\ lastTsu'.split = split /\ lastTsu'.csns = {m_mxCtrSeqNumber}
        /\ lastTsu'.answered = FALSE
    BY DEF SendTsu
  <1>5. Recent(peer.maxTsuSeqNum) /\ peer.maxTsuSeqNum \in Csns
    BY InUse DEF WaitInv, StartedMeansSent, Recent
  <1>6. LastTsuInQueue'
    <2>1. \A entry \in queue : m_mxCtrSeqNumber \notin entry.csns
      BY <1>3, InUse
    <2> QED
      BY <1>1, <1>4, <2>1 DEF LastTsuInQueue
  <1>7. \A msg \in wire : msg.csn # m_mxCtrSeqNumber /\ Older(msg.csn)'
    BY <1>3, <1>4, InUse DEF Older, Age
  <1>8. LastTsuInFlight'
    BY <1>1, <1>4, <1>7 DEF LastTsuInFlight
  <1>9. LastTsuAtPeer'
    <2>1. ~ Adopted'
      BY <1>3, <1>4, <1>5 DEF Adopted
    <2>2. Older(peer.maxTsuSeqNum)'
      BY <1>3, <1>4, <1>5 DEF Older, Age
    <2>3. \A ack \in acks' : ack.csn \notin lastTsu'.csns
      BY <1>3, <1>4, InUse
    <2> QED
      BY <1>4, <2>1, <2>2, <2>3 DEF LastTsuAtPeer
  <1> QED
    BY <1>6, <1>8, <1>9 DEF AdoptInv

LEMMA AdoptProbes ==
    ASSUME TypeOK, CsnsAreRecent, AdoptInv, PeriodicProbeMsg
    PROVE  AdoptInv'
  <1>1. /\ \A entry \in m_txedCtrQueue' :
              \/ entry \in m_txedCtrQueue
              \/ entry.type = "probe" /\ \E cid \in Links : entry.csns = {ProbeCsn(cid)}
        /\ \A msg \in wire' :
              \/ msg \in wire
              \/ msg.type = "probe" /\ \E cid \in Links : msg.csn = ProbeCsn(cid)
    BY ProbesAdd
  <1>2. /\ \A cid \in Links, c \in Csns : Recent(c) => c # ProbeCsn(cid)
        /\ \A c \in Csns : Age(c) < 32768 =>
              AgeAt(m_mxCtrSeqNumber', c) = Age(c) + Cardinality(Links)
    BY ProbeCsns
  <1>3. UNCHANGED <<acks, peer, lastTsu>>
    BY DEF PeriodicProbeMsg, history
  <1>4. \A c \in lastTsu.csns : \A cid \in Links : c # ProbeCsn(cid)
    BY <1>2, InUse
  <1>5. LastTsuInQueue'
    BY <1>1, <1>3, <1>4 DEF AdoptInv, LastTsuInQueue
  <1> SUFFICES ASSUME ~ lastTsu.overtaken
               PROVE  LastTsuInFlight' /\ LastTsuAtPeer'
    BY <1>3, <1>5 DEF AdoptInv
  <1>6. ASSUME NEW csn \in Csns, Age(csn) < 32768, Older(csn)
        PROVE  Older(csn)'
    <2>1. ASSUME NEW c \in lastTsu.csns
          PROVE  AgeAt(m_mxCtrSeqNumber', c) < AgeAt(m_mxCtrSeqNumber', csn)
      <3>1. c \in Csns /\ Age(c) < 32768 /\ Age(c) < Age(csn)
        BY <1>6, InUse DEF Older, Recent
      <3>2. Age(c) \in Nat /\ Age(csn) \in Nat /\ Cardinality(Links) \in Nat
        BY <3>1, InUse, AgeType, LinkCount
      <3>3. /\ AgeAt(m_mxCtrSeqNumber', c) = Age(c) + Cardinality(Links)
            /\ AgeAt(m_mxCtrSeqNumber', csn) = Age(csn) + Cardinality(Links)
        BY <1>2, <1>6, <3>1
      <3> QED
        BY <3>1, <3>2, <3>3
    <2> QED
      BY <1>3, <1>6, <2>1 DEF Older, Age
  <1>7. LastTsuInFlight'
    <2>1. \A msg \in wire : msg.csn \in Csns /\ Age(msg.csn) < 32768
      BY InUse DEF Recent
    <2>2. \A msg \in wire : Older(msg.csn) => Older(msg.csn)'
      BY <1>6, <2>1
    <2> QED
      BY <1>1, <1>3, <1>4, <2>2 DEF AdoptInv, LastTsuInFlight
  <1>8. LastTsuAtPeer'
    <2>1. PICK t : t = peer.maxTsuSeqNum
      OBVIOUS
    <2>2. Older(t) => Older(t)'
      BY <1>6, <2>1, InUse
    <2>3. Older(peer.maxTsuSeqNum) => Older(peer.maxTsuSeqNum)'
      BY <1>3, <2>1, <2>2 DEF Older, Age
    <2> QED
      BY <1>3, <2>3 DEF AdoptInv, LastTsuAtPeer, Adopted
  <1> QED
    BY <1>7, <1>8

LEMMA AdoptRetransmit ==
    ASSUME TypeOK, CsnsAreRecent, WaitInv, AdoptInv, NEW entry \in m_txedCtrQueue, Retransmit(entry)
    PROVE  AdoptInv'
  <1> DEFINE last == entry.first \in lastTsu.csns
  <1>1. m_mxCtrSeqNumber \in Csns /\ m_mxCtrSeqNumber' = CsnAfter(1)
    BY RetransmitAdds DEF TypeOK
  <1>2. PICK again \in Entries :
           /\ again.type = entry.type /\ again.split = entry.split
           /\ again.csns = entry.csns \cup {m_mxCtrSeqNumber}
           /\ m_txedCtrQueue' = (m_txedCtrQueue \ {entry}) \cup {again}
    BY RetransmitAdds
  <1>3. \A msg \in wire' : \/ msg \in wire
                           \/ /\ msg.csn = m_mxCtrSeqNumber
                              /\ msg.type = entry.type /\ msg.split = entry.split
    BY RetransmitAdds
  <1>4. /\ AgeAt(m_mxCtrSeqNumber', m_mxCtrSeqNumber) = 1
        /\ \A c \in Csns : Recent(c) => /\ c # m_mxCtrSeqNumber
                                        /\ AgeAt(m_mxCtrSeqNumber', c) = Age(c) + 1
                                        /\ AgeAt(m_mxCtrSeqNumber', c) > 1
    BY <1>1, NextCsn
  <1>5. UNCHANGED <<acks, peer>>
    BY DEF Retransmit, RetransmitWith
  <1>6. Recent(peer.maxTsuSeqNum) /\ peer.maxTsuSeqNum \in Csns
    BY InUse DEF WaitInv, StartedMeansSent, Recent
  <1>7. /\ lastTsu'.split = lastTsu.split /\ lastTsu'.answered = lastTsu.answered
        /\ lastTsu'.csns = IF last THEN lastTsu.csns \cup {m_mxCtrSeqNumber} ELSE lastTsu.csns
        /\ ~ lastTsu'.overtaken => ~ lastTsu.overtaken /\ (entry.type = "tsu" => last)
    <2>3. lastTsu \in [split : SUBSET Links, csns : SUBSET Csns, answered : BOOLEAN,
                     overtaken : BOOLEAN]
      BY DEF TypeOK
    <2> QED
      BY <2>3 DEF Retransmit, RetransmitWith
  <1>m. IF last THEN /\ entry.type = "tsu" /\ entry.csns \subseteq lastTsu.csns
                     /\ entry.split = lastTsu.split
        ELSE entry.csns \cap lastTsu.csns = {}
    <2>1. entry.first \in entry.csns
      BY DEF TypeOK
    <2> QED
      BY <2>1 DEF AdoptInv, LastTsuInQueue
  <1>8. m_mxCtrSeqNumber \notin lastTsu.csns /\ \A e \in m_txedCtrQueue : m_mxCtrSeqNumber \notin e.csns
    BY <1>4, InUse
  <1>9. LastTsuInQueue'
    <2>1. ASSUME NEW e \in m_txedCtrQueue'
          PROVE  \/ e.type = "tsu" /\ e.csns \subseteq lastTsu'.csns /\ e.split = lastTsu'.split
                 \/ e.csns \cap lastTsu'.csns = {}
      <3>1. PICK old \in m_txedCtrQueue :
               /\ old.type = e.type /\ old.split = e.split
               /\ \/ e.csns = old.csns
                  \/ old = entry /\ e.csns = old.csns \cup {m_mxCtrSeqNumber}
        BY <1>2
      <3>2. \/ old.type = "tsu" /\ old.csns \subseteq lastTsu.csns /\ old.split = lastTsu.split
            \/ old.csns \cap lastTsu.csns = {}
        BY DEF AdoptInv, LastTsuInQueue
      <3>3. CASE e.csns = old.csns
        BY <1>7, <1>8, <3>1, <3>2, <3>3
      <3>4. CASE old = entry /\ e.csns = old.csns \cup {m_mxCtrSeqNumber}
        BY <1>7, <1>m, <1>8, <3>1, <3>4
      <3> QED
        BY <3>1, <3>3, <3>4
    <2> QED
      BY <2>1 DEF LastTsuInQueue
  <1> SUFFICES ASSUME ~ lastTsu'.overtaken
               PROVE  LastTsuInFlight' /\ LastTsuAtPeer'
    BY <1>9 DEF AdoptInv
  <1>n. LastTsuInFlight /\ LastTsuAtPeer /\ (entry.type = "tsu" => last)
    BY <1>7 DEF AdoptInv
  <1>10. ASSUME NEW csn \in Csns, Recent(csn), Older(csn)
         PROVE  Older(csn)'
    <2>1. csn \notin lastTsu'.csns
      BY <1>4, <1>7, <1>10 DEF Older
    <2>2. ASSUME NEW c \in lastTsu'.csns
          PROVE  AgeAt(m_mxCtrSeqNumber', c) < AgeAt(m_mxCtrSeqNumber', csn)
      <3>1. CASE c = m_mxCtrSeqNumber
        BY <1>4, <1>10, <3>1
      <3>2. CASE c \in lastTsu.csns
        <4>1. c \in Csns /\ Recent(c) /\ Age(c) < Age(csn)
          BY <1>10, <3>2, InUse DEF Older
        <4>2. Age(c) \in Nat /\ Age(csn) \in Nat
          BY <1>1, <4>1, AgeType
        <4> QED
          BY <1>4, <1>10, <4>1, <4>2
      <3> QED
        BY <1>7, <3>1, <3>2
    <2> QED
      BY <2>1, <2>2 DEF Older, Age
  <1>11. LastTsuInFlight'
    <2>1. \A msg \in wire : msg.csn # m_mxCtrSeqNumber /\ (Older(msg.csn) => Older(msg.csn)')
      BY <1>4, <1>10, InUse
    <2>2. entry.type = "tsu" => entry.split = lastTsu.split
      BY <1>m, <1>n
    <2>3. \A msg \in wire : msg.csn \in lastTsu'.csns <=> msg.csn \in lastTsu.csns
      BY <1>7, <2>1
    <2>4. ASSUME NEW msg \in wire'
          PROVE  IF msg.csn \in lastTsu'.csns THEN msg.type = "tsu" /\ msg.split = lastTsu'.split
                 ELSE msg.type = "tsu" => Older(msg.csn)'
      <3>1. CASE msg \in wire
        BY <1>7, <1>n, <2>1, <2>3, <3>1 DEF LastTsuInFlight
      <3>2. CASE msg.csn = m_mxCtrSeqNumber /\ msg.type = entry.type /\ msg.split = entry.split
        BY <1>7, <1>m, <1>n, <1>8, <2>2, <3>2
      <3> QED
        BY <1>3, <3>1, <3>2
    <2> QED
      BY <2>4 DEF LastTsuInFlight
  <1>12. LastTsuAtPeer'
    <2>1. PICK t : t = peer.maxTsuSeqNum
      OBVIOUS
    <2>2. Older(t) => Older(t)'
      BY <1>6, <1>10, <2>1
    <2>3. Older(peer.maxTsuSeqNum) => Older(peer.maxTsuSeqNum)'
      BY <1>5, <2>1, <2>2 DEF Older, Age
    <2>4. Adopted' <=> Adopted
      BY <1>4, <1>5, <1>6, <1>7 DEF Adopted
    <2>5. \A ack \in acks : ack.csn \in lastTsu'.csns <=> ack.csn \in lastTsu.csns
      BY <1>4, <1>7, InUse
    <2> QED
      BY <1>5, <1>7, <1>n, <2>3, <2>4, <2>5 DEF LastTsuAtPeer
  <1> QED
    BY <1>11, <1>12

\* The peer takes over the last TSU when its first copy arrives, whatever older TSU it
\* has seen, and no older one after it.
LEMMA AdoptPeerRecv ==
    ASSUME TypeOK, CsnsAreRecent, AdoptInv, NEW msg \in wire, PeerRecvCtrlMsg(msg)
    PROVE  AdoptInv'
  <1>1. UNCHANGED <<m_mxCtrSeqNumber, m_txedCtrQueue, lastTsu>> /\ wire' \subseteq wire
    BY DEF PeerRecvCtrlMsg, history
  <1>2. \A ack \in acks' : ack \in acks \/ ack.csn = msg.csn
    BY DEF PeerRecvCtrlMsg
  <1>3. CsnDiff(msg.csn, peer.maxTsuSeqNum) = Age(peer.maxTsuSeqNum) - Age(msg.csn)
    BY InUse, CsnDiffIsAge DEF Recent
  <1>4. Age(peer.maxTsuSeqNum) \in Int /\ Age(msg.csn) \in Int
    BY InUse, AgeType
  <1>5. LastTsuInQueue'
    BY <1>1 DEF AdoptInv, LastTsuInQueue
  <1> SUFFICES ASSUME ~ lastTsu.overtaken
               PROVE  LastTsuInFlight' /\ LastTsuAtPeer'
    BY <1>1, <1>5 DEF AdoptInv
  <1>6. LastTsuInFlight /\ LastTsuAtPeer
    BY DEF AdoptInv
  <1>7. LastTsuInFlight'
    BY <1>1, <1>6 DEF LastTsuInFlight, Older, Age
  <1>8. CASE msg.type = "tsu" /\ CsnDiff(msg.csn, peer.maxTsuSeqNum) > 0
    <2>1. peer'.maxTsuSeqNum = msg.csn /\ peer'.split = msg.split
      BY <1>8 DEF PeerRecvCtrlMsg
    <2>2. Age(msg.csn) < Age(peer.maxTsuSeqNum)
      BY <1>3, <1>4, <1>8
    <2>3. CASE msg.csn \in lastTsu.csns
      <3>1. Adopted' /\ peer'.split = lastTsu'.split
        BY <1>1, <1>6, <2>1, <2>3 DEF Adopted, LastTsuInFlight
      <3>2. LastTsuAtPeer'
        BY <3>1 DEF LastTsuAtPeer
      <3> QED
        BY <1>7, <3>2
    <2>4. CASE msg.csn \notin lastTsu.csns
      <3>1. Older(msg.csn)
        BY <1>6, <1>8, <2>4 DEF LastTsuInFlight
      <3>2. ~ Adopted
        <4>1. SUFFICES ASSUME Adopted PROVE FALSE
          OBVIOUS
        <4>2. Age(peer.maxTsuSeqNum) < Age(msg.csn)
          BY <3>1, <4>1 DEF Adopted, Older
        <4> QED
          BY <1>4, <2>2, <4>2
      <3>3. ~ Adopted' /\ Older(peer.maxTsuSeqNum)'
        BY <1>1, <2>1, <2>4, <3>1 DEF Adopted, Older, Age
      <3>4. ~ lastTsu'.answered /\ \A ack \in acks' : ack.csn \notin lastTsu'.csns
        BY <1>1, <1>2, <1>6, <2>4, <3>2 DEF LastTsuAtPeer
      <3>5. LastTsuAtPeer'
        BY <3>3, <3>4 DEF LastTsuAtPeer
      <3> QED
        BY <1>7, <3>5
    <2> QED
      BY <2>3, <2>4
  <1>9. CASE ~ (msg.type = "tsu" /\ CsnDiff(msg.csn, peer.maxTsuSeqNum) > 0)
    <2>1. peer'.maxTsuSeqNum = peer.maxTsuSeqNum /\ peer'.split = peer.split
      BY <1>9 DEF PeerRecvCtrlMsg
    <2>2. msg.csn \in lastTsu.csns => Adopted
      <3> SUFFICES ASSUME msg.csn \in lastTsu.csns, ~ Adopted
                   PROVE  FALSE
        OBVIOUS
      <3>1. msg.type = "tsu" /\ Older(peer.maxTsuSeqNum)
        BY <1>6 DEF LastTsuInFlight, LastTsuAtPeer
      <3>2. Age(msg.csn) < Age(peer.maxTsuSeqNum)
        BY <3>1 DEF Older
      <3> QED
        BY <1>3, <1>4, <1>9, <3>1, <3>2
    <2>3. Adopted' <=> Adopted
      BY <1>1, <2>1 DEF Adopted
    <2>4. Older(peer.maxTsuSeqNum)' <=> Older(peer.maxTsuSeqNum)
      BY <1>1, <2>1 DEF Older, Age
    <2>5. LastTsuAtPeer'
      BY <1>1, <1>2, <1>6, <2>1, <2>2, <2>3, <2>4 DEF LastTsuAtPeer
    <2> QED
      BY <1>7, <2>5
  <1> QED
    BY <1>8, <1>9

\* A step that sends nothing and changes neither the peer nor the last TSU, except that
\* an answer may mark it as answered.
LEMMA AdoptQuiet ==
    ASSUME AdoptInv, UNCHANGED <<m_mxCtrSeqNumber, wire, peer>>, acks' \subseteq acks,
           m_txedCtrQueue' \subseteq m_txedCtrQueue,
           lastTsu'.csns = lastTsu.csns, lastTsu'.split = lastTsu.split,
           lastTsu'.overtaken = lastTsu.overtaken,
           lastTsu'.answered => lastTsu.answered \/ \E ack \in acks : ack.csn \in lastTsu.csns
    PROVE  AdoptInv'
  <1>1. LastTsuInQueue'
    BY DEF AdoptInv, LastTsuInQueue
  <1> SUFFICES ASSUME ~ lastTsu.overtaken
               PROVE  LastTsuInFlight' /\ LastTsuAtPeer'
    BY <1>1 DEF AdoptInv
  <1>2. LastTsuInFlight'
    BY DEF AdoptInv, LastTsuInFlight, Older, Age
  <1>3. LastTsuAtPeer'
    <2>1. Adopted' <=> Adopted
      BY DEF Adopted
    <2>2. Older(peer.maxTsuSeqNum)' <=> Older(peer.maxTsuSeqNum)
      BY DEF Older, Age
    <2> QED
      BY <2>1, <2>2 DEF AdoptInv, LastTsuAtPeer
  <1> QED
    BY <1>2, <1>3

LEMMA AdoptQueueStep ==
    ASSUME TypeOK, CsnsAreRecent, WaitInv, AdoptInv, Started,
           NEW queue \in SUBSET m_txedCtrQueue,
           \/ m_txedCtrQueue' = queue /\ UNCHANGED <<wire, m_mxCtrSeqNumber, lastTsu>>
           \/ \E split \in SUBSET Links, up \in BOOLEAN : split # {} /\ SendTsu(split, queue, up),
           UNCHANGED <<acks, peer>>
    PROVE  AdoptInv'
  <1>1. CASE m_txedCtrQueue' = queue /\ UNCHANGED <<wire, m_mxCtrSeqNumber, lastTsu>>
    BY <1>1, AdoptQuiet
  <1>2. ASSUME NEW split \in SUBSET Links, NEW up \in BOOLEAN, split # {}, SendTsu(split, queue, up)
        PROVE  AdoptInv'
    BY <1>2, AdoptSendTsu
  <1> QED
    BY <1>1, <1>2

LEMMA AdoptInductive ==
    ASSUME TypeOK, CsnsAreRecent, WaitInv, AdoptInv, [Next]_vars
    PROVE  AdoptInv'
  <1>0. LS!TypeOK' /\ m_cidList' = Links
    BY RegistryType
  <1>1. CASE PeriodicProbeMsg
    BY <1>1, AdoptProbes
  <1>2. ASSUME NEW split \in (SUBSET Links) \ {{}}, NEW by \in BOOLEAN, Decide(split, by)
        PROVE  AdoptInv'
    <2>1. PICK up \in BOOLEAN : SendTsu(split, m_txedCtrQueue, up)
      BY <1>2, DecideCases
    <2>2. Started /\ UNCHANGED <<acks, peer>>
      BY <1>2 DEF Decide
    <2> QED
      BY <2>1, <2>2, AdoptSendTsu
  <1>3. ASSUME NEW entry \in m_txedCtrQueue, GiveUp(entry)
        PROVE  AdoptInv'
    <2>1. PICK queue : queue = m_txedCtrQueue \ {entry}
      OBVIOUS
    <2>2. \/ m_txedCtrQueue' = queue /\ UNCHANGED <<wire, m_mxCtrSeqNumber, lastTsu>>
          \/ \E split \in SUBSET Links, up \in BOOLEAN : split # {} /\ SendTsu(split, queue, up)
      BY <1>0, <1>3, <2>1, GiveUpCases
    <2>3. Started /\ UNCHANGED <<acks, peer>>
      BY <1>3 DEF GiveUp, WaitInv, StartedMeansSent
    <2>4. queue \in SUBSET m_txedCtrQueue
      BY <2>1
    <2> QED
      BY <2>2, <2>3, <2>4, AdoptQueueStep
  <1>4. ASSUME NEW entry \in m_txedCtrQueue, Retransmit(entry)
        PROVE  AdoptInv'
    BY <1>4, AdoptRetransmit
  <1>5. ASSUME NEW range \in {0, 1}, WifiPowerTrace(range)
        PROVE  AdoptInv'
    <2>1. PICK queue : queue = m_txedCtrQueue
      OBVIOUS
    <2>2. \/ m_txedCtrQueue' = queue /\ UNCHANGED <<wire, m_mxCtrSeqNumber, lastTsu>>
          \/ \E split \in SUBSET Links, up \in BOOLEAN : split # {} /\ SendTsu(split, queue, up)
      BY <1>0, <1>5, <2>1, WifiPowerCases
    <2>3. Started /\ UNCHANGED <<acks, peer>>
      BY <1>5 DEF WifiPowerTrace
    <2>4. queue \in SUBSET m_txedCtrQueue
      BY <2>1
    <2> QED
      BY <2>2, <2>3, <2>4, AdoptQueueStep
  <1>6. ASSUME NEW msg \in wire, PeerRecvCtrlMsg(msg)
        PROVE  AdoptInv'
    BY <1>6, AdoptPeerRecv
  <1>7. ASSUME NEW ack \in acks, RecvAck(ack)
        PROVE  AdoptInv'
    <2>1. UNCHANGED <<m_mxCtrSeqNumber, wire, peer>> /\ acks' \subseteq acks
          /\ m_txedCtrQueue' \subseteq m_txedCtrQueue
      BY <1>7 DEF RecvAck
    <2>2. /\ lastTsu'.csns = lastTsu.csns /\ lastTsu'.split = lastTsu.split
          /\ lastTsu'.overtaken = lastTsu.overtaken
          /\ lastTsu'.answered => lastTsu.answered \/ ack.csn \in lastTsu.csns
      <3>1. lastTsu \in [split : SUBSET Links, csns : SUBSET Csns, answered : BOOLEAN,
                     overtaken : BOOLEAN]
        BY DEF TypeOK
      <3> QED
        BY <1>7, <3>1 DEF RecvAck
    <2> QED
      BY <2>1, <2>2, AdoptQuiet
  <1>8. CASE UNCHANGED vars
    BY <1>8, AdoptQuiet DEF vars, history
  <1> QED
    BY <1>1, <1>2, <1>3, <1>4, <1>5, <1>6, <1>7, <1>8 DEF Next, RetxCtrlMsgExpires

\* When the last TSU has been answered the peer splits the traffic as it says
\* (RecvCtrlMsg at both ends), for any number of unanswered TSUs and with any loss,
\* delay, reordering and retransmission, unless RetxCtrlMsgExpires has sent an older
\* TSU again under a new csn; as long as no message, answer or counter in use is half
\* the csn space old.
THEOREM AnsweredMeansAdopted == (Spec /\ []CsnsAreRecent) => []AnsweredTsuIsAdopted
  <1>1. Init => WaitInv /\ AdoptInv
    BY WaitInit, AdoptInit
  <1>2. TypeOK /\ CsnsAreRecent /\ (WaitInv /\ AdoptInv) /\ [Next]_vars => (WaitInv /\ AdoptInv)'
    BY WaitInductive, AdoptInductive
  <1>3. WaitInv /\ AdoptInv => AnsweredTsuIsAdopted
    BY DEF AdoptInv, LastTsuAtPeer, AnsweredTsuIsAdopted
  <1> QED
    BY <1>1, <1>2, <1>3, TypeCorrect, PTL DEF Spec

=============================================================================
