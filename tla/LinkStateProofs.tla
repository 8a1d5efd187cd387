--------------------------- MODULE LinkStateProofs ---------------------------
(***************************************************************************)
(* Theorems about LinkState, for every set of cids, every initial default  *)
(* link and either preference.                                             *)
(***************************************************************************)
EXTENDS LinkState, WellFoundedInduction, TLAPS

\* A set of numbers has a least one.
LEMMA LeastNumber ==
    ASSUME NEW S \in SUBSET Nat, S # {}
    PROVE  \E m \in S : \A n \in S : m <= n
  <1> DEFINE R == OpToRel(<, Nat)
  <1>1. IsWellFoundedOn(R, Nat)
    BY NatLessThanWellFounded, Zenon
  <1>2. \A x, y \in Nat : x < y => <<x, y>> \in R
    BY DEF OpToRel
  <1> HIDE DEF R
  <1>3. PICK m \in S : \A n \in S : <<n, m>> \notin R
    BY <1>1, WFMin
  <1>4. \A n \in S : n \in Nat /\ m \in Nat /\ ~ (n < m)
    BY <1>2, <1>3
  <1>5. \A n \in S : m <= n
    BY <1>4
  <1> QED
    BY <1>5

\* What the search loop of SetLinkDown returns: "none" (always, when large cids
\* are preferred), or a link that is up and that no link that is up outranks.
LEMMA SearchResult ==
    ASSUME NEW up, up \subseteq Cids
    PROVE  \/ SearchOkCid(up) = UINT8_MAX /\ (m_preferLargeCidValue \/ up = {})
           \/ /\ ~ m_preferLargeCidValue
              /\ SearchOkCid(up) \in up
              /\ SearchOkCid(up) # UINT8_MAX
              /\ \A cid \in up : ~ Outranks(cid, SearchOkCid(up))
<1> DEFINE better == {cid \in up : IF m_preferLargeCidValue THEN cid > UINT8_MAX
                                                            ELSE cid < UINT8_MAX}
<1>1. \A cid \in up : cid \in Nat /\ cid < UINT8_MAX
  BY CidAssumption DEF UINT8_MAX
<1>2. CASE m_preferLargeCidValue
  <2>1. better = {}
    BY <1>1, <1>2 DEF UINT8_MAX
  <2>2. QED
    BY <2>1, <1>2 DEF SearchOkCid
<1>3. CASE ~ m_preferLargeCidValue
  <2>1. better = up
    BY <1>1, <1>3
  <2>2. CASE up = {}
    BY <2>1, <2>2, <1>3 DEF SearchOkCid
  <2>3. CASE up # {}
    <3>1. \E m \in up : \A n \in up : ~ (n < m)
      <4>1. up \in SUBSET Nat
        BY <1>1
      <4>2. PICK m \in up : \A n \in up : m <= n
        BY <4>1, <2>3, LeastNumber
      <4>3. QED
        BY <4>1, <4>2
    <3>2. \E m \in better : \A c \in better : ~ Outranks(c, m)
      BY <3>1, <2>1, <1>3 DEF Outranks
    <3>3. SearchOkCid(up) = CHOOSE m \in better : \A c \in better : ~ Outranks(c, m)
      BY <2>1, <2>3 DEF SearchOkCid
    <3> HIDE DEF better
    <3>4. /\ SearchOkCid(up) \in better
          /\ \A c \in better : ~ Outranks(c, SearchOkCid(up))
      BY <3>2, <3>3
    <3>5. QED
      BY <3>4, <2>1, <1>1, <1>3
  <2>4. QED
    BY <2>2, <2>3
<1>4. QED
  BY <1>2, <1>3

-----------------------------------------------------------------------------
\* The steps of the registry keep its types.
LEMMA TypeStep ==
    ASSUME TypeOK, [Next]_vars
    PROVE  TypeOK'
<1>1. ASSUME NEW cid \in Cids, NEW up, up \subseteq Cids, SetLinkDown(cid, up)
      PROVE  m_defaultLinkCid' \in Cids
  BY <1>1, SearchResult DEF SetLinkDown, TypeOK
<1>2. ASSUME NEW cid \in Cids, GoesDown(cid)
      PROVE  m_defaultLinkCid' \in Cids
  <2>1. UpLinks \ {cid} \subseteq Cids
    BY DEF UpLinks, TypeOK
  <2>2. QED
    BY <1>1, <1>2, <2>1 DEF GoesDown, TypeOK
<1>3. ASSUME NEW cid \in Cids, NEW own, NEW others, ComesUp(cid, own, others)
      PROVE  m_defaultLinkCid' \in Cids
  BY <1>3 DEF ComesUp, SetLinkUp, TypeOK
<1>4. ASSUME NEW cid \in Cids, AddPhyLink(cid)
      PROVE  TypeOK'
  BY <1>4 DEF AddPhyLink, TypeOK
<1>5. ASSUME NEW cid \in Cids, SetFixedDefaultCid(cid)
      PROVE  TypeOK'
  BY <1>5 DEF SetFixedDefaultCid, TypeOK
<1>6. ASSUME NEW cid \in Cids, LinkBitMapDown(cid)
      PROVE  TypeOK'
  BY <1>2, <1>6 DEF LinkBitMapDown, TypeOK
<1>7. ASSUME NEW cid \in Cids, LinkBitMapUp(cid)
      PROVE  TypeOK'
  BY <1>3, <1>7 DEF LinkBitMapUp, TypeOK
<1>8. ASSUME NEW cid \in m_cidList, CtrlMsgDown(cid)
      PROVE  TypeOK'
  BY <1>2, <1>8 DEF CtrlMsgDown, TypeOK
<1>9. ASSUME NEW cid \in m_cidList, CtrlMsgUp(cid)
      PROVE  TypeOK'
  BY <1>3, <1>9 DEF CtrlMsgUp, TypeOK
<1>10. ASSUME NEW cid \in m_cidList, LowRssiDown(cid)
       PROVE  TypeOK'
  BY <1>2, <1>10 DEF LowRssiDown, TypeOK
<1>11. ASSUME NEW cid \in m_cidList, HighRssiUp(cid)
       PROVE  TypeOK'
  BY <1>3, <1>11 DEF HighRssiUp, TypeOK
<1>12. CASE UNCHANGED vars
  BY <1>12 DEF vars, TypeOK
<1>13. QED
  BY <1>4, <1>5, <1>6, <1>7, <1>8, <1>9, <1>10, <1>11, <1>12 DEF Next

\* The registry keeps its types: the default link is always a cid of the node
\* and only a peer's bit map names a link that is not configured.
THEOREM TypeCorrect == Spec => []TypeOK
<1>1. Init => TypeOK
  BY AttributeAssumption DEF Init, TypeOK
<1>2. TypeOK /\ [Next]_vars => TypeOK'
  BY TypeStep
<1>3. QED
  BY <1>1, <1>2, PTL DEF Spec

-----------------------------------------------------------------------------
(***************************************************************************)
(* The steps of the election, stated once for the three pairs of triggers. *)
(***************************************************************************)

\* What a down trigger of a cause does: the links that are up lose cid, and the
\* default link is moved only from cid to the best link that is left.
LEMMA GoesDownStep ==
    ASSUME TypeOK, NEW cid \in Cids, GoesDown(cid),
           Down' = Down \cup {cid}, m_cidList' = m_cidList
    PROVE  /\ UpLinks' = UpLinks \ {cid}
           /\ \/ UNCHANGED m_defaultLinkCid
              \/ /\ m_defaultLinkCid' \in UpLinks'
                 /\ \A c \in UpLinks' : ~ Outranks(c, m_defaultLinkCid')
           /\ (~ m_preferLargeCidValue /\ ~ m_fixDefaultLink /\ cid = m_defaultLinkCid
                 /\ IsLinkUp(cid) /\ UpLinks' # {}) => m_defaultLinkCid' \in UpLinks'
<1>1. UpLinks' = UpLinks \ {cid}
  BY DEF UpLinks, IsLinkUp
<1>2. UpLinks \ {cid} \subseteq Cids
  BY DEF UpLinks, TypeOK
<1>3. CASE IsLinkUp(cid)
  <2>1. SetLinkDown(cid, UpLinks \ {cid})
    BY <1>3 DEF GoesDown
  <2>2. QED
    BY <1>1, <1>2, <2>1, SearchResult DEF SetLinkDown
<1>4. CASE ~ IsLinkUp(cid)
  BY <1>1, <1>4 DEF GoesDown
<1>5. QED
  BY <1>3, <1>4

\* What an up trigger of a cause does: cid is up exactly when no other cause is
\* left, and then it takes the default over if it outranks it.
LEMMA ComesUpStep ==
    ASSUME TypeOK, NEW cid \in Cids, NEW own, NEW others, ComesUp(cid, own, others),
           Down = own \cup others, Down' = (own \ {cid}) \cup others,
           m_cidList' = m_cidList
    PROVE  /\ UpLinks' \subseteq UpLinks \cup {cid}
           /\ UpLinks \subseteq UpLinks'
           /\ \/ UNCHANGED m_defaultLinkCid
              \/ m_defaultLinkCid' = cid /\ cid \notin Down' /\ Outranks(cid, m_defaultLinkCid)
           /\ (cid \in UpLinks' \ UpLinks /\ ~ m_fixDefaultLink)
                 => ~ Outranks(cid, m_defaultLinkCid')
<1>1. /\ UpLinks' \subseteq UpLinks \cup {cid}
      /\ UpLinks \subseteq UpLinks'
  BY DEF UpLinks, IsLinkUp
<1>2. cid \in Int /\ m_defaultLinkCid \in Int
  BY CidAssumption DEF TypeOK, UINT8_MAX
<1>3. CASE cid \in own /\ cid \notin others
  <2>1. SetLinkUp(cid)
    BY <1>3 DEF ComesUp
  <2>2. cid \notin Down'
    BY <1>3
  <2>3. ~ Outranks(cid, cid)
    BY <1>2 DEF Outranks
  <2>4. QED
    BY <1>1, <2>1, <2>2, <2>3 DEF SetLinkUp
<1>4. CASE ~ (cid \in own /\ cid \notin others)
  <2>1. UNCHANGED m_defaultLinkCid
    BY <1>4 DEF ComesUp
  <2>2. Down' = Down
    BY <1>4
  <2>3. UpLinks' = UpLinks
    BY <2>2 DEF UpLinks, IsLinkUp
  <2>4. QED
    BY <1>1, <2>1, <2>3
<1>5. QED
  BY <1>3, <1>4

\* Every step of the registry is one of these, and the lemmas above say what
\* each of them does to the election.
LEMMA NextCases ==
    ASSUME TypeOK, [Next]_vars
    PROVE  \/ \E cid \in Cids : AddPhyLink(cid)
           \/ \E cid \in Cids : SetFixedDefaultCid(cid)
           \/ \E cid \in Cids : /\ GoesDown(cid) /\ Down' = Down \cup {cid}
                                /\ UNCHANGED <<m_cidList, m_fixDefaultLink, m_preferLargeCidValue>>
           \/ \E cid \in Cids : \E own, others :
                 /\ ComesUp(cid, own, others)
                 /\ Down = own \cup others /\ Down' = (own \ {cid}) \cup others
                 /\ UNCHANGED <<m_cidList, m_fixDefaultLink, m_preferLargeCidValue>>
           \/ UNCHANGED vars
<1>1. ASSUME NEW cid \in Cids, LinkBitMapDown(cid) \/ CtrlMsgDown(cid) \/ LowRssiDown(cid)
      PROVE  /\ GoesDown(cid) /\ Down' = Down \cup {cid}
             /\ UNCHANGED <<m_cidList, m_fixDefaultLink, m_preferLargeCidValue>>
  BY <1>1 DEF LinkBitMapDown, CtrlMsgDown, LowRssiDown, Down
<1> DEFINE Up(cid, own, others) ==
             /\ ComesUp(cid, own, others)
             /\ Down = own \cup others /\ Down' = (own \ {cid}) \cup others
             /\ UNCHANGED <<m_cidList, m_fixDefaultLink, m_preferLargeCidValue>>
<1>2. ASSUME NEW cid \in Cids, LinkBitMapUp(cid)
      PROVE  Up(cid, m_bitmapFailed, m_ctrFailed \cup m_lowQuality)
  BY <1>2 DEF LinkBitMapUp, Down
<1>3. ASSUME NEW cid \in Cids, CtrlMsgUp(cid)
      PROVE  Up(cid, m_ctrFailed, m_lowQuality \cup m_bitmapFailed)
  BY <1>3 DEF CtrlMsgUp, Down
<1>4. ASSUME NEW cid \in Cids, HighRssiUp(cid)
      PROVE  Up(cid, m_lowQuality, m_ctrFailed \cup m_bitmapFailed)
  BY <1>4 DEF HighRssiUp, Down
<1>5. m_cidList \subseteq Cids
  BY DEF TypeOK
<1> HIDE DEF Up
<1>6. ASSUME NEW cid \in Cids, LinkBitMapUp(cid) \/ CtrlMsgUp(cid) \/ HighRssiUp(cid)
      PROVE  \E own, others : Up(cid, own, others)
  BY <1>2, <1>3, <1>4, <1>6
<1>7. \/ \E cid \in Cids : AddPhyLink(cid)
      \/ \E cid \in Cids : SetFixedDefaultCid(cid)
      \/ \E cid \in Cids : LinkBitMapDown(cid) \/ CtrlMsgDown(cid) \/ LowRssiDown(cid)
      \/ \E cid \in Cids : LinkBitMapUp(cid) \/ CtrlMsgUp(cid) \/ HighRssiUp(cid)
      \/ UNCHANGED vars
  BY <1>5 DEF Next
<1>8. \/ \E cid \in Cids : AddPhyLink(cid)
      \/ \E cid \in Cids : SetFixedDefaultCid(cid)
      \/ \E cid \in Cids : /\ GoesDown(cid) /\ Down' = Down \cup {cid}
                           /\ UNCHANGED <<m_cidList, m_fixDefaultLink, m_preferLargeCidValue>>
      \/ \E cid \in Cids : \E own, others : Up(cid, own, others)
      \/ UNCHANGED vars
  BY <1>1, <1>6, <1>7
<1>9. QED
  BY <1>8 DEF Up

-----------------------------------------------------------------------------
\* No step of the registry lets a link that is up outrank the default link.
LEMMA PriorityStep ==
    ASSUME TypeOK, TypeOK', NoUpLinkOutranksDefault, [Next]_vars
    PROVE  NoUpLinkOutranksDefault'
<1> SUFFICES ASSUME ~ m_fixDefaultLink',
                    NEW c \in UpLinks'
             PROVE  ~ Outranks(c, m_defaultLinkCid)'
  BY DEF NoUpLinkOutranksDefault
<1>1. c \in Int /\ m_defaultLinkCid \in Int /\ m_defaultLinkCid' \in Int
  BY CidAssumption DEF UpLinks, TypeOK, UINT8_MAX
<1>2. ASSUME NEW cid \in Cids, AddPhyLink(cid)
      PROVE  ~ Outranks(c, m_defaultLinkCid)'
  <2>1. c \in UpLinks \/ c = m_defaultLinkCid
    BY <1>2 DEF AddPhyLink, UpLinks, IsLinkUp, Down
  <2>2. ~ Outranks(c, m_defaultLinkCid)
    BY <1>1, <1>2, <2>1 DEF AddPhyLink, NoUpLinkOutranksDefault, Outranks
  <2>3. QED
    BY <2>2, <1>2 DEF AddPhyLink, Outranks
<1>3. ASSUME NEW cid \in Cids, SetFixedDefaultCid(cid)
      PROVE  ~ Outranks(c, m_defaultLinkCid)'
  BY <1>3 DEF SetFixedDefaultCid
<1>4. ASSUME NEW cid \in Cids, GoesDown(cid), Down' = Down \cup {cid},
             UNCHANGED <<m_cidList, m_fixDefaultLink, m_preferLargeCidValue>>
      PROVE  ~ Outranks(c, m_defaultLinkCid)'
  <2>1. /\ UpLinks' = UpLinks \ {cid}
        /\ \/ UNCHANGED m_defaultLinkCid
           \/ \A d \in UpLinks' : ~ Outranks(d, m_defaultLinkCid')
    BY <1>4, GoesDownStep
  <2>2. QED
    BY <1>4, <2>1 DEF NoUpLinkOutranksDefault, Outranks
<1>5. ASSUME NEW cid \in Cids, NEW own, NEW others, ComesUp(cid, own, others),
             Down = own \cup others, Down' = (own \ {cid}) \cup others,
             UNCHANGED <<m_cidList, m_fixDefaultLink, m_preferLargeCidValue>>
      PROVE  ~ Outranks(c, m_defaultLinkCid)'
  <2>1. /\ UpLinks' \subseteq UpLinks \cup {cid}
        /\ \/ UNCHANGED m_defaultLinkCid
           \/ m_defaultLinkCid' = cid /\ Outranks(cid, m_defaultLinkCid)
        /\ (cid \in UpLinks' \ UpLinks /\ ~ m_fixDefaultLink)
              => ~ Outranks(cid, m_defaultLinkCid')
    BY <1>5, ComesUpStep
  <2>2. CASE c \in UpLinks
    <3>1. ~ Outranks(c, m_defaultLinkCid)
      BY <2>2, <1>5 DEF NoUpLinkOutranksDefault
    <3>2. cid \in Int
      BY CidAssumption DEF UINT8_MAX
    <3>3. QED
      BY <3>1, <3>2, <2>1, <1>1, <1>5 DEF Outranks
  <2>3. CASE c \notin UpLinks
    BY <2>1, <2>3, <1>5 DEF Outranks
  <2>4. QED
    BY <2>2, <2>3
<1>6. CASE UNCHANGED vars
  BY <1>6 DEF vars, NoUpLinkOutranksDefault, UpLinks, IsLinkUp, Down, Outranks
<1>7. QED
  BY <1>2, <1>3, <1>4, <1>5, <1>6, NextCases

\* Whatever fails and recovers in whatever order, no configured link that is up
\* has a higher priority than the default link, unless the default is fixed.
THEOREM DefaultHasPriority == Spec => []NoUpLinkOutranksDefault
<1>1. Init => NoUpLinkOutranksDefault
  BY DEF Init, NoUpLinkOutranksDefault, UpLinks
<1>2. TypeOK /\ TypeOK' /\ NoUpLinkOutranksDefault /\ [Next]_vars => NoUpLinkOutranksDefault'
  BY PriorityStep
<1>3. QED
  BY <1>1, <1>2, TypeCorrect, PTL DEF Spec

\* A step that moves the default link moves it to a link that is up.
LEMMA ElectionStep ==
    ASSUME TypeOK, [Next]_vars, m_defaultLinkCid' # m_defaultLinkCid, ~ m_fixDefaultLink'
    PROVE  m_defaultLinkCid' \notin Down'
<1>1. ASSUME NEW cid \in Cids, GoesDown(cid), Down' = Down \cup {cid},
             UNCHANGED <<m_cidList, m_fixDefaultLink, m_preferLargeCidValue>>
      PROVE  m_defaultLinkCid' \notin Down'
  <2>1. m_defaultLinkCid' \in UpLinks'
    BY <1>1, GoesDownStep
  <2>2. QED
    BY <2>1 DEF UpLinks, IsLinkUp
<1>2. ASSUME NEW cid \in Cids, NEW own, NEW others, ComesUp(cid, own, others),
             Down = own \cup others, Down' = (own \ {cid}) \cup others,
             UNCHANGED <<m_cidList, m_fixDefaultLink, m_preferLargeCidValue>>
      PROVE  m_defaultLinkCid' \notin Down'
  BY <1>2, ComesUpStep
<1>3. QED
  BY <1>1, <1>2, NextCases DEF AddPhyLink, SetFixedDefaultCid, vars

\* The election never lands on a link that some cause still holds down.
THEOREM ElectionIsSound == Spec => DefaultMovesToUpLink
<1>1. TypeOK /\ [Next]_vars =>
        [(m_defaultLinkCid' # m_defaultLinkCid /\ ~ m_fixDefaultLink')
            => m_defaultLinkCid' \notin Down']_vars
  BY ElectionStep
<1>2. QED
  BY <1>1, TypeCorrect, PTL DEF Spec, DefaultMovesToUpLink

\* Large cids preferred: whatever a step does, the default link moves only to a
\* larger cid.
LEMMA LargeStep ==
    ASSUME TypeOK, [Next]_vars, m_preferLargeCidValue, ~ m_fixDefaultLink'
    PROVE  m_defaultLinkCid' >= m_defaultLinkCid
<1>1. m_defaultLinkCid \in Int
  BY CidAssumption DEF TypeOK, UINT8_MAX
<1>2. ASSUME NEW cid \in Cids, GoesDown(cid)
      PROVE  m_defaultLinkCid' = m_defaultLinkCid
  <2>1. UpLinks \ {cid} \subseteq Cids
    BY DEF UpLinks, TypeOK
  <2>2. SearchOkCid(UpLinks \ {cid}) = UINT8_MAX
    BY <2>1, SearchResult
  <2>3. QED
    BY <1>2, <2>2 DEF GoesDown, SetLinkDown
<1>3. ASSUME NEW cid \in Cids, NEW own, NEW others, ComesUp(cid, own, others)
      PROVE  m_defaultLinkCid' >= m_defaultLinkCid
  <2>1. cid \in Int
    BY CidAssumption DEF UINT8_MAX
  <2>2. QED
    BY <1>1, <1>3, <2>1 DEF ComesUp, SetLinkUp, Outranks
<1>4. ASSUME NEW cid \in Cids, AddPhyLink(cid)
      PROVE  m_defaultLinkCid' = m_defaultLinkCid
  BY <1>4 DEF AddPhyLink
<1>5. ASSUME NEW cid \in Cids, SetFixedDefaultCid(cid)
      PROVE  FALSE
  BY <1>5 DEF SetFixedDefaultCid
<1>6. CASE UNCHANGED vars
  BY <1>1, <1>6 DEF vars
<1>7. m_defaultLinkCid >= m_defaultLinkCid
  BY <1>1
<1>8. QED
  BY <1>2, <1>3, <1>4, <1>5, <1>6, <1>7, NextCases

\* With the attribute's default, large cids preferred, the default link only ever
\* moves to a larger cid: no failure makes SetLinkDown leave a failed default link
\* for a smaller one that is up, whatever the cids of the node and however the
\* failures and recoveries follow one another.
THEOREM DefaultNeverMovesDown ==
    Spec => [][(m_preferLargeCidValue /\ ~ m_fixDefaultLink')
                  => m_defaultLinkCid' >= m_defaultLinkCid]_vars
<1>1. TypeOK /\ [Next]_vars =>
        [(m_preferLargeCidValue /\ ~ m_fixDefaultLink')
            => m_defaultLinkCid' >= m_defaultLinkCid]_vars
  BY LargeStep
<1>2. QED
  BY <1>1, TypeCorrect, PTL DEF Spec

=============================================================================
