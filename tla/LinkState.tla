------------------------------ MODULE LinkState ------------------------------
(***************************************************************************)
(* The link registry of one GMA endpoint (contrib/gma/model/link-state.cc) *)
(* and the two callers that register a link with it (AddPhyLink and        *)
(* AddPhyCandidate of gma-virtual-interface.cc).                           *)
(*                                                                         *)
(* A link is identified by its cid, a uint8_t.  Three independent causes   *)
(* can hold a link down: control messages that were never acknowledged, a  *)
(* low received signal strength, and the link bit map of a peer's control  *)
(* message.  A link is up when no cause holds it down.  The default link,  *)
(* over which everything without a better choice is sent, is re-elected    *)
(* when the state of a link changes.                                       *)
(***************************************************************************)
EXTENDS Integers, FiniteSets

CONSTANTS
    Cids,                \* the cids a node may configure
    DefaultLinkCid,      \* attribute "DefaultLinkCid"
    FixDefaultLink       \* attribute "FixDefaultLink"

UINT8_MAX == 255
WIFI_CID == 0

\* Cid 255 is the code's "no cid".
ASSUME CidAssumption == Cids \subseteq 0 .. (UINT8_MAX - 1)
ASSUME AttributeAssumption ==
    /\ DefaultLinkCid \in Cids
    /\ FixDefaultLink \in BOOLEAN

VARIABLES
    m_cidList,          \* the configured links (a vector in the code; only membership matters)
    m_defaultLinkCid,
    m_fixDefaultLink,
    m_preferLargeCidValue,  \* attribute "PreferLargeCidValue", TRUE unless it is set
    m_ctrFailed,        \* m_ctrFailedLinkMap
    m_lowQuality,       \* m_lowQualityLinkMap
    m_bitmapFailed      \* m_bitmapFailedLinkMap

vars == <<m_cidList, m_defaultLinkCid, m_fixDefaultLink, m_preferLargeCidValue,
          m_ctrFailed, m_lowQuality, m_bitmapFailed>>

Init ==
    /\ m_cidList = {}
    /\ m_defaultLinkCid = DefaultLinkCid
    /\ m_fixDefaultLink = FixDefaultLink
    /\ m_preferLargeCidValue \in BOOLEAN
    /\ m_ctrFailed = {}
    /\ m_lowQuality = {}
    /\ m_bitmapFailed = {}

Down == m_ctrFailed \cup m_lowQuality \cup m_bitmapFailed

IsLinkUp(cid) == cid \notin Down

\* The configured links that are up.
UpLinks == {cid \in m_cidList : IsLinkUp(cid)}

-----------------------------------------------------------------------------
(***************************************************************************)
(* Election of the default link.                                           *)
(***************************************************************************)

\* a has a strictly higher priority than b.
Outranks(a, b) == IF m_preferLargeCidValue THEN a > b ELSE a < b

\* The result of the search loop over the links in `up`: the large-cid branch
\* starts its maximum at UINT8_MAX and keeps only what is greater (no cid is),
\* the small-cid branch starts its minimum at UINT8_MAX and keeps what is less.
SearchOkCid(up) ==
    LET better == {cid \in up : IF m_preferLargeCidValue THEN cid > UINT8_MAX
                                                         ELSE cid < UINT8_MAX}
    IN  IF better = {} THEN UINT8_MAX
        ELSE CHOOSE cid \in better : \A c \in better : ~ Outranks(c, cid)

\* Mutant of SetLinkDown: the result of a search that found nothing is used.
SetLinkDownUnchecked(cid, up) ==
    m_defaultLinkCid' =
        IF ~ m_fixDefaultLink /\ cid = m_defaultLinkCid THEN SearchOkCid(up) ELSE m_defaultLinkCid

\* SetLinkDown, with `up` the configured links that are still up.
SetLinkDown(cid, up) ==
    m_defaultLinkCid' =
        IF ~ m_fixDefaultLink /\ cid = m_defaultLinkCid /\ SearchOkCid(up) # UINT8_MAX
        THEN SearchOkCid(up)
        ELSE m_defaultLinkCid

\* Mutant of SetLinkUp: a link that comes back does not take over.
SetLinkUpKeepsDefault(cid) == UNCHANGED m_defaultLinkCid

SetLinkUp(cid) ==
    m_defaultLinkCid' =
        IF ~ m_fixDefaultLink /\ Outranks(cid, m_defaultLinkCid)
        THEN cid
        ELSE m_defaultLinkCid

-----------------------------------------------------------------------------
(***************************************************************************)
(* The triggers.  A trigger that takes the last cause away brings the link *)
(* up; the first cause takes it down; every other trigger only records     *)
(* its cause.                                                              *)
(***************************************************************************)

\* What the trigger of a cause does to the default link.
GoesDown(cid) ==
    IF IsLinkUp(cid) THEN SetLinkDown(cid, UpLinks \ {cid})
                     ELSE UNCHANGED m_defaultLinkCid

\* Mutant of ComesUp: the other causes are not looked at.
ComesUpRegardless(cid, own, others) ==
    IF cid \in own THEN SetLinkUp(cid) ELSE UNCHANGED m_defaultLinkCid

\* The causes that are left are those of `others`.
ComesUp(cid, own, others) ==
    IF cid \in own /\ cid \notin others THEN SetLinkUp(cid)
                                        ELSE UNCHANGED m_defaultLinkCid

CtrlMsgDown(cid) ==
    /\ GoesDown(cid)
    /\ m_ctrFailed' = m_ctrFailed \cup {cid}
    /\ UNCHANGED <<m_cidList, m_fixDefaultLink, m_preferLargeCidValue, m_lowQuality, m_bitmapFailed>>

CtrlMsgUp(cid) ==
    /\ ComesUp(cid, m_ctrFailed, m_lowQuality \cup m_bitmapFailed)
    /\ m_ctrFailed' = m_ctrFailed \ {cid}
    /\ UNCHANGED <<m_cidList, m_fixDefaultLink, m_preferLargeCidValue, m_lowQuality, m_bitmapFailed>>

LowRssiDown(cid) ==
    /\ GoesDown(cid)
    /\ m_lowQuality' = m_lowQuality \cup {cid}
    /\ UNCHANGED <<m_cidList, m_fixDefaultLink, m_preferLargeCidValue, m_ctrFailed, m_bitmapFailed>>

HighRssiUp(cid) ==
    /\ ComesUp(cid, m_lowQuality, m_ctrFailed \cup m_bitmapFailed)
    /\ m_lowQuality' = m_lowQuality \ {cid}
    /\ UNCHANGED <<m_cidList, m_fixDefaultLink, m_preferLargeCidValue, m_ctrFailed, m_bitmapFailed>>

LinkBitMapDown(cid) ==
    /\ GoesDown(cid)
    /\ m_bitmapFailed' = m_bitmapFailed \cup {cid}
    /\ UNCHANGED <<m_cidList, m_fixDefaultLink, m_preferLargeCidValue, m_ctrFailed, m_lowQuality>>

LinkBitMapUp(cid) ==
    /\ ComesUp(cid, m_bitmapFailed, m_ctrFailed \cup m_lowQuality)
    /\ m_bitmapFailed' = m_bitmapFailed \ {cid}
    /\ UNCHANGED <<m_cidList, m_fixDefaultLink, m_preferLargeCidValue, m_ctrFailed, m_lowQuality>>

\* AddPhyLink / AddPhyCandidate for a cid that is not configured yet: AddLinkCid,
\* then CtrlMsgDown unless it is the default link ("cannot use this link before
\* the first probe or other ctrl msg is acked").
AddPhyLink(cid) ==
    /\ cid \notin m_cidList
    /\ m_cidList' = m_cidList \cup {cid}
    /\ m_ctrFailed' = IF cid = m_defaultLinkCid THEN m_ctrFailed
                                                ELSE m_ctrFailed \cup {cid}
    /\ UNCHANGED <<m_defaultLinkCid, m_fixDefaultLink, m_preferLargeCidValue, m_lowQuality,
                   m_bitmapFailed>>

\* SetFixedDefaultCid: pins the default link for good.
SetFixedDefaultCid(cid) ==
    /\ m_defaultLinkCid' = cid
    /\ m_fixDefaultLink' = TRUE
    /\ UNCHANGED <<m_cidList, m_preferLargeCidValue, m_ctrFailed, m_lowQuality, m_bitmapFailed>>

\* Control messages and power traces belong to a configured link.  The link bit
\* map of a peer's message holds the bit of the Wi-Fi link only, and may come
\* before this node has that link.
Next ==
    \/ \E cid \in Cids :
          \/ AddPhyLink(cid)     \/ SetFixedDefaultCid(cid)
    \/ \E cid \in Cids \cap {WIFI_CID} :
          \/ LinkBitMapDown(cid) \/ LinkBitMapUp(cid)
    \/ \E cid \in m_cidList :
          \/ CtrlMsgDown(cid)    \/ CtrlMsgUp(cid)
          \/ LowRssiDown(cid)    \/ HighRssiUp(cid)

Spec == Init /\ [][Next]_vars

-----------------------------------------------------------------------------
(***************************************************************************)
(* Properties.                                                             *)
(***************************************************************************)

\* Type invariant of the registry: only a peer's bit map (m_bitmapFailedLinkMap)
\* can hold a link down that is not configured.
TypeOK ==
    /\ m_cidList \subseteq Cids
    /\ m_defaultLinkCid \in Cids
    /\ m_fixDefaultLink \in BOOLEAN
    /\ m_preferLargeCidValue \in BOOLEAN
    /\ m_ctrFailed \subseteq m_cidList
    /\ m_lowQuality \subseteq m_cidList
    /\ m_bitmapFailed \subseteq Cids

\* No configured link that is up has a higher priority than the default link,
\* whatever the order of the failures and recoveries (SetLinkUp, SetLinkDown),
\* unless the default link is fixed.
NoUpLinkOutranksDefault ==
    ~ m_fixDefaultLink => \A cid \in UpLinks : ~ Outranks(cid, m_defaultLinkCid)

\* The election never moves the default link onto a link that some cause still
\* holds down: SetLinkUp runs only when the last of the three causes is gone.
DefaultMovesToUpLink ==
    [][(m_defaultLinkCid' # m_defaultLinkCid /\ ~ m_fixDefaultLink')
          => m_defaultLinkCid' \notin Down']_vars

\* Failover: when the default link, up so far, goes down while another
\* configured link is up, the same step elects the link of the highest priority
\* among those that are up.  SetLinkDown says so ("this link is failed we need to
\* find another one for default tx", "find the max cid of ok links") and does it
\* when small cids are preferred.  When large cids are preferred, the default of
\* the attribute, its search finds nothing and the failed link stays the default.
FailoverToBestUpLink ==
    [][(/\ ~ m_fixDefaultLink'
        /\ m_defaultLinkCid \in UpLinks
        /\ m_defaultLinkCid \notin UpLinks'
        /\ UpLinks' # {})
          => /\ m_defaultLinkCid' \in UpLinks'
             /\ \A cid \in UpLinks' : ~ Outranks(cid, m_defaultLinkCid')]_vars

=============================================================================
