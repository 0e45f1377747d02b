---------------------------- MODULE ClientProofs ----------------------------
(***************************************************************************)
(* Proofs about the browser: the session and its socket, the owner's list  *)
(* of agents, the paid flows and their toasts, prospecting, the panel of a *)
(* hex, the shell of the page, the feed of the veins, the clock, the       *)
(* picture, the figures and the contract card, for any wallets, agents,    *)
(* hexes, land, phases and retries.                                        *)
(***************************************************************************)
EXTENDS MCClient, FiniteSetTheorems, WellFoundedInduction, TLAPS

-----------------------------------------------------------------------------
(* Session: the cookie. *)

\* The cookie is never that of another account than the one shown, and a page whose
\* browser keeps no cookie has a call under way that will be refused.
CookieInv ==
  /\ loginPc \in [Logins -> {"idle", "nonce", "sign", "verify", "test", "probe"}]
  /\ ~keepsCookies => cookie = NoWallet
  /\ shown # NoWallet => cookie \in {shown, NoWallet}
  /\ ~keepsCookies /\ shown # NoWallet => NoWallet \in calls

\* Steps that leave the cookie, and what is shown unless it is nobody.
LEMMA CookieStands ==
  ASSUME CookieInv, UNCHANGED <<cookie, keepsCookies>>, shown' \in {shown, NoWallet},
         loginPc' \in [Logins -> {"idle", "nonce", "sign", "verify", "test", "probe"}],
         shown' # NoWallet => calls \subseteq calls'
  PROVE  CookieInv'
  BY DEF CookieInv

\* Nobody has a cookie that the browser has forgotten.
LEMMA CookieGone ==
  ASSUME CookieInv, cookie' = NoWallet, UNCHANGED keepsCookies, shown' \in {shown, NoWallet},
         loginPc' = loginPc, calls' = calls
  PROVE  CookieInv'
  BY DEF CookieInv

LEMMA CookieAtBegin ==
  ASSUME CookieInv, NEW f \in Logins, NEW w, SessionBegins(f, w, w), UNCHANGED keepsCookies
  PROVE  CookieInv'
<1>1. cookie' = IF keepsCookies THEN w ELSE cookie
  BY DEF SessionBegins
<1>2. /\ shown' = w /\ calls' = calls \cup {cookie'}
      /\ loginPc' = [loginPc EXCEPT ![f] = "probe"]
  BY DEF SessionBegins, SetSession
<1> QED BY <1>1, <1>2 DEF CookieInv

LEMMA CookieStart == ASSUME SessionInit PROVE CookieInv
  BY DEF SessionInit, CookieInv

LEMMA CookieLogin ==
  ASSUME CookieInv, NEW f \in Logins,
         \/ NonceArrives(f) \/ SignMessage(f) \/ VerifyAnswered(f) \/ TestAnswered(f)
         \/ LoginBreaks(f) \/ \E reached \in BOOLEAN : ProbeAnswered(f, reached)
  PROVE  CookieInv'
<1> DEFINE Pcs == {"idle", "nonce", "sign", "verify", "test", "probe"}
<1>0. loginPc \in [Logins -> Pcs]
  BY DEF CookieInv
<1>1. ASSUME EndLogin(f) PROVE loginPc' \in [Logins -> Pcs]
  BY <1>0, <1>1 DEF EndLogin
<1>2. CASE NonceArrives(f) \/ SignMessage(f)
  <2>1. UNCHANGED <<shown, cookie, keepsCookies, calls>> /\ loginPc' \in [Logins -> Pcs]
    BY <1>0, <1>2 DEF NonceArrives, SignMessage, store
  <2> QED BY <2>1, CookieStands
<1>3. CASE VerifyAnswered(f)
  <2>1. CASE nonce[loginAs[f]] = f
    BY <1>3, <2>1, CookieAtBegin DEF VerifyAnswered, Verified
  <2>2. CASE nonce[loginAs[f]] # f
    <3>1. LoginFails(f) /\ UNCHANGED <<cookie, calls, keepsCookies>>
      BY <1>3, <2>2 DEF VerifyAnswered
    <3>2. shown' = shown /\ loginPc' \in [Logins -> Pcs]
      BY <1>1, <3>1 DEF LoginFails
    <3> QED BY <3>1, <3>2, CookieStands
  <2> QED BY <2>1, <2>2
<1>4. CASE TestAnswered(f)
  BY <1>4, CookieAtBegin DEF TestAnswered
<1>5. CASE LoginBreaks(f)
  <2>1. UNCHANGED <<cookie, calls, keepsCookies, shown>> /\ EndLogin(f)
    BY <1>5 DEF LoginBreaks, LoginFails
  <2> QED BY <2>1, <1>1, CookieStands
<1>6. ASSUME NEW reached \in BOOLEAN, ProbeAnswered(f, reached) PROVE CookieInv'
  <2>1. UNCHANGED <<cookie, calls, keepsCookies>> /\ EndLogin(f) /\ shown' \in {shown, NoWallet}
    BY <1>6 DEF ProbeAnswered, Cleared
  <2> QED BY <2>1, <1>1, CookieStands
<1> QED BY <1>2, <1>3, <1>4, <1>5, <1>6

LEMMA CookieStep == ASSUME CookieInv, [SessionNext]_sessionVars PROVE CookieInv'
<1> USE DEF store, logins, socket
<1> DEFINE Pcs == {"idle", "nonce", "sign", "verify", "test", "probe"}
<1>0. loginPc \in [Logins -> Pcs]
  BY DEF CookieInv
<1>1. CASE NoticeSwitch
  BY <1>0, <1>1, CookieStands DEF NoticeSwitch, Cleared
<1>2. CASE AutoLogin
  <2>1. loginPc' \in [Logins -> Pcs]
    BY <1>0, <1>2 DEF AutoLogin
  <2> QED BY <1>2, <2>1, CookieStands DEF AutoLogin
<1>3. CASE PlayTestMode
  <2>1. loginPc' \in [Logins -> Pcs]
    BY <1>0, <1>3 DEF PlayTestMode
  <2> QED BY <1>3, <2>1, CookieStands DEF PlayTestMode
<1>4. CASE Login
  BY <1>4, CookieLogin DEF Login
<1>5. ASSUME NEW w \in Wallets, NonceExpires(w) \/ UseWallet(w) PROVE CookieInv'
  BY <1>0, <1>5, CookieStands DEF NonceExpires, UseWallet
<1>6. CASE CallApi \/ DismissNotice
  BY <1>0, <1>6, CookieStands DEF CallApi, DismissNotice
<1>7. ASSUME NEW c \in calls, CallAnswered(c) PROVE CookieInv'
  <2>1. /\ calls' = calls \ {c} /\ UNCHANGED <<loginPc, cookie, keepsCookies>>
        /\ shown' = IF c = NoWallet THEN NoWallet ELSE shown
    BY <1>7 DEF CallAnswered, Cleared, Refused
  <2> QED BY <2>1 DEF CookieInv
<1>8. CASE Reload
  <2>1. /\ loginPc' = [g \in Logins |-> "idle"] /\ UNCHANGED <<cookie, keepsCookies>>
        /\ shown' \in {shown, NoWallet}
        /\ calls' = IF shown # NoWallet THEN {cookie} ELSE {}
    BY <1>8 DEF Reload
  <2> QED BY <2>1 DEF CookieInv
<1>9. CASE RestoreDropped \/ Logout \/ WalletDisconnected
  BY <1>0, <1>9, CookieStands DEF RestoreDropped, Logout, WalletDisconnected
<1>10. ASSUME NEW reached \in BOOLEAN, RestoreAnswered(reached) PROVE CookieInv'
  <2>1. UNCHANGED <<cookie, keepsCookies, calls, loginPc>> /\ shown' \in {shown, NoWallet}
    BY <1>10 DEF RestoreAnswered, Cleared
  <2> QED BY <1>0, <2>1, CookieStands
<1>11. ASSUME NEW reached \in BOOLEAN, LogoutAnswered(reached) PROVE CookieInv'
  <2>1. /\ cookie' \in {cookie, NoWallet} /\ shown' = NoWallet
        /\ UNCHANGED <<keepsCookies, calls, loginPc>>
    BY <1>11 DEF LogoutAnswered, Cleared
  <2> QED BY <1>0, <2>1, CookieStands, CookieGone
<1>12. CASE SessionExpires \/ CookieDropped
  BY <1>12, CookieGone DEF SessionExpires, CookieDropped
<1>13. CASE Connected \/ LinkDrops \/ OpenDashboard \/ CloseDashboard
  BY <1>0, <1>13, CookieStands DEF Connected, LinkDrops, OpenDashboard, CloseDashboard
<1>14. CASE Subscribe
  <2>1. calls \subseteq calls'
    BY <1>14 DEF Subscribe
  <2> QED BY <1>0, <1>14, <2>1, CookieStands DEF Subscribe
<1>15. CASE UNCHANGED sessionVars
  BY <1>0, <1>15, CookieStands DEF sessionVars
<1> QED BY <1>1, <1>2, <1>3, <1>4, <1>5, <1>6, <1>7, <1>8, <1>9, <1>10, <1>11, <1>12, <1>13,
           <1>14, <1>15 DEF SessionNext

\* An account that is shown acts for itself, in whatever order wallets are switched,
\* logins overlap and answers come, and no page whose cookie was refused stays logged in.
THEOREM LoginStaysHonest == SessionSpec => []LoginIsHonest
<1>1. SessionInit => CookieInv
  BY CookieStart
<1>2. CookieInv /\ [SessionNext]_sessionVars => CookieInv'
  BY CookieStep
<1>3. CookieInv => LoginIsHonest
  BY DEF CookieInv, LoginIsHonest, ShownActsForItself, NoFakeLogin
<1> QED BY <1>1, <1>2, <1>3, PTL DEF SessionSpec

-----------------------------------------------------------------------------
(* Session: the socket. *)

\* A socket of another identity than the cookie's belongs to a login whose probe is not
\* answered; a session that has asked is in its room unless the socket is not its own.
SocketInv ==
  /\ shown # NoWallet /\ shown = cookie /\ ident # cookie =>
       \E f \in Logins : loginPc[f] = "probe"
  /\ listening /\ link = "up" /\ shown # NoWallet /\ asked = shown =>
       room = shown \/ ident # shown

\* Steps after which nobody is shown, or that leave session and socket alone.
LEMMA NobodyShown == ASSUME shown' = NoWallet PROVE SocketInv'
  BY DEF SocketInv

LEMMA SocketStands ==
  ASSUME SocketInv, UNCHANGED <<shown, ident, room, asked, link>>, cookie' \in {cookie, NoWallet},
         listening' => listening,
         \A f \in Logins : loginPc[f] = "probe" => loginPc'[f] = "probe"
  PROVE  SocketInv'
  BY DEF SocketInv

\* A handshake begins anew.
LEMMA SocketAnew ==
  ASSUME Handshake(cookie), cookie' = cookie PROVE SocketInv'
  BY DEF Handshake, SocketInv

LEMMA SocketStart == ASSUME SessionInit PROVE SocketInv
  BY DEF SessionInit, SocketInv

LEMMA SocketAtBegin ==
  ASSUME loginPc \in [Logins -> {"idle", "nonce", "sign", "verify", "test", "probe"}],
         NEW f \in Logins, NEW w, SessionBegins(f, w, w)
  PROVE  SocketInv'
<1>1. loginPc'[f] = "probe" /\ asked' = NoWallet
  BY DEF SessionBegins
<1> QED BY <1>1 DEF SocketInv

LEMMA SocketLogin ==
  ASSUME CookieInv, SocketInv, NEW f \in Logins,
         \/ NonceArrives(f) \/ SignMessage(f) \/ VerifyAnswered(f) \/ TestAnswered(f)
         \/ LoginBreaks(f) \/ \E reached \in BOOLEAN : ProbeAnswered(f, reached)
  PROVE  SocketInv'
<1>0. loginPc \in [Logins -> {"idle", "nonce", "sign", "verify", "test", "probe"}]
  BY DEF CookieInv
<1>1. ASSUME EndLogin(f), loginPc[f] # "probe"
      PROVE  \A g \in Logins : loginPc[g] = "probe" => loginPc'[g] = "probe"
  BY <1>0, <1>1 DEF EndLogin
<1>2. CASE NonceArrives(f) \/ SignMessage(f)
  <2>1. \A g \in Logins : loginPc[g] = "probe" => loginPc'[g] = "probe"
    BY <1>0, <1>2 DEF NonceArrives, SignMessage
  <2> QED BY <1>2, <2>1, SocketStands DEF NonceArrives, SignMessage, store, socket
<1>3. CASE VerifyAnswered(f)
  <2>1. CASE nonce[loginAs[f]] = f
    BY <1>0, <1>3, <2>1, SocketAtBegin DEF VerifyAnswered, Verified
  <2>2. CASE nonce[loginAs[f]] # f
    <3>1. /\ LoginFails(f) /\ UNCHANGED <<cookie, asked, listening, link, ident, room>>
          /\ loginPc[f] = "verify"
      BY <1>3, <2>2 DEF VerifyAnswered
    <3>2. shown' = shown /\ EndLogin(f)
      BY <3>1 DEF LoginFails
    <3> QED BY <1>1, <3>1, <3>2, SocketStands
  <2> QED BY <2>1, <2>2
<1>4. CASE TestAnswered(f)
  BY <1>0, <1>4, SocketAtBegin DEF TestAnswered
<1>5. CASE LoginBreaks(f)
  <2>1. /\ UNCHANGED <<cookie, shown, ident, room, asked, link, listening>> /\ EndLogin(f)
        /\ loginPc[f] # "probe"
    BY <1>5 DEF LoginBreaks, LoginFails, socket
  <2> QED BY <1>1, <2>1, SocketStands
<1>6. ASSUME NEW reached \in BOOLEAN, ProbeAnswered(f, reached) PROVE SocketInv'
  <2>1. cookie' = cookie /\ (Handshake(cookie) \/ shown' = NoWallet)
    BY <1>6 DEF ProbeAnswered, ReconnectSocket, Cleared
  <2> QED BY <2>1, SocketAnew, NobodyShown
<1> QED BY <1>2, <1>3, <1>4, <1>5, <1>6

LEMMA SocketStep ==
  ASSUME CookieInv, SocketInv, [SessionNext]_sessionVars PROVE SocketInv'
<1> USE DEF store, logins, socket
<1>0. loginPc \in [Logins -> {"idle", "nonce", "sign", "verify", "test", "probe"}]
  BY DEF CookieInv
<1>1. CASE NoticeSwitch
  BY <1>1, NobodyShown DEF NoticeSwitch, Cleared
<1>2. CASE AutoLogin \/ PlayTestMode
  <2>1. \A g \in Logins : loginPc[g] = "probe" => loginPc'[g] = "probe"
    BY <1>0, <1>2 DEF AutoLogin, PlayTestMode, Idle
  <2> QED BY <1>2, <2>1, SocketStands DEF AutoLogin, PlayTestMode
<1>3. CASE Login
  BY <1>3, SocketLogin DEF Login
<1>4. ASSUME NEW w \in Wallets, NonceExpires(w) \/ UseWallet(w) PROVE SocketInv'
  BY <1>4, SocketStands DEF NonceExpires, UseWallet
<1>5. CASE CallApi \/ DismissNotice
  BY <1>5, SocketStands DEF CallApi, DismissNotice
<1>6. ASSUME NEW c \in calls, CallAnswered(c) PROVE SocketInv'
  <2>1. shown' = NoWallet \/ UNCHANGED <<shown, asked>>
    BY <1>6 DEF CallAnswered, Cleared
  <2>2. UNCHANGED <<cookie, loginPc, link, ident, room, listening>>
    BY <1>6 DEF CallAnswered
  <2> QED BY <2>1, <2>2, NobodyShown, SocketStands
<1>7. CASE Reload
  BY <1>7, SocketAnew DEF Reload
<1>8. CASE RestoreDropped \/ Logout
  BY <1>8, SocketStands DEF RestoreDropped, Logout
<1>9. CASE WalletDisconnected
  BY <1>9, SocketAnew DEF WalletDisconnected, ReconnectSocket
<1>10. ASSUME NEW reached \in BOOLEAN, RestoreAnswered(reached) PROVE SocketInv'
  <2>1. cookie' = cookie /\ (Handshake(cookie) \/ shown' = NoWallet)
    BY <1>10 DEF RestoreAnswered, ReconnectSocket, Cleared
  <2> QED BY <2>1, SocketAnew, NobodyShown
<1>11. ASSUME NEW reached \in BOOLEAN, LogoutAnswered(reached) PROVE SocketInv'
  BY <1>11, NobodyShown DEF LogoutAnswered, Cleared
<1>12. CASE SessionExpires \/ CookieDropped
  BY <1>12, SocketStands DEF SessionExpires, CookieDropped
<1>13. CASE Connected
  BY <1>13 DEF Connected, SocketInv
<1>14. CASE Subscribe
  BY <1>14 DEF Subscribe, SocketInv
<1>15. CASE LinkDrops
  BY <1>15, SocketAnew DEF LinkDrops
<1>16. CASE OpenDashboard \/ CloseDashboard
  BY <1>16, SocketStands DEF OpenDashboard, CloseDashboard
<1>17. CASE UNCHANGED sessionVars
  BY <1>17, SocketStands DEF sessionVars
<1> QED BY <1>1, <1>2, <1>3, <1>4, <1>5, <1>6, <1>7, <1>8, <1>9, <1>10, <1>11, <1>12, <1>13,
           <1>14, <1>15, <1>16, <1>17 DEF SessionNext

\* Once everything is answered, a session that has asked has its socket in its room.
THEOREM SocketStaysWithSession == SessionSpec => []SocketFollowsSession
<1>1. SessionInit => CookieInv /\ SocketInv
  BY CookieStart, SocketStart
<1>2. (CookieInv /\ SocketInv) /\ [SessionNext]_sessionVars => (CookieInv /\ SocketInv)'
  BY CookieStep, SocketStep
<1>3. SocketInv => SocketFollowsSession
  BY DEF SocketInv, SocketFollowsSession, Settled, Idle
<1> QED BY <1>1, <1>2, <1>3, PTL DEF SessionSpec

-----------------------------------------------------------------------------
(* HexPanel. *)

\* Besides what the runs check: a pointer on the panel has it frozen, and there is a
\* panel under it.
PanelInv ==
  /\ showTimer \in BOOLEAN /\ hideTimer \in BOOLEAN /\ tipShown \in BOOLEAN
  /\ frozen \in BOOLEAN /\ orphaned \in BOOLEAN
  /\ HoverIsCoherent /\ PinYields /\ FrozenIsOnPanel
  /\ pointer = "panel" => frozen /\ TooltipHex # Null

LEMMA PanelStart == ASSUME PanelInit PROVE PanelInv
  BY DEF PanelInit, PanelInv, HoverIsCoherent, PinYields, FrozenIsOnPanel, Null

\* A step that leaves what is hovered and pinned alone.
LEMMA PanelStands ==
  ASSUME PanelInv, UNCHANGED <<pointer, hover, pinnedHex, moveMode, orphaned>>
  PROVE  PanelInv'
  BY DEF PanelInv, HoverIsCoherent, PinYields, FrozenIsOnPanel, TooltipHex, hover, Null

LEMMA PanelPointer ==
  ASSUME PanelInv, PointerLeaves \/ PointerEnters \/ PointerExits \/ ShowFires
  PROVE  PanelInv'
<1> USE DEF PanelInv, HoverIsCoherent, PinYields, FrozenIsOnPanel, TooltipHex, hover, Null
<1>1. CASE PointerLeaves
  <2>1. /\ pointer = "map" /\ pointer' = "away"
        /\ UNCHANGED <<pinnedHex, moveMode, orphaned>>
    BY <1>1 DEF PointerLeaves
  <2>2. CASE UNCHANGED hover
    BY <2>1, <2>2
  <2>3. CASE HideTooltip /\ UNCHANGED frozen
    BY <2>1, <2>3 DEF HideTooltip
  <2>4. CASE tipShown /\ showTimer' = FALSE /\ hideTimer' = TRUE
             /\ UNCHANGED <<lastKey, tipShown, frozen, hoveredHex>>
    BY <2>1, <2>4
  <2> QED BY <1>1, <2>2, <2>3, <2>4 DEF PointerLeaves
<1>2. CASE PointerEnters
  BY <1>2 DEF PointerEnters, PanelEnter
<1>3. CASE PointerExits
  BY <1>3 DEF PointerExits, PanelLeave
<1>4. CASE ShowFires
  BY <1>4 DEF ShowFires
<1> QED BY <1>1, <1>2, <1>3, <1>4

LEMMA PanelMoves ==
  ASSUME PanelInv, NEW h \in Tiles \cup {Beyond}, NEW inCorridor \in BOOLEAN,
         PointerMoves(h, inCorridor)
  PROVE  PanelInv'
<1> USE DEF PanelInv, HoverIsCoherent, PinYields, FrozenIsOnPanel, TooltipHex, hover, Null
<1>1. /\ Hover(h, inCorridor) /\ UNCHANGED <<panelRect, pinnedHex, moveMode, orphaned>>
      /\ pointer' = IF pointer = "panel" THEN "panel" ELSE "map"
  BY DEF PointerMoves
<1>2. CASE frozen /\ UNCHANGED hover
  BY <1>1, <1>2
<1>3. CASE ~frozen /\ ~HasHex(h) /\ Hover(h, inCorridor)
  BY <1>1, <1>3 DEF Hover, HideTooltip
<1>4. CASE ~frozen /\ HasHex(h) /\ Hover(h, inCorridor)
  <2>1. h # Null /\ hideTimer' = FALSE /\ UNCHANGED <<tipShown, frozen>>
    BY <1>4, PanelAssumption DEF Hover, HasHex
  <2>2. CASE UNCHANGED <<lastKey, showTimer, hoveredHex>>
    BY <1>1, <2>1, <2>2
  <2>3. CASE /\ lastKey' = h /\ showTimer' = ~tipShown
             /\ hoveredHex' = IF tipShown THEN h ELSE hoveredHex
    BY <1>1, <1>4, <2>1, <2>3
  <2> QED BY <1>4, <2>2, <2>3 DEF Hover
<1> QED BY <1>1, <1>2, <1>3, <1>4 DEF Hover

LEMMA PanelClicks ==
  ASSUME PanelInv, HideFires \/ UnpinPressed \/ MoveModeToggles
  PROVE  PanelInv'
<1> USE DEF PanelInv, HoverIsCoherent, PinYields, FrozenIsOnPanel, TooltipHex, hover, Null
<1>1. CASE HideFires
  BY <1>1 DEF HideFires, HideTooltip, Uncovered
<1>2. CASE UnpinPressed
  BY <1>2 DEF UnpinPressed, Unpin, Uncovered
<1>3. CASE MoveModeToggles
  BY <1>3 DEF MoveModeToggles, Uncovered
<1> QED BY <1>1, <1>2, <1>3

LEMMA PanelStep == ASSUME PanelInv, [PanelNext]_panelVars PROVE PanelInv'
<1>1. ASSUME NEW h \in Tiles \cup {Beyond}, GroundClicked(h) PROVE PanelInv'
  BY <1>1, PanelAssumption
     DEF GroundClicked, PinHex, HasHex, PanelInv, HoverIsCoherent, PinYields,
         FrozenIsOnPanel, TooltipHex, hover, Null
<1>2. CASE PanelMeasured \/ HexSurveyed \/ UNCHANGED panelVars
  BY <1>2, PanelStands DEF PanelMeasured, HexSurveyed, panelVars
<1> QED BY <1>1, <1>2, PanelPointer, PanelMoves, PanelClicks DEF PanelNext

\* The panel tells of one hex, hovered or pinned, and the refs of the hook agree with
\* what React was told, whatever the order of pointer events and timers.
THEOREM PanelStaysCoherent == PanelSpec => []PanelIsCoherent
<1>1. PanelInv => PanelIsCoherent
  BY DEF PanelInv, PanelIsCoherent
<1> QED BY <1>1, PanelStart, PanelStep, PTL DEF PanelSpec

LEMMA ClicksCount == ASSUME clicks \in Nat, [PanelNext]_panelVars PROVE clicks' \in Nat
  BY DEF PanelNext, panelVars, hover, Click, PointerMoves, ShowFires, PointerLeaves, HideFires,
         PointerEnters, PointerExits, PanelMeasured, GroundClicked, UnpinPressed,
         MoveModeToggles, HexSurveyed

\* Only a press changes the hex of a panel under the pointer.
THEOREM PanelStandsStill == PanelSpec => PanelHoldsStill
<1> DEFINE Still == pointer = "panel" /\ pointer' = "panel" /\ clicks' = clicks
                    => (IF pinnedHex # Null THEN pinnedHex ELSE hoveredHex)
                         = (IF pinnedHex' # Null THEN pinnedHex' ELSE hoveredHex')
<1>1. ASSUME PanelInv, clicks \in Nat, PanelNext PROVE Still
  <2> SUFFICES ASSUME pointer = "panel", pointer' = "panel", clicks' = clicks
               PROVE  UNCHANGED <<pinnedHex, hoveredHex>> \/ (pinnedHex # Null /\ pinnedHex' = pinnedHex)
    OBVIOUS
  <2>0. ~Click
    BY <1>1 DEF Click
  <2>1. frozen
    BY <1>1 DEF PanelInv
  <2>2. ASSUME NEW h \in Tiles \cup {Beyond}, NEW inCorridor \in BOOLEAN, PointerMoves(h, inCorridor)
        PROVE  UNCHANGED <<pinnedHex, hoveredHex>>
    BY <2>1, <2>2 DEF PointerMoves, Hover, hover
  <2>3. ASSUME ShowFires PROVE pinnedHex # Null /\ pinnedHex' = pinnedHex
    BY <1>1, <2>3 DEF ShowFires, PanelInv, HoverIsCoherent, TooltipHex
  <2>4. ASSUME HideFires \/ PanelMeasured PROVE UNCHANGED <<pinnedHex, hoveredHex>>
    BY <2>1, <2>4 DEF HideFires, PanelMeasured, hover
  <2>5. ~PointerLeaves /\ ~PointerEnters /\ ~PointerExits
    BY DEF PointerLeaves, PointerEnters, PointerExits
  <2>6. ~(\E h \in Tiles \cup {Beyond} : GroundClicked(h)) /\ ~UnpinPressed /\ ~MoveModeToggles
        /\ ~HexSurveyed
    BY <2>0 DEF GroundClicked, UnpinPressed, MoveModeToggles, HexSurveyed
  <2> QED BY <1>1, <2>2, <2>3, <2>4, <2>5, <2>6 DEF PanelNext
<1>2. PanelInv /\ clicks \in Nat /\ [PanelNext]_panelVars => [Still]_panelVars
  BY <1>1
<1>3. PanelInit => clicks \in Nat
  BY DEF PanelInit
<1>4. (PanelInv /\ clicks \in Nat) /\ [PanelNext]_panelVars => (PanelInv /\ clicks \in Nat)'
  BY PanelStep, ClicksCount
<1> QED BY <1>2, <1>3, <1>4, PanelStart, PTL DEF PanelSpec, PanelHoldsStill

-----------------------------------------------------------------------------
(* PageShell. *)

\* The configuration is under way until it is there, and was asked for once by then.
BootInv ==
  /\ loaded \in BOOLEAN /\ configCalls \in {0, 1} /\ readiness \subseteq Signals
  /\ ~loaded => configCalls = IF configCall = "sent" THEN 1 ELSE 0
  /\ loaded => "config" \in readiness

\* There is a context, and START was pressed, before anything can be resumed or heard.
SoundInv ==
  /\ running \in BOOLEAN /\ muted \in BOOLEAN
  /\ OneMusic /\ SoundIsAsked
  /\ unlocking > 0 => audioCtx # "none"
  /\ audioCtx = "none" => gain = "none"

LEMMA SignalsAre == Signals = {"config", "world", "socket", "render"}
<1>1. DOMAIN READINESS_ORDER = 1..4
  BY DEF READINESS_ORDER
<1> QED BY <1>1 DEF Signals, READINESS_ORDER

LEMMA BootStands ==
  ASSUME BootInv, UNCHANGED configVars, readiness' = readiness \/ MarkReady(Signals \cap (readiness' \ readiness))
  PROVE  BootInv'
  BY DEF BootInv, configVars, MarkReady

LEMMA BootStep == ASSUME BootInv, [ShellNext]_shellVars PROVE BootInv'
<1> USE DEF configVars, MarkReady
<1>1. CASE EffectRuns
  BY <1>1, SignalsAre DEF EffectRuns, LoadConfig, FetchServerConfig, BootInv
<1>2. ASSUME NEW to \in {"default", "server"}, ConfigAnswered(to) PROVE BootInv'
  BY <1>2, SignalsAre DEF ConfigAnswered, BootInv
<1>3. CASE SocketConnects \/ WorldSeen
  BY <1>3, SignalsAre, BootStands DEF SocketConnects, WorldSeen
<1>4. CASE EffectCleans \/ SocketFails \/ MinElapses \/ Dismiss \/ Fades \/ LayoutChanges
  BY <1>4, BootStands
     DEF EffectCleans, SocketFails, MinElapses, Dismiss, Fades, LayoutChanges
<1>5. CASE SystemTurnsSound \/ ToggleMuted \/ \E ok \in BOOLEAN : ResumeSettles(ok)
  BY <1>5, BootStands DEF SystemTurnsSound, ToggleMuted, ResumeSettles
<1>6. CASE UNCHANGED shellVars
  BY <1>6, BootStands DEF shellVars
<1> QED BY <1>1, <1>2, <1>3, <1>4, <1>5, <1>6 DEF ShellNext

LEMMA SoundStands == ASSUME SoundInv, UNCHANGED <<audioVars, pressed>> PROVE SoundInv'
  BY DEF SoundInv, OneMusic, SoundIsAsked, audioVars, engine

\* What Start does, once it is known whether the context runs.
MusicStarts ==
  \/ UNCHANGED <<running, engines, schedTimers>>
  \/ ~running /\ running' = TRUE /\ engines' = engines + 1 /\ schedTimers' = schedTimers + 1

LEMMA MusicOnce ==
  ASSUME SoundInv, MusicStarts PROVE running' \in BOOLEAN /\ OneMusic'
<1>1. CASE UNCHANGED <<running, engines, schedTimers>>
  BY <1>1 DEF SoundInv, OneMusic
<1>2. CASE ~running /\ running' = TRUE /\ engines' = engines + 1 /\ schedTimers' = schedTimers + 1
  <2>1. engines = 0 /\ schedTimers = 0
    BY <1>2 DEF SoundInv, OneMusic
  <2>2. engines' = 1 /\ schedTimers' = 1
    BY <1>2, <2>1
  <2> QED BY <1>2, <2>2 DEF OneMusic
<1> QED BY <1>1, <1>2 DEF MusicStarts

LEMMA SoundStep == ASSUME SoundInv, [ShellNext]_shellVars PROVE SoundInv'
<1> USE DEF SoundInv, SoundIsAsked, engine, ApplyGains
<1>1. CASE Dismiss
  <2>1. /\ pressed' = TRUE /\ audioCtx' # "none" /\ MusicStarts
        /\ gain' = (IF muted THEN "shut" ELSE "open") /\ UNCHANGED muted
    BY <1>1 DEF Dismiss, Unlock, Start, MusicStarts
  <2> QED BY <2>1, MusicOnce
<1>2. ASSUME NEW ok \in BOOLEAN, ResumeSettles(ok) PROVE SoundInv'
  <2>1. /\ unlocking > 0 /\ (audioCtx # "none" => audioCtx' # "none") /\ MusicStarts
        /\ gain' = (IF muted THEN "shut" ELSE "open") /\ UNCHANGED <<muted, pressed>>
    BY <1>2 DEF ResumeSettles, Start, MusicStarts
  <2> QED BY <2>1, MusicOnce
<1>3. CASE SystemTurnsSound
  BY <1>3 DEF SystemTurnsSound, OneMusic
<1>4. CASE ToggleMuted
  BY <1>4 DEF ToggleMuted, OneMusic
<1>5. CASE \/ EffectRuns \/ EffectCleans \/ SocketConnects \/ SocketFails \/ WorldSeen
           \/ \E to \in {"default", "server"} : ConfigAnswered(to)
  BY <1>5, SoundStands
     DEF EffectRuns, EffectCleans, SocketConnects, SocketFails, WorldSeen, ConfigAnswered
<1>6. CASE MinElapses \/ Fades \/ LayoutChanges \/ UNCHANGED shellVars
  BY <1>6, SoundStands DEF MinElapses, Fades, LayoutChanges, shellVars
<1> QED BY <1>1, <1>2, <1>3, <1>4, <1>5, <1>6 DEF ShellNext

LEMMA ShellStart == ASSUME ShellInit PROVE BootInv /\ SoundInv
<1>1. BootInv
  BY DEF ShellInit, BootInv
<1>2. OneMusic
  BY DEF ShellInit, OneMusic
<1>3. SoundIsAsked
  BY DEF ShellInit, SoundIsAsked
<1>4. running \in BOOLEAN /\ muted \in BOOLEAN /\ unlocking = 0 /\ gain = "none"
  BY DEF ShellInit
<1> QED BY <1>1, <1>2, <1>3, <1>4 DEF SoundInv

LEMMA BarFollows == ASSUME BootInv PROVE BarIsHonest
<1> SUFFICES ASSUME "ready" \in StartParts
             PROVE  StartParts = Signals \cup {"ready"} /\ ~minElapsed
  BY DEF BarIsHonest
<1> DEFINE Lit == {READINESS_ORDER[n] : n \in ReadyCount}
<1>1. Lit = readiness \cap Signals
  BY DEF ReadyCount, Signals
<1>2. "ready" \notin Signals
  BY SignalsAre
<1>3. /\ ~CanStart
      /\ StartParts = Lit \cup (IF readiness = Signals THEN {"ready"} ELSE {"label"})
  BY DEF StartParts
<1> HIDE DEF Lit
<1>4. readiness = Signals
  BY <1>1, <1>2, <1>3
<1> QED BY <1>1, <1>3, <1>4 DEF CanStart

\* The page wakes quietly: whatever StrictMode, the window and the browser do, it asks
\* once for its configuration, plays one music after START, and its bar is honest.
THEOREM PageWakesQuietly == ShellSpec => []PageWakes
<1>1. ShellInit => BootInv /\ SoundInv
  BY ShellStart
<1>2. (BootInv /\ SoundInv) /\ [ShellNext]_shellVars => (BootInv /\ SoundInv)'
  BY BootStep, SoundStep
<1>3. BootInv /\ SoundInv => PageWakes
  BY BarFollows DEF PageWakes, BootInv, SoundInv, ConfigAskedOnce
<1> QED BY <1>1, <1>2, <1>3, PTL DEF ShellSpec

-----------------------------------------------------------------------------
(* Surveys. *)

Places == {"page", "elsewhere"}
CallsMade == [step : {"sent", "passed", "recorded", "revealed", "cold", "failed"},
              by : Surveyors, hex : Prospects]
ListsMade == [step : {"sent"}, by : Surveyors] \cup [step : {"read"}, rows : SUBSET Prospects]

CallTypes ==
  /\ surveyCalls \in [Places -> {NoCall} \cup CallsMade]
  /\ lists \in [Loads -> {NoList} \cup ListsMade]
  /\ visitor \in Surveyors \cup {NoSurveyor}

HasRow(h) == \E a \in Surveyors : <<a, h>> \in surveyRows \cup unwritten

\* What is revealed, listed or shown has its row; the row comes before the answer.
RowInv ==
  /\ \A c \in Places : surveyCalls[c].step \in {"recorded", "revealed"} => HasRow(surveyCalls[c].hex)
  /\ \A l \in Loads : lists[l].step = "read" => \A h \in lists[l].rows : HasRow(h)
  /\ \A h \in surveys : HasRow(h)

Passed(c, a) == surveyCalls[c].step = "passed" /\ surveyCalls[c].by = a

\* A cooldown that is armed has at most one call that slipped past it, and that call has
\* not recorded its reveal yet or nothing is left to.
CooldownInv ==
  /\ surveyCooling \in [Surveyors -> BOOLEAN] /\ revealsInCooldown \in [Surveyors -> Nat]
  /\ \A a \in Surveyors :
       /\ ~surveyCooling[a] => revealsInCooldown[a] = 0
       /\ surveyCooling[a] =>
            \/ revealsInCooldown[a] = 0 /\ ~(Passed("page", a) /\ Passed("elsewhere", a))
            \/ revealsInCooldown[a] = 1 /\ ~Passed("page", a) /\ ~Passed("elsewhere", a)

FlagInv == surveyInFlight \in BOOLEAN /\ FlagFollowsCall

LEMMA NoCallIsNone ==
  NoCall.step = "none" /\ NoCall \notin CallsMade /\ NoList.step = "none" /\ NoList \notin ListsMade
  BY DEF NoCall, CallsMade, NoList, ListsMade

\* What it means for a call to go one step further.
LEMMA CallGoes ==
  ASSUME CallTypes, NEW c \in Places, surveyCalls[c].step # "none",
         NEW s \in {"sent", "passed", "recorded", "revealed", "cold", "failed"},
         surveyCalls' = [surveyCalls EXCEPT ![c].step = s]
  PROVE  /\ surveyCalls' \in [Places -> {NoCall} \cup CallsMade]
         /\ surveyCalls'[c] \in CallsMade /\ surveyCalls[c] \in CallsMade
         /\ surveyCalls'[c].step = s /\ surveyCalls'[c].by = surveyCalls[c].by
         /\ surveyCalls'[c].hex = surveyCalls[c].hex
         /\ \A d \in Places : d # c => surveyCalls'[d] = surveyCalls[d]
<1>1. surveyCalls[c] \in CallsMade
  BY NoCallIsNone DEF CallTypes
<1>2. surveyCalls' = [surveyCalls EXCEPT ![c] = [surveyCalls[c] EXCEPT !.step = s]]
  OBVIOUS
<1>3. [surveyCalls[c] EXCEPT !.step = s] = [step |-> s, by |-> surveyCalls[c].by, hex |-> surveyCalls[c].hex]
  BY <1>1 DEF CallsMade
<1>4. [step |-> s, by |-> surveyCalls[c].by, hex |-> surveyCalls[c].hex] \in CallsMade
  BY <1>1 DEF CallsMade
<1>5. surveyCalls'[c] = [step |-> s, by |-> surveyCalls[c].by, hex |-> surveyCalls[c].hex]
  BY <1>2, <1>3 DEF CallTypes
<1>6. surveyCalls' \in [Places -> {NoCall} \cup CallsMade]
  BY <1>2, <1>3, <1>4 DEF CallTypes
<1>7. \A d \in Places : d # c => surveyCalls'[d] = surveyCalls[d]
  BY <1>2 DEF CallTypes
<1> QED BY <1>1, <1>4, <1>5, <1>6, <1>7

LEMMA CallTypesStep == ASSUME CallTypes, [SurveysNext]_surveyVars PROVE CallTypes'
<1> USE DEF surveyStore, surveyPage
<1>1. ASSUME NEW c \in Places,
             \/ SurveyChecked(c) \/ SurveyArmed(c) \/ SurveyFails(c)
             \/ \E ok \in BOOLEAN : SurveyRecorded(c, ok)
      PROVE  CallTypes'
  <2>1. surveyCalls[c].step # "none" /\ UNCHANGED <<lists, visitor>>
    BY <1>1 DEF SurveyChecked, SurveyArmed, SurveyFails, SurveyRecorded
  <2>2. \E s \in {"sent", "passed", "recorded", "revealed", "cold", "failed"} :
          surveyCalls' = [surveyCalls EXCEPT ![c].step = s]
    BY <1>1 DEF SurveyChecked, SurveyArmed, SurveyFails, SurveyRecorded
  <2> QED BY <2>1, <2>2, CallGoes DEF CallTypes
<1>2. ASSUME NEW a \in Surveyors, CooldownEnds(a) PROVE CallTypes'
  BY <1>2 DEF CooldownEnds, CallTypes
<1>3. ASSUME NEW h \in Prospects, SubmitSurvey(h) \/ SurveyElsewhere(h) PROVE CallTypes'
  <2>1. visitor # NoSurveyor => Call(h) \in CallsMade
    BY DEF Call, CallsMade, CallTypes
  <2>2. visitor # NoSurveyor /\ UNCHANGED <<lists, visitor>>
    BY <1>3 DEF SubmitSurvey, SurveyElsewhere
  <2>3. \E c \in Places : surveyCalls' = [surveyCalls EXCEPT ![c] = Call(h)]
    BY <1>3 DEF SubmitSurvey, SurveyElsewhere, Places
  <2> QED BY <2>1, <2>2, <2>3 DEF CallTypes
<1>4. CASE SurveyAnswered \/ AnsweredElsewhere
  BY <1>4 DEF SurveyAnswered, AnsweredElsewhere, CallTypes, Places
<1>5. CASE SurveyCut
  BY <1>5 DEF SurveyCut, CallTypes, Places
<1>6. ASSUME NEW l \in Loads,
             LoadStarts(l) \/ SurveysRead(l) \/ SurveysLoaded(l) \/ LoadFails(l)
      PROVE  CallTypes'
  <2>1. CASE LoadStarts(l)
    <3>1. [step |-> "sent", by |-> visitor] \in ListsMade
      BY <2>1 DEF LoadStarts, CallTypes, ListsMade
    <3> QED BY <2>1, <3>1 DEF LoadStarts, CallTypes
  <2>2. CASE SurveysRead(l)
    <3>1. [step |-> "read", rows |-> UserSurveys(lists[l].by)] \in ListsMade
      BY DEF UserSurveys, ListsMade, Prospects
    <3> QED BY <2>2, <3>1 DEF SurveysRead, CallTypes
  <2>3. CASE SurveysLoaded(l) \/ LoadFails(l)
    BY <2>3 DEF SurveysLoaded, LoadFails, CallTypes
  <2> QED BY <1>6, <2>1, <2>2, <2>3
<1>7. ASSUME NEW a \in Surveyors \cup {NoSurveyor}, VisitorChanges(a) PROVE CallTypes'
  BY <1>7 DEF VisitorChanges, CallTypes
<1>8. CASE UNCHANGED surveyVars
  BY <1>8 DEF surveyVars, CallTypes
<1>9. DOMAIN surveyCalls = Places
  BY DEF CallTypes
<1> QED BY <1>1, <1>2, <1>3, <1>4, <1>5, <1>6, <1>7, <1>8, <1>9 DEF SurveysNext

\* Rows are never taken away, so it is enough to look at what is new.
LEMMA RowsStand ==
  ASSUME RowInv, surveyRows \subseteq surveyRows', unwritten \subseteq unwritten',
         \A c \in Places : \/ surveyCalls'[c].step \notin {"recorded", "revealed"}
                           \/ HasRow(surveyCalls[c].hex)'
                           \/ \E d \in Places : surveyCalls'[c] = surveyCalls[d],
         \A l \in Loads : \/ lists'[l].step # "read" \/ lists'[l] = lists[l]
                          \/ \A h \in lists'[l].rows : HasRow(h),
         \A h \in surveys' \ surveys : HasRow(h)
  PROVE  RowInv'
<1>1. \A h : HasRow(h) => HasRow(h)'
  BY DEF HasRow
<1> QED BY <1>1 DEF RowInv

LEMMA RowStep == ASSUME CallTypes, RowInv, [SurveysNext]_surveyVars PROVE RowInv'
<1> USE DEF surveyStore, surveyPage
<1>1. ASSUME NEW c \in Places, SurveyChecked(c) \/ SurveyFails(c) PROVE RowInv'
  <2>1. surveyCalls[c].step # "none" /\ UNCHANGED <<surveyRows, unwritten, lists, surveys>>
    BY <1>1 DEF SurveyChecked, SurveyFails
  <2>2. \E s \in {"passed", "cold", "failed"} :
          surveyCalls' = [surveyCalls EXCEPT ![c].step = s]
    BY <1>1 DEF SurveyChecked, SurveyFails
  <2> QED BY <2>1, <2>2, CallGoes, RowsStand
<1>2. ASSUME NEW c \in Places, NEW ok \in BOOLEAN, SurveyRecorded(c, ok) PROVE RowInv'
  <2>1. /\ surveyCalls[c].step # "none" /\ UNCHANGED <<lists, surveys>>
        /\ surveyCalls' = [surveyCalls EXCEPT ![c].step = "recorded"]
        /\ RecordSurvey(surveyCalls[c], ok)
    BY <1>2 DEF SurveyRecorded
  <2>2. /\ surveyRows \subseteq surveyRows' /\ unwritten \subseteq unwritten'
        /\ <<surveyCalls[c].by, surveyCalls[c].hex>> \in surveyRows' \cup unwritten'
    BY <2>1 DEF RecordSurvey
  <2>3. surveyCalls[c] \in CallsMade /\ surveyCalls'[c].hex = surveyCalls[c].hex
        /\ \A d \in Places : d # c => surveyCalls'[d] = surveyCalls[d]
    BY <2>1, CallGoes
  <2>4. HasRow(surveyCalls[c].hex)'
    BY <2>2, <2>3 DEF HasRow, CallsMade
  <2> QED BY <2>1, <2>2, <2>3, <2>4, RowsStand
<1>3. ASSUME NEW c \in Places, SurveyArmed(c) PROVE RowInv'
  <2>1. /\ surveyCalls[c].step = "recorded" /\ UNCHANGED <<surveyRows, unwritten, lists, surveys>>
        /\ surveyCalls' = [surveyCalls EXCEPT ![c].step = "revealed"]
    BY <1>3 DEF SurveyArmed
  <2>2. surveyCalls'[c].hex = surveyCalls[c].hex
        /\ \A d \in Places : d # c => surveyCalls'[d] = surveyCalls[d]
    BY <2>1, CallGoes
  <2>3. HasRow(surveyCalls[c].hex)'
    BY <2>1, <2>2 DEF RowInv, HasRow
  <2> QED BY <2>1, <2>2, <2>3, RowsStand
<1>4. ASSUME NEW a \in Surveyors, CooldownEnds(a) PROVE RowInv'
  BY <1>4, RowsStand DEF CooldownEnds
<1>5. ASSUME NEW h \in Prospects, SubmitSurvey(h) \/ SurveyElsewhere(h) PROVE RowInv'
  <2>1. \E c \in Places : surveyCalls' = [surveyCalls EXCEPT ![c] = Call(h)]
    BY <1>5 DEF SubmitSurvey, SurveyElsewhere, Places
  <2>2. Call(h).step = "sent"
    BY DEF Call
  <2>3. \A c \in Places : surveyCalls'[c].step \notin {"recorded", "revealed"}
                          \/ surveyCalls'[c] = surveyCalls[c]
    BY <2>1, <2>2 DEF CallTypes
  <2>4. UNCHANGED <<surveyRows, unwritten, lists, surveys>>
    BY <1>5 DEF SubmitSurvey, SurveyElsewhere
  <2> QED BY <2>3, <2>4, RowsStand
<1>6. CASE SurveyAnswered
  <2>1. \A c \in Places : surveyCalls'[c].step \notin {"recorded", "revealed"}
                          \/ surveyCalls'[c] = surveyCalls[c]
    BY <1>6, NoCallIsNone DEF SurveyAnswered, CallTypes, Places
  <2>2. surveys' \subseteq surveys
          \cup (IF surveyCalls["page"].step = "revealed" THEN {surveyCalls["page"].hex} ELSE {})
    BY <1>6 DEF SurveyAnswered, AddSurvey
  <2>3. \A h \in surveys' \ surveys : HasRow(h)
    BY <2>2 DEF RowInv, Places
  <2>4. UNCHANGED <<surveyRows, unwritten, lists>>
    BY <1>6 DEF SurveyAnswered
  <2> QED BY <2>1, <2>3, <2>4, RowsStand
<1>7. CASE AnsweredElsewhere \/ SurveyCut
  <2>1. \A c \in Places : surveyCalls'[c].step \notin {"recorded", "revealed"}
                          \/ \E d \in Places : surveyCalls'[c] = surveyCalls[d]
    BY <1>7, NoCallIsNone DEF AnsweredElsewhere, SurveyCut, CallTypes, Places
  <2>2. UNCHANGED <<surveyRows, unwritten, lists, surveys>>
    BY <1>7 DEF AnsweredElsewhere, SurveyCut
  <2> QED BY <2>1, <2>2, RowsStand
<1>8. ASSUME NEW l \in Loads, LoadStarts(l) \/ LoadFails(l) PROVE RowInv'
  <2>1. \A m \in Loads : lists'[m].step # "read" \/ lists'[m] = lists[m]
    BY <1>8, NoCallIsNone DEF LoadStarts, LoadFails, CallTypes
  <2>2. UNCHANGED <<surveyRows, unwritten, surveyCalls, surveys>>
    BY <1>8 DEF LoadStarts, LoadFails
  <2> QED BY <2>1, <2>2, RowsStand
<1>9. ASSUME NEW l \in Loads, SurveysRead(l) PROVE RowInv'
  <2>1. lists[l].by \in Surveyors
    BY <1>9, NoCallIsNone DEF SurveysRead, CallTypes, ListsMade
  <2>2. \A h \in UserSurveys(lists[l].by) : HasRow(h)
    BY <2>1 DEF UserSurveys, HasRow
  <2>3. \A m \in Loads : (lists'[m].step # "read" \/ lists'[m] = lists[m])
                         \/ \A h \in lists'[m].rows : HasRow(h)
    BY <1>9, <2>2 DEF SurveysRead, CallTypes
  <2>4. UNCHANGED <<surveyRows, unwritten, surveyCalls, surveys>>
    BY <1>9 DEF SurveysRead
  <2> QED BY <2>3, <2>4, RowsStand
<1>10. ASSUME NEW l \in Loads, SurveysLoaded(l) PROVE RowInv'
  <2>1. \A m \in Loads : lists'[m].step # "read" \/ lists'[m] = lists[m]
    BY <1>10, NoCallIsNone DEF SurveysLoaded, CallTypes
  <2>2. \A h \in surveys' : HasRow(h)
    BY <1>10 DEF SurveysLoaded, SetSurveys, RowInv
  <2>3. UNCHANGED <<surveyRows, unwritten, surveyCalls>>
    BY <1>10 DEF SurveysLoaded
  <2> QED BY <2>1, <2>2, <2>3, RowsStand
<1>11. ASSUME NEW a \in Surveyors \cup {NoSurveyor}, VisitorChanges(a) PROVE RowInv'
  BY <1>11, RowsStand DEF VisitorChanges
<1>12. CASE UNCHANGED surveyVars
  BY <1>12, RowsStand DEF surveyVars
<1>13. DOMAIN surveyCalls = Places
  BY DEF CallTypes
<1> QED BY <1>1, <1>2, <1>3, <1>4, <1>5, <1>6, <1>7, <1>8, <1>9, <1>10, <1>11, <1>12, <1>13
        DEF SurveysNext

\* No call passes the check that had not passed it: the cooldown stays as sound.
LEMMA CooldownStands ==
  ASSUME CooldownInv, UNCHANGED <<surveyCooling, revealsInCooldown>>,
         \A a \in Surveyors : surveyCooling[a] => \A c \in Places : Passed(c, a)' => Passed(c, a)
  PROVE  CooldownInv'
<1> SUFFICES ASSUME NEW a \in Surveyors, surveyCooling[a]
             PROVE  \/ revealsInCooldown[a] = 0 /\ ~(Passed("page", a)' /\ Passed("elsewhere", a)')
                    \/ revealsInCooldown[a] = 1 /\ ~Passed("page", a)' /\ ~Passed("elsewhere", a)'
  BY DEF CooldownInv
<1> QED BY DEF CooldownInv, Places

LEMMA CooldownStep ==
  ASSUME CallTypes, CooldownInv, [SurveysNext]_surveyVars PROVE CooldownInv'
<1> USE DEF surveyStore, surveyPage
<1>1. ASSUME NEW c \in Places, SurveyChecked(c) PROVE CooldownInv'
  <2>1. surveyCalls[c].step # "none" /\ UNCHANGED <<surveyCooling, revealsInCooldown>>
    BY <1>1 DEF SurveyChecked
  <2>2. PICK s \in {"passed", "cold", "failed"} :
          /\ surveyCalls' = [surveyCalls EXCEPT ![c].step = s]
          /\ s = "passed" => ~surveyCooling[surveyCalls[c].by]
    BY <1>1 DEF SurveyChecked, SurveyCooldownRemaining
  <2>3. /\ surveyCalls'[c].step = s /\ surveyCalls'[c].by = surveyCalls[c].by
        /\ \A d \in Places : d # c => surveyCalls'[d] = surveyCalls[d]
    BY <2>1, <2>2, CallGoes
  <2>4. \A a \in Surveyors : surveyCooling[a] => \A d \in Places : Passed(d, a)' => Passed(d, a)
    BY <2>2, <2>3 DEF Passed
  <2> QED BY <2>1, <2>4, CooldownStands
<1>2. ASSUME NEW c \in Places, SurveyFails(c) PROVE CooldownInv'
  <2>1. /\ surveyCalls[c].step # "none" /\ UNCHANGED <<surveyCooling, revealsInCooldown>>
        /\ surveyCalls' = [surveyCalls EXCEPT ![c].step = "failed"]
    BY <1>2 DEF SurveyFails
  <2>2. /\ surveyCalls'[c].step = "failed"
        /\ \A d \in Places : d # c => surveyCalls'[d] = surveyCalls[d]
    BY <2>1, CallGoes
  <2>3. \A a \in Surveyors, d \in Places : Passed(d, a)' => Passed(d, a)
    BY <2>2 DEF Passed
  <2> QED BY <2>1, <2>3, CooldownStands
<1>3. ASSUME NEW c \in Places, NEW ok \in BOOLEAN, SurveyRecorded(c, ok) PROVE CooldownInv'
  <2>1. /\ surveyCalls[c].step = "passed" /\ UNCHANGED surveyCooling
        /\ surveyCalls' = [surveyCalls EXCEPT ![c].step = "recorded"]
        /\ revealsInCooldown' = IF surveyCooling[surveyCalls[c].by]
             THEN [revealsInCooldown EXCEPT ![surveyCalls[c].by] = @ + 1] ELSE revealsInCooldown
    BY <1>3 DEF SurveyRecorded
  <2>2. /\ surveyCalls'[c].step = "recorded" /\ surveyCalls[c].by \in Surveyors
        /\ \A d \in Places : d # c => surveyCalls'[d] = surveyCalls[d]
    BY <2>1, CallGoes DEF CallsMade
  <2>3. \A a \in Surveyors, d \in Places : Passed(d, a)' => d # c /\ Passed(d, a)
    BY <2>2 DEF Passed
  <2>4. CASE ~surveyCooling[surveyCalls[c].by]
    BY <2>1, <2>3, <2>4, CooldownStands
  <2>5. CASE surveyCooling[surveyCalls[c].by]
    <3>0. PICK who \in Surveyors : who = surveyCalls[c].by
      BY <2>2
    <3>1. Passed(c, who)
      BY <2>1, <3>0 DEF Passed
    <3>2. revealsInCooldown[who] = 0 /\ ~(Passed("page", who) /\ Passed("elsewhere", who))
      BY <2>5, <3>0, <3>1 DEF CooldownInv, Places
    <3>3. revealsInCooldown' = [revealsInCooldown EXCEPT ![who] = 1]
      BY <2>1, <2>5, <3>0, <3>2
    <3>4. ~Passed("page", who)' /\ ~Passed("elsewhere", who)'
      BY <2>3, <3>1, <3>2 DEF Places
    <3>5. revealsInCooldown' \in [Surveyors -> Nat]
      BY <3>3 DEF CooldownInv
    <3>6. ASSUME NEW a \in Surveyors
          PROVE  /\ ~surveyCooling'[a] => revealsInCooldown'[a] = 0
                 /\ surveyCooling'[a] =>
                      \/ revealsInCooldown'[a] = 0 /\ ~(Passed("page", a)' /\ Passed("elsewhere", a)')
                      \/ revealsInCooldown'[a] = 1 /\ ~Passed("page", a)' /\ ~Passed("elsewhere", a)'
      <4>1. CASE a = who
        BY <2>1, <2>5, <3>0, <3>3, <3>4, <4>1 DEF CooldownInv
      <4>2. CASE a # who
        <5>1. revealsInCooldown'[a] = revealsInCooldown[a] /\ surveyCooling'[a] = surveyCooling[a]
          BY <2>1, <3>3, <4>2 DEF CooldownInv
        <5> QED BY <2>3, <5>1 DEF CooldownInv, Places
      <4> QED BY <4>1, <4>2
    <3> QED BY <2>1, <3>5, <3>6 DEF CooldownInv
  <2> QED BY <2>4, <2>5
<1>4. ASSUME NEW c \in Places, SurveyArmed(c) PROVE CooldownInv'
  <2> DEFINE who == surveyCalls[c].by
  <2>1. /\ surveyCalls[c].step = "recorded" /\ UNCHANGED revealsInCooldown
        /\ surveyCalls' = [surveyCalls EXCEPT ![c].step = "revealed"]
        /\ surveyCooling' = [surveyCooling EXCEPT ![who] = TRUE]
    BY <1>4 DEF SurveyArmed, ArmSurveyCooldown
  <2>2. /\ surveyCalls'[c].step = "revealed"
        /\ \A d \in Places : d # c => surveyCalls'[d] = surveyCalls[d]
    BY <2>1, CallGoes
  <2>3. \A a \in Surveyors, d \in Places : Passed(d, a)' => d # c /\ Passed(d, a)
    BY <2>2 DEF Passed
  <2> HIDE DEF who
  <2>4. surveyCooling' \in [Surveyors -> BOOLEAN]
    BY <2>1 DEF CooldownInv
  <2>5. ASSUME NEW a \in Surveyors
        PROVE  /\ ~surveyCooling'[a] => revealsInCooldown'[a] = 0
               /\ surveyCooling'[a] =>
                    \/ revealsInCooldown'[a] = 0 /\ ~(Passed("page", a)' /\ Passed("elsewhere", a)')
                    \/ revealsInCooldown'[a] = 1 /\ ~Passed("page", a)' /\ ~Passed("elsewhere", a)'
    <3>1. surveyCooling[a] => surveyCooling'[a]
      BY <2>1 DEF CooldownInv
    <3>2. ~(Passed("page", a)' /\ Passed("elsewhere", a)')
      BY <2>3 DEF Places
    <3>3. CASE surveyCooling[a]
      BY <2>1, <2>3, <3>1, <3>2, <3>3 DEF CooldownInv, Places
    <3>4. CASE ~surveyCooling[a]
      BY <2>1, <3>2, <3>4 DEF CooldownInv
    <3> QED BY <3>3, <3>4
  <2> QED BY <2>1, <2>4, <2>5 DEF CooldownInv
<1>5. ASSUME NEW a \in Surveyors, CooldownEnds(a) PROVE CooldownInv'
  BY <1>5 DEF CooldownEnds, CooldownInv, Passed
<1>6. ASSUME NEW h \in Prospects, SubmitSurvey(h) \/ SurveyElsewhere(h) PROVE CooldownInv'
  <2>1. \E c \in Places : surveyCalls' = [surveyCalls EXCEPT ![c] = Call(h)]
    BY <1>6 DEF SubmitSurvey, SurveyElsewhere, Places
  <2>2. Call(h).step = "sent"
    BY DEF Call
  <2>3. \A a \in Surveyors, d \in Places : Passed(d, a)' => Passed(d, a)
    BY <2>1, <2>2 DEF CallTypes, Passed
  <2>4. UNCHANGED <<surveyCooling, revealsInCooldown>>
    BY <1>6 DEF SubmitSurvey, SurveyElsewhere
  <2> QED BY <2>3, <2>4, CooldownStands
<1>7. CASE SurveyAnswered \/ AnsweredElsewhere
  <2>1. \A a \in Surveyors, d \in Places : Passed(d, a)' => Passed(d, a)
    BY <1>7, NoCallIsNone DEF SurveyAnswered, AnsweredElsewhere, CallTypes, Passed, Places
  <2>2. UNCHANGED <<surveyCooling, revealsInCooldown>>
    BY <1>7 DEF SurveyAnswered, AnsweredElsewhere
  <2> QED BY <2>1, <2>2, CooldownStands
<1>8. CASE SurveyCut
  <2>1. /\ surveyCalls'["page"].step = "none" /\ surveyCalls'["elsewhere"] = surveyCalls["page"]
        /\ surveyCalls["elsewhere"].step = "none" /\ UNCHANGED <<surveyCooling, revealsInCooldown>>
    BY <1>8, NoCallIsNone DEF SurveyCut
  <2>2. \A a \in Surveyors : /\ ~Passed("page", a)' /\ ~Passed("elsewhere", a)
                             /\ Passed("elsewhere", a)' => Passed("page", a)
    BY <2>1 DEF Passed
  <2> QED BY <2>1, <2>2 DEF CooldownInv
<1>9. ASSUME NEW l \in Loads,
             LoadStarts(l) \/ SurveysRead(l) \/ SurveysLoaded(l) \/ LoadFails(l)
      PROVE  CooldownInv'
  BY <1>9, CooldownStands DEF LoadStarts, SurveysRead, SurveysLoaded, LoadFails, Passed
<1>10. ASSUME NEW a \in Surveyors \cup {NoSurveyor}, VisitorChanges(a) PROVE CooldownInv'
  BY <1>10, CooldownStands DEF VisitorChanges, Passed
<1>11. CASE UNCHANGED surveyVars
  BY <1>11, CooldownStands DEF surveyVars, Passed
<1>12. DOMAIN surveyCalls = Places
  BY DEF CallTypes
<1> QED BY <1>1, <1>2, <1>3, <1>4, <1>5, <1>6, <1>7, <1>8, <1>9, <1>10, <1>11, <1>12
        DEF SurveysNext

LEMMA FlagStands ==
  ASSUME FlagInv, UNCHANGED surveyInFlight, surveyCalls'["page"] = NoCall <=> surveyCalls["page"] = NoCall
  PROVE  FlagInv'
  BY DEF FlagInv, FlagFollowsCall

LEMMA FlagStep == ASSUME CallTypes, FlagInv, [SurveysNext]_surveyVars PROVE FlagInv'
<1> USE DEF surveyStore, surveyPage
<1>1. ASSUME NEW c \in Places,
             \/ SurveyChecked(c) \/ SurveyArmed(c) \/ SurveyFails(c)
             \/ \E ok \in BOOLEAN : SurveyRecorded(c, ok)
      PROVE  FlagInv'
  <2>1. surveyCalls[c].step # "none" /\ UNCHANGED surveyInFlight
    BY <1>1 DEF SurveyChecked, SurveyArmed, SurveyFails, SurveyRecorded
  <2>2. PICK s \in {"sent", "passed", "recorded", "revealed", "cold", "failed"} :
          surveyCalls' = [surveyCalls EXCEPT ![c].step = s]
    BY <1>1 DEF SurveyChecked, SurveyArmed, SurveyFails, SurveyRecorded
  <2>3. /\ surveyCalls'[c] \in CallsMade /\ surveyCalls[c] \in CallsMade
        /\ \A d \in Places : d # c => surveyCalls'[d] = surveyCalls[d]
    BY <2>1, <2>2, CallGoes
  <2>4. surveyCalls'["page"] = NoCall <=> surveyCalls["page"] = NoCall
    BY <2>3, NoCallIsNone DEF Places
  <2> QED BY <2>1, <2>4, FlagStands
<1>2. ASSUME NEW h \in Prospects, SubmitSurvey(h) PROVE FlagInv'
  <2>1. Call(h).step = "sent" /\ surveyCalls'["page"] = Call(h) /\ surveyInFlight' = TRUE
    BY <1>2 DEF SubmitSurvey, CallTypes, Places, Call
  <2> QED BY <2>1, NoCallIsNone DEF FlagInv, FlagFollowsCall
<1>3. ASSUME NEW h \in Prospects, SurveyElsewhere(h) PROVE FlagInv'
  <2>1. surveyCalls'["page"] = surveyCalls["page"] /\ UNCHANGED surveyInFlight
    BY <1>3 DEF SurveyElsewhere, CallTypes, Places
  <2> QED BY <2>1, FlagStands
<1>4. CASE SurveyAnswered \/ SurveyCut
  <2>1. surveyCalls'["page"] = NoCall /\ surveyInFlight' = FALSE
    BY <1>4 DEF SurveyAnswered, SurveyCut, CallTypes, Places
  <2> QED BY <2>1 DEF FlagInv, FlagFollowsCall
<1>5. CASE AnsweredElsewhere
  <2>1. surveyCalls'["page"] = surveyCalls["page"] /\ UNCHANGED surveyInFlight
    BY <1>5 DEF AnsweredElsewhere, CallTypes, Places
  <2> QED BY <2>1, FlagStands
<1>6. ASSUME NEW l \in Loads,
             LoadStarts(l) \/ SurveysRead(l) \/ SurveysLoaded(l) \/ LoadFails(l)
      PROVE  FlagInv'
  BY <1>6, FlagStands DEF LoadStarts, SurveysRead, SurveysLoaded, LoadFails
<1>7. ASSUME NEW a \in Surveyors \cup {NoSurveyor}, VisitorChanges(a) \/ CooldownEnds(a) PROVE FlagInv'
  BY <1>7, FlagStands DEF VisitorChanges, CooldownEnds
<1>8. CASE UNCHANGED surveyVars
  BY <1>8, FlagStands DEF surveyVars
<1>9. DOMAIN surveyCalls = Places
  BY DEF CallTypes
<1> QED BY <1>1, <1>2, <1>3, <1>4, <1>5, <1>6, <1>7, <1>8, <1>9 DEF SurveysNext

LEMMA SurveyStart ==
  ASSUME SurveysInit PROVE CallTypes /\ RowInv /\ CooldownInv /\ FlagInv
<1>1. CallTypes /\ FlagInv
  BY DEF SurveysInit, CallTypes, FlagInv, FlagFollowsCall, Places
<1>2. RowInv
  BY NoCallIsNone DEF SurveysInit, RowInv, Places
<1>3. CooldownInv
  BY DEF SurveysInit, CooldownInv
<1> QED BY <1>1, <1>2, <1>3

\* A survey is paid for and kept, whichever calls overlap, are cut or fail: one call at
\* most slips past a cooldown, the page waits for its own, and what it shows has a row.
THEOREM SurveysStayKept == SurveysSpec => []SurveysAreKept
<1> DEFINE Inv == CallTypes /\ RowInv /\ CooldownInv /\ FlagInv
<1>1. SurveysInit => Inv
  BY SurveyStart
<1>2. Inv /\ [SurveysNext]_surveyVars => Inv'
  BY CallTypesStep, RowStep, CooldownStep, FlagStep
<1>3. Inv => SurveysAreKept
  <2>1. CooldownInv => CooldownHolds
    BY DEF CooldownInv, CooldownHolds
  <2>2. RowInv => ShownIsRecorded
    BY DEF RowInv, HasRow, ShownIsRecorded
  <2> QED BY <2>1, <2>2 DEF FlagInv, SurveysAreKept
<1> QED BY <1>1, <1>2, <1>3, PTL DEF SurveysSpec

-----------------------------------------------------------------------------
(* AgentFeed. *)

NoMove       == moves = {} /\ moveAnswers = {} /\ ~submitting
MoveSent     == (\E a \in Agents : moves = {a}) /\ moveAnswers = {} /\ submitting
MoveReplied  == moves = {} /\ (\E x : moveAnswers = {x}) /\ submitting

\* A relocation is nowhere, on its way to the server, or on its way back.
MoveInv == active \in Agents \cup {NoAgent} /\ (NoMove \/ MoveSent \/ MoveReplied)

\* No list, no answer and no anchor knows of a relocation that did not happen, an answer
\* knows of the last, and an anchor is ahead of it by an error of the browser's clock at most.
AnchorInv ==
  /\ moved \in [Agents -> Nat] /\ anchor \in [Agents -> Nat]
  /\ \A a \in Agents : \E was \in ClockErrors \cup {0} : anchor[a] <= MovedAt(moved[a]) + was
  /\ \A snap \in answers : \A a \in Agents : snap.moved[a] \in Nat /\ snap.moved[a] <= moved[a]
  /\ \A x \in moveAnswers : x.agent \in Agents /\ x.at \in {0, MovedAt(moved[x.agent])}

LEMMA MovedAtGrows ==
  ASSUME NEW m \in Nat, NEW n \in Nat, m <= n
  PROVE  /\ MovedAt(n) \in Nat /\ MovedAt(m) \in Nat /\ MovedAt(m) <= MovedAt(n)
         /\ \A error \in ClockErrors : MovedAt(n) # 0 => MovedAt(n) + error \in Nat
<1>1. /\ RELOCATE_COOLDOWN \in Nat \ {0} /\ Launch \in Nat
      /\ \A error \in ClockErrors : error \in Int /\ Launch + error > 0
  BY AgentFeedAssumption
<1>2. /\ RELOCATE_COOLDOWN * m \in Nat /\ RELOCATE_COOLDOWN * (n - m) \in Nat
      /\ RELOCATE_COOLDOWN * n = RELOCATE_COOLDOWN * m + RELOCATE_COOLDOWN * (n - m)
  BY <1>1
<1> DEFINE low == RELOCATE_COOLDOWN * m  more == RELOCATE_COOLDOWN * (n - m)
           high == RELOCATE_COOLDOWN * n
<1>3. low \in Nat /\ more \in Nat /\ high = low + more
  BY <1>2
<1>4. MovedAt(n) = IF n = 0 THEN 0 ELSE Launch + high
  BY DEF MovedAt
<1>5. MovedAt(m) = IF m = 0 THEN 0 ELSE Launch + low
  BY DEF MovedAt
<1> HIDE DEF low, more, high
<1> QED BY <1>1, <1>3, <1>4, <1>5

LEMMA MoveStands ==
  ASSUME MoveInv, UNCHANGED <<moves, moveAnswers, submitting>>, active' \in Agents \cup {NoAgent}
  PROVE  MoveInv'
  BY DEF MoveInv, NoMove, MoveSent, MoveReplied

LEMMA AnchorStands ==
  ASSUME AnchorInv, UNCHANGED <<moved, anchor, moveAnswers>>, answers' \subseteq answers
  PROVE  AnchorInv' /\ AnchorKept
<1>1. AnchorInv'
  BY DEF AnchorInv
<1>2. \A a \in Agents : ~(anchor'[a] < anchor[a])
  BY DEF AnchorInv
<1> QED BY <1>1, <1>2 DEF AnchorKept

LEMMA MoveHandledOnce ==
  ASSUME MoveInv, AnchorInv, NEW a \in Agents, NEW ok \in BOOLEAN, NEW heard \in BOOLEAN,
         MoveHandled(a, ok, heard)
  PROVE  MoveInv' /\ AnchorInv' /\ anchor' = anchor
<1>1. moves = {a} /\ moveAnswers = {} /\ submitting
  BY DEF MoveHandled, MoveInv, NoMove, MoveSent, MoveReplied
<1>2. moves' = {} /\ UNCHANGED <<submitting, anchor, answers, active>>
  BY <1>1 DEF MoveHandled, requests
<1>3. moved' \in [Agents -> Nat] /\ \A b \in Agents : moved[b] <= moved'[b]
  <2>1. moved' = moved \/ moved' = [moved EXCEPT ![a] = @ + 1]
    BY DEF MoveHandled, simulation
  <2>2. moved \in [Agents -> Nat]
    BY DEF AnchorInv
  <2> QED BY <2>1, <2>2
<1>4. PICK t \in {0, MovedAt(moved'[a])} :
        moveAnswers' = {[agent |-> a, refused |-> cooling[a], at |-> t]}
  BY <1>1 DEF MoveHandled
<1>6. MoveReplied'
  BY <1>1, <1>2, <1>4 DEF MoveReplied
<1>7. AnchorInv'
  <2>1. ASSUME NEW b \in Agents
        PROVE  \E was \in ClockErrors \cup {0} : anchor'[b] <= MovedAt(moved'[b]) + was
    <3>1. PICK was \in ClockErrors \cup {0} : anchor[b] <= MovedAt(moved[b]) + was
      BY DEF AnchorInv
    <3>2. /\ MovedAt(moved[b]) \in Nat /\ MovedAt(moved'[b]) \in Nat
          /\ MovedAt(moved[b]) <= MovedAt(moved'[b]) /\ was \in Int /\ anchor[b] \in Nat
      <4>1. moved[b] \in Nat /\ moved'[b] \in Nat /\ moved[b] <= moved'[b] /\ anchor[b] \in Nat
        BY <1>3 DEF AnchorInv
      <4>2. /\ MovedAt(moved[b]) \in Nat /\ MovedAt(moved'[b]) \in Nat
            /\ MovedAt(moved[b]) <= MovedAt(moved'[b])
        <5> HIDE DEF MovedAt
        <5> QED BY <4>1, MovedAtGrows
      <4>3. was \in Int BY AgentFeedAssumption
      <4> QED BY <4>1, <4>2, <4>3
    <3> QED BY <1>2, <3>1, <3>2
  <2>2. \A snap \in answers' : \A b \in Agents : snap.moved[b] \in Nat /\ snap.moved[b] <= moved'[b]
    BY <1>2, <1>3 DEF AnchorInv
  <2>3. \A x \in moveAnswers' : x.agent \in Agents /\ x.at \in {0, MovedAt(moved'[x.agent])}
    BY <1>4
  <2>4. anchor' \in [Agents -> Nat]
    BY <1>2 DEF AnchorInv
  <2> QED BY <1>3, <2>1, <2>2, <2>3, <2>4 DEF AnchorInv
<1> QED BY <1>2, <1>6, <1>7 DEF MoveInv

LEMMA MoveAnsweredOnce ==
  ASSUME MoveInv, AnchorInv, MoveAnswered
  PROVE  MoveInv' /\ AnchorInv' /\ AnchorKept
<1>1. PICK reply \in moveAnswers :
        /\ moveAnswers' = moveAnswers \ {reply}
        /\ \E t \in AnchorsAfter(reply) : anchor' = [anchor EXCEPT ![reply.agent] = t]
  BY DEF MoveAnswered
<1>2. moves = {} /\ moveAnswers' = {} /\ submitting' = FALSE /\ active' = NoAgent
      /\ UNCHANGED <<moved, answers, moves>>
  BY <1>1 DEF MoveAnswered, CancelRelocation, MoveInv, NoMove, MoveSent, MoveReplied, simulation, requests
<1> DEFINE b == reply.agent
<1>3. b \in Agents /\ reply.at \in {0, MovedAt(moved[b])} /\ anchor[b] \in Nat /\ moved[b] \in Nat
  BY DEF AnchorInv
<1>4. PICK was \in ClockErrors \cup {0} : anchor[b] <= MovedAt(moved[b]) + was
  BY <1>3 DEF AnchorInv
<1>5. PICK set \in AnchorsAfter(reply) : anchor' = [anchor EXCEPT ![b] = set]
  BY <1>1
<1>6. /\ set \in Nat
      /\ set = anchor[b] \/ (reply.at # 0 /\ \E here \in ClockErrors \cup {0} : set = MovedAt(moved[b]) + here)
  <2>1. MovedAt(moved[b]) \in Nat
        /\ \A error \in ClockErrors : MovedAt(moved[b]) # 0 => MovedAt(moved[b]) + error \in Nat
    BY <1>3, MovedAtGrows
  <2>2. CASE reply.at = 0
    BY <1>3, <1>5, <2>2 DEF AnchorsAfter
  <2>3. CASE reply.at # 0 /\ reply.refused
    <3>1. reply.at = MovedAt(moved[b]) /\ MovedAt(moved[b]) # 0
      BY <1>3, <2>3
    <3>2. PICK error \in ClockErrors : set = MovedAt(moved[b]) + error
      BY <1>5, <2>3, <3>1 DEF AnchorsAfter
    <3> QED BY <2>1, <2>3, <3>1, <3>2
  <2>4. CASE reply.at # 0 /\ ~reply.refused
    <3>1. set = reply.at /\ reply.at = MovedAt(moved[b])
      BY <1>3, <1>5, <2>4 DEF AnchorsAfter
    <3>2. set = MovedAt(moved[b]) + 0
      BY <2>1, <3>1
    <3> QED BY <2>1, <2>4, <3>1, <3>2
  <2> QED BY <2>2, <2>3, <2>4
<1> HIDE DEF b
<1>7. anchor \in [Agents -> Nat] /\ anchor' \in [Agents -> Nat]
      /\ anchor'[b] = set /\ \A a \in Agents \ {b} : anchor'[a] = anchor[a]
  BY <1>3, <1>5, <1>6 DEF AnchorInv
<1>8. \A a \in Agents : \E w \in ClockErrors \cup {0} : anchor'[a] <= MovedAt(moved[a]) + w
  <2>1. ASSUME NEW here \in ClockErrors \cup {0}, set = MovedAt(moved[b]) + here
        PROVE  set <= MovedAt(moved[b]) + here
    BY <1>6, <2>1
  <2>2. \E w \in ClockErrors \cup {0} : anchor'[b] <= MovedAt(moved[b]) + w
    BY <1>4, <1>6, <1>7, <2>1
  <2> QED BY <1>7, <2>2 DEF AnchorInv
<1>9. AnchorKept
  <2> SUFFICES ASSUME NEW a \in Agents, anchor'[a] < anchor[a]
               PROVE  /\ \E x \in moveAnswers \ moveAnswers' : x.agent = a /\ x.at # 0
                      /\ \E here, w \in ClockErrors \cup {0} :
                           here < w /\ anchor'[a] = MovedAt(moved[a]) + here
                                    /\ anchor[a] <= MovedAt(moved[a]) + w
    BY DEF AnchorKept
  <2>1. a = b /\ set # anchor[b] /\ set < anchor[b]
    BY <1>3, <1>7
  <2>2. PICK here \in ClockErrors \cup {0} : set = MovedAt(moved[b]) + here
    BY <1>6, <2>1
  <2>3. MovedAt(moved[b]) \in Nat /\ here \in Int /\ was \in Int
    BY <1>3, MovedAtGrows, AgentFeedAssumption
  <2>4. here < was
    BY <1>3, <1>4, <1>6, <2>1, <2>2, <2>3
  <2>5. reply \in moveAnswers \ moveAnswers' /\ reply.agent = a /\ reply.at # 0
    BY <1>1, <1>6, <2>1 DEF b
  <2> QED BY <1>4, <1>7, <2>1, <2>2, <2>4, <2>5
<1>10. AnchorInv'
  BY <1>2, <1>7, <1>8 DEF AnchorInv
<1> QED BY <1>2, <1>9, <1>10 DEF MoveInv, NoMove

LEMMA AgentsLoadedLate ==
  ASSUME AnchorInv, AgentsLoaded
  PROVE  AnchorInv' /\ AnchorKept
<1>1. PICK snap \in answers :
        /\ answers' = answers \ {snap}
        /\ anchor' = [a \in Agents |-> SeedAnchor(a, MovedAt(snap.moved[a]))]
  BY DEF AgentsLoaded
<1>2. ASSUME NEW a \in Agents
      PROVE  /\ anchor'[a] \in Nat /\ anchor'[a] >= anchor[a]
             /\ \E was \in ClockErrors \cup {0} : anchor'[a] <= MovedAt(moved[a]) + was
  <2> DEFINE t == MovedAt(snap.moved[a])
  <2>1. snap.moved[a] \in Nat /\ moved[a] \in Nat /\ snap.moved[a] <= moved[a] /\ anchor[a] \in Nat
    BY DEF AnchorInv
  <2>2. t \in Nat /\ MovedAt(moved[a]) \in Nat /\ t <= MovedAt(moved[a])
    BY <2>1, MovedAtGrows
  <2>3. anchor'[a] = IF t = 0 \/ anchor[a] >= t THEN anchor[a] ELSE t
    BY <1>1 DEF SeedAnchor
  <2> HIDE DEF t
  <2>4. CASE anchor'[a] = anchor[a]
    BY <2>1, <2>4 DEF AnchorInv
  <2>5. CASE anchor'[a] = t /\ anchor'[a] # anchor[a]
    <3>1. t <= MovedAt(moved[a]) + 0
      BY <2>2
    <3> QED BY <2>1, <2>2, <2>3, <2>5, <3>1
  <2> QED BY <2>3, <2>4, <2>5
<1>3. UNCHANGED <<moved, moveAnswers>>
  BY DEF AgentsLoaded, simulation, relocation
<1>4. AnchorKept
  <2>1. \A a \in Agents : ~(anchor'[a] < anchor[a])
    BY <1>2 DEF AnchorInv
  <2> QED BY <2>1 DEF AnchorKept
<1>5. anchor' \in [Agents -> Nat]
  BY <1>1, <1>2
<1>6. \A other \in answers' : \A a \in Agents : other.moved[a] \in Nat /\ other.moved[a] <= moved'[a]
  BY <1>1, <1>3 DEF AnchorInv
<1> QED BY <1>2, <1>3, <1>4, <1>5, <1>6 DEF AnchorInv

LEMMA FeedStep ==
  ASSUME MoveInv, AnchorInv, [AgentFeedNext]_agentFeedVars
  PROVE  MoveInv' /\ AnchorInv' /\ AnchorKept
<1> USE DEF simulation, requests, relocation
<1>0. active \in Agents \cup {NoAgent} /\ (anchor' = anchor => AnchorKept)
  <2>1. \A a \in Agents : ~(anchor[a] < anchor[a])
    BY DEF AnchorInv
  <2> QED BY <2>1 DEF MoveInv, AnchorKept
<1>1. ASSUME NEW a \in Agents,
             StatusTurns(a) \/ CooldownPasses(a) \/ BeginRelocation(a) \/ PressCard(a)
      PROVE  UNCHANGED <<moved, anchor, answers, moves, moveAnswers, submitting>>
             /\ active' \in {active, a, NoAgent}
  BY <1>1 DEF StatusTurns, CooldownPasses, BeginRelocation, PressCard
<1>2. ASSUME NEW a \in Agents, CardIsHandled(a)
      PROVE  UNCHANGED <<moved, anchor, answers, moves, moveAnswers, submitting, active>>
  BY <1>2 DEF CardIsHandled, CardHandled
<1>3. ASSUME MiningUpdate \/ AgentsLost \/ EventApplied \/ FeedDrops \/ FeedReturns \/ CardAnswered
             \/ UNCHANGED agentFeedVars
      PROVE  UNCHANGED <<moved, anchor, answers, moves, moveAnswers, submitting, active>>
  BY <1>3 DEF MiningUpdate, AgentsLost, EventApplied, FeedDrops, FeedReturns, CardAnswered,
              agentFeedVars
<1>4. ASSUME UNCHANGED <<moved, anchor, answers, moves, moveAnswers, submitting>>,
             active' \in Agents \cup {NoAgent}
      PROVE  MoveInv' /\ AnchorInv' /\ AnchorKept
  BY <1>4, MoveStands, AnchorStands
<1>5. CASE AgentsRead
  <2>1. /\ answers' = answers \cup {[status |-> status, moved |-> moved]}
        /\ UNCHANGED <<moved, anchor, moves, moveAnswers, submitting, active>>
    BY <1>5 DEF AgentsRead
  <2> QED BY <1>0, <2>1, MoveStands DEF AnchorInv
<1>6. CASE AgentsLoaded
  BY <1>0, <1>6, MoveStands, AgentsLoadedLate DEF AgentsLoaded
<1>7. CASE Escape
  <2>1. ~submitting /\ submitting' = FALSE /\ active' = NoAgent /\ UNCHANGED <<moved, anchor, answers, moves, moveAnswers>>
    BY <1>7 DEF Escape, CancelRelocation
  <2> QED BY <2>1, AnchorStands DEF MoveInv, NoMove, MoveSent, MoveReplied
<1>8. CASE PickHex
  <2>1. /\ ~submitting /\ submitting' = TRUE /\ moves' = moves \cup {active}
        /\ UNCHANGED <<moved, anchor, answers, moveAnswers, active>> /\ active # NoAgent
    BY <1>8 DEF PickHex
  <2>2. active \in Agents
    BY <2>1 DEF MoveInv
  <2> QED BY <2>1, <2>2, AnchorStands DEF MoveInv, NoMove, MoveSent, MoveReplied
<1>9. ASSUME NEW a \in Agents, MoveIsHandled(a)
      PROVE  MoveInv' /\ AnchorInv' /\ AnchorKept
  <2>1. \E ok, heard \in BOOLEAN : MoveHandled(a, ok, heard)
    BY <1>9 DEF MoveIsHandled
  <2>2. MoveInv' /\ AnchorInv' /\ anchor' = anchor
    BY <2>1, MoveHandledOnce
  <2> QED BY <1>0, <2>2
<1>10. CASE MoveAnswered
  BY <1>10, MoveAnsweredOnce
<1> QED BY <1>0, <1>1, <1>2, <1>3, <1>4, <1>5, <1>6, <1>7, <1>8, <1>9, <1>10 DEF AgentFeedNext

LEMMA FeedStart == ASSUME AgentFeedInit PROVE MoveInv /\ AnchorInv
<1>1. \A a \in Agents : anchor[a] <= MovedAt(moved[a]) + 0
  BY DEF AgentFeedInit, MovedAt
<1> QED BY <1>1 DEF AgentFeedInit, MoveInv, NoMove, AnchorInv

LEMMA MovesAreOne == ASSUME MoveInv PROVE OneMoveAtATime
<1>1. Cardinality({}) = 0 /\ \A x : Cardinality({x}) = 1
  BY FS_EmptySet, FS_Singleton
<1>2. CASE NoMove
  BY <1>1, <1>2 DEF NoMove, OneMoveAtATime
<1>3. CASE MoveSent
  <2>1. PICK a : moves = {a}
    BY <1>3 DEF MoveSent
  <2>2. Cardinality(moves) = 1 /\ Cardinality(moveAnswers) = 0 /\ moves \cup moveAnswers # {}
    BY <1>1, <1>3, <2>1 DEF MoveSent
  <2> QED BY <1>3, <2>2 DEF MoveSent, OneMoveAtATime
<1>4. CASE MoveReplied
  <2>1. PICK x : moveAnswers = {x}
    BY <1>4 DEF MoveReplied
  <2>2. Cardinality(moves) = 0 /\ Cardinality(moveAnswers) = 1 /\ moves \cup moveAnswers # {}
    BY <1>1, <1>4, <2>1 DEF MoveReplied
  <2> QED BY <1>4, <2>2 DEF MoveReplied, OneMoveAtATime
<1> QED BY <1>2, <1>3, <1>4 DEF MoveInv

\* One relocation is under way at a time, whichever agents MOVE is pressed for.
THEOREM MovesStayOne == AgentFeedSpec => []OneMoveAtATime
<1>1. (MoveInv /\ AnchorInv) /\ [AgentFeedNext]_agentFeedVars => (MoveInv /\ AnchorInv)'
  BY FeedStep
<1> QED BY <1>1, FeedStart, MovesAreOne, PTL DEF AgentFeedSpec

\* No list, however late, brings an older cooldown back; the answer to the page's own move
\* may, by no more than the browser's clock is wrong: for any errors of that clock.
THEOREM AnchorOnlyGrows == AgentFeedSpec => AnchorNeverGoesBack
<1>1. (MoveInv /\ AnchorInv) /\ [AgentFeedNext]_agentFeedVars => (MoveInv /\ AnchorInv)'
  BY FeedStep
<1>2. MoveInv /\ AnchorInv /\ [AgentFeedNext]_agentFeedVars
        => [AnchorKept]_agentFeedVars
  BY FeedStep
<1> QED BY <1>1, <1>2, FeedStart, PTL DEF AgentFeedSpec, AnchorNeverGoesBack

-----------------------------------------------------------------------------
(* TxFlow. *)

Stages   == {"none", "requesting", "signing", "sending", "polling", "caught", "server", "done"}
Outcomes == {"none", "failed", "expired", "unconfirmed", "done"}

TxTypes ==
  /\ stage \in [Flows -> Stages] /\ outcome \in [Flows -> Outcomes]
  /\ try \in [Flows -> Tries] /\ late \in [Flows -> BOOLEAN]
  /\ onWay \in [Flows -> SUBSET Tries] /\ took \in [Flows -> SUBSET Tries]

\* Nothing of an expired blockhash is on its way, and a claim was paid, once, before the
\* server is told.
TxInv ==
  /\ TxTypes
  /\ \A f \in Flows :
       /\ late[f] => onWay[f] = {}
       /\ outcome[f] = "expired" => late[f]
       /\ kind = "claim" => /\ stage[f] = "server" \/ outcome[f] = "done" => took[f] # {}
                            /\ took[f] = {} \/ \E n : took[f] = {n}

LEMMA TxStands ==
  ASSUME TxInv, UNCHANGED <<kind, stage, try, outcome, onWay, took, late>> PROVE TxInv'
  BY DEF TxInv, TxTypes

\* A flow goes on, or ends as the chain says; the chain does not move.
LEMMA FlowGoes ==
  ASSUME TxInv, UNCHANGED <<kind, onWay, took, late>>, NEW f \in Flows, NEW s \in Stages,
         stage' = [stage EXCEPT ![f] = s], NEW how \in Outcomes,
         outcome' = outcome \/ outcome' = [outcome EXCEPT ![f] = how],
         try' = try \/ \E n \in Tries : try' = [try EXCEPT ![f] = n],
         how = "expired" => late[f],
         kind = "claim" /\ (s = "server" \/ how = "done") => took[f] # {}
  PROVE  TxInv'
<1>1. TxTypes'
  BY DEF TxInv, TxTypes
<1>2. ASSUME NEW g \in Flows
      PROVE  /\ outcome'[g] = "expired" => late[g]
             /\ kind = "claim" /\ (stage'[g] = "server" \/ outcome'[g] = "done") => took[g] # {}
  <2>1. CASE g = f
    BY <2>1 DEF TxInv, TxTypes
  <2>2. CASE g # f
    BY <2>2 DEF TxInv, TxTypes
  <2> QED BY <2>1, <2>2
<1> QED BY <1>1, <1>2 DEF TxInv

LEMMA FlowBegins == ASSUME TxInv, NEW f \in Flows, PressDeploy(f) \/ PressClaim(f) PROVE TxInv'
<1>1. /\ stage' = [stage EXCEPT ![f] = "requesting"]
      /\ UNCHANGED <<kind, try, outcome, onWay, took, late>>
  BY DEF PressDeploy, PressClaim, Starts, Goes, chain
<1> QED BY <1>1, FlowGoes DEF Stages, Outcomes

LEMMA TriesAre == 0 \in Tries
  BY TxFlowAssumption DEF Tries

LEMMA FlowRequested ==
  ASSUME TxInv, NEW f \in Flows, NEW ok \in BOOLEAN, DeployRequested(f, ok) \/ ClaimBuilt(f, ok)
  PROVE  TxInv'
<1>1. UNCHANGED <<kind, onWay, took, late>>
  BY DEF DeployRequested, ClaimBuilt, chain
<1>2. CASE DeployRequested(f, ok)
  <2>1. kind # "claim"
    BY <1>2 DEF DeployRequested
  <2>2. CASE stage' = [stage EXCEPT ![f] = "server"] /\ UNCHANGED <<try, outcome>>
    BY <1>1, <2>1, <2>2, FlowGoes DEF Stages, Outcomes
  <2>3. CASE stage' = [stage EXCEPT ![f] = "signing"] /\ try' = [try EXCEPT ![f] = 0] /\ UNCHANGED outcome
    BY <1>1, <2>1, <2>3, FlowGoes, TriesAre DEF Stages, Outcomes
  <2>4. CASE stage' = [stage EXCEPT ![f] = "done"] /\ outcome' = [outcome EXCEPT ![f] = "failed"]
             /\ UNCHANGED try
    BY <1>1, <2>1, <2>4, FlowGoes DEF Stages, Outcomes
  <2> QED BY <1>2, <2>2, <2>3, <2>4 DEF DeployRequested, Goes, Ends, StartsTry
<1>3. CASE ClaimBuilt(f, ok)
  <2>1. CASE stage' = [stage EXCEPT ![f] = "signing"] /\ try' = [try EXCEPT ![f] = 0] /\ UNCHANGED outcome
    BY <1>1, <2>1, FlowGoes, TriesAre DEF Stages, Outcomes
  <2>2. CASE stage' = [stage EXCEPT ![f] = "done"] /\ outcome' = [outcome EXCEPT ![f] = "failed"]
             /\ UNCHANGED try
    BY <1>1, <2>2, FlowGoes DEF Stages, Outcomes
  <2> QED BY <1>3, <2>1, <2>2 DEF ClaimBuilt, Goes, Breaks, Ends, StartsTry
<1> QED BY <1>2, <1>3

LEMMA FlowSigned ==
  ASSUME TxInv, NEW f \in Flows, NEW agrees \in BOOLEAN, Signed(f, agrees) PROVE TxInv'
<1>1. UNCHANGED <<kind, try, onWay, took, late>>
  BY DEF Signed, chain
<1>2. CASE stage' = [stage EXCEPT ![f] = "done"] /\ outcome' = [outcome EXCEPT ![f] = "failed"]
  BY <1>1, <1>2, FlowGoes DEF Stages, Outcomes
<1>3. CASE UNCHANGED outcome /\ \E s \in {"sending", "caught"} : stage' = [stage EXCEPT ![f] = s]
  BY <1>1, <1>3, FlowGoes DEF Stages, Outcomes
<1> QED BY <1>2, <1>3 DEF Signed, Breaks, Ends, Goes

LEMMA FlowSubmitted ==
  ASSUME TxInv, NEW f \in Flows, NEW taken \in BOOLEAN, NEW answered \in BOOLEAN,
         Submitted(f, taken, answered)
  PROVE  TxInv'
<1>1. /\ UNCHANGED <<kind, try, outcome, took, late>> /\ (taken => ~late[f])
      /\ onWay' = IF taken THEN [onWay EXCEPT ![f] = @ \cup {try[f]}] ELSE onWay
  BY DEF Submitted
<1>2. PICK s \in {"polling", "caught"} : stage' = [stage EXCEPT ![f] = s]
  BY DEF Submitted, Goes
<1>3. TxTypes'
  BY <1>1, <1>2 DEF TxInv, TxTypes, Stages
<1>4. \A g \in Flows : /\ late[g] => onWay'[g] = {}
                       /\ stage'[g] = "server" => stage[g] = "server"
  BY <1>1, <1>2 DEF TxInv, TxTypes
<1> QED BY <1>1, <1>3, <1>4 DEF TxInv

LEMMA FlowLands == ASSUME TxInv, NEW f \in Flows, Lands(f) PROVE TxInv'
<1>1. PICK n \in onWay[f] :
        /\ ~late[f] /\ UNCHANGED <<kind, stage, try, outcome, late>>
        /\ onWay' = [onWay EXCEPT ![f] = @ \ {n}]
        /\ took' = took \/ (Pays(f) /\ took' = [took EXCEPT ![f] = @ \cup {n}])
  BY DEF Lands
<1>2. n \in Tries
  BY DEF TxInv, TxTypes
<1>3. TxTypes'
  BY <1>1, <1>2 DEF TxInv, TxTypes
<1>4. ASSUME NEW g \in Flows
      PROVE  /\ late[g] => onWay'[g] = {}
             /\ took[g] \subseteq took'[g]
             /\ kind = "claim" => took'[g] = {} \/ \E m : took'[g] = {m}
  <2>1. CASE g = f
    <3>1. late[g] => onWay'[g] = {}
      BY <1>1, <2>1
    <3>2. CASE took' = took
      BY <3>1, <3>2 DEF TxInv
    <3>3. CASE Pays(f) /\ took' = [took EXCEPT ![f] = @ \cup {n}]
      <4>1. took'[g] = took[g] \cup {n}
        BY <2>1, <3>3 DEF TxInv, TxTypes
      <4>2. kind = "claim" => took'[g] = {n}
        BY <2>1, <3>3, <4>1 DEF Pays
      <4> QED BY <3>1, <4>1, <4>2
    <3> QED BY <1>1, <3>2, <3>3
  <2>2. CASE g # f
    BY <1>1, <2>2 DEF TxInv, TxTypes
  <2> QED BY <2>1, <2>2
<1> QED BY <1>1, <1>3, <1>4 DEF TxInv

LEMMA FlowAnswered ==
  ASSUME TxInv, NEW f \in Flows, NEW ok \in BOOLEAN,
         Polled(f, ok) \/ Recovers(f, ok) \/ ClaimConfirmed(f, ok) \/ DeployConfirmed(f, ok)
  PROVE  TxInv'
<1>1. UNCHANGED <<kind, onWay, took, late>>
  BY DEF Polled, Recovers, ClaimConfirmed, DeployConfirmed, chain
<1>2. CASE Polled(f, ok)
  <2>1. UNCHANGED <<try, outcome>>
    BY <1>2 DEF Polled
  <2>2. CASE stage' = [stage EXCEPT ![f] = "caught"]
    BY <1>1, <2>1, <2>2, FlowGoes DEF Stages, Outcomes
  <2>3. CASE stage' = [stage EXCEPT ![f] = "server"] /\ try[f] \in took[f]
    BY <1>1, <2>1, <2>3, FlowGoes DEF Stages, Outcomes
  <2> QED BY <1>2, <2>2, <2>3 DEF Polled, Goes
<1>3. CASE Recovers(f, ok)
  <2>1. CASE /\ stage' = [stage EXCEPT ![f] = "done"] /\ UNCHANGED try
             /\ outcome' = [outcome EXCEPT ![f] = GivesUp(f, ok)]
    <3>1. GivesUp(f, ok) \in {"expired", "failed"} /\ (GivesUp(f, ok) = "expired" => late[f])
      BY DEF GivesUp
    <3> QED BY <1>1, <2>1, <3>1, FlowGoes DEF Stages, Outcomes
  <2>2. CASE /\ stage' = [stage EXCEPT ![f] = "signing"] /\ UNCHANGED outcome
             /\ try' = [try EXCEPT ![f] = try[f] + 1] /\ try[f] # MAX_RETRIES - 1
    <3>1. try[f] + 1 \in Tries
      BY <2>2, TxFlowAssumption DEF TxInv, TxTypes, Tries
    <3> QED BY <1>1, <2>2, <3>1, FlowGoes DEF Stages, Outcomes
  <2> QED BY <1>3, <2>1, <2>2 DEF Recovers, Breaks, Ends, Goes, StartsTry
<1>4. CASE ClaimConfirmed(f, ok)
  <2>1. stage[f] = "server" /\ kind = "claim" /\ UNCHANGED try
    BY <1>4 DEF ClaimConfirmed
  <2>2. took[f] # {}
    BY <2>1 DEF TxInv
  <2>3. CASE stage' = [stage EXCEPT ![f] = "done"] /\ outcome' = [outcome EXCEPT ![f] = "done"]
    BY <1>1, <2>1, <2>2, <2>3, FlowGoes DEF Stages, Outcomes
  <2>4. CASE stage' = [stage EXCEPT ![f] = "caught"] /\ UNCHANGED outcome
    BY <1>1, <2>1, <2>4, FlowGoes DEF Stages, Outcomes
  <2> QED BY <1>4, <2>3, <2>4 DEF ClaimConfirmed, Goes, Ends
<1>5. CASE DeployConfirmed(f, ok)
  <2>1. /\ kind # "claim" /\ UNCHANGED try
        /\ \E how \in {"done", "unconfirmed"} :
             stage' = [stage EXCEPT ![f] = "done"] /\ outcome' = [outcome EXCEPT ![f] = how]
    BY <1>5 DEF DeployConfirmed, Goes, Ends
  <2> QED BY <1>1, <2>1, FlowGoes DEF Stages, Outcomes
<1> QED BY <1>2, <1>3, <1>4, <1>5

LEMMA TxStep == ASSUME TxInv, [TxFlowNext]_txFlowVars PROVE TxInv'
<1>1. ASSUME NEW f \in Flows, HeightPasses(f) PROVE TxInv'
  <2>1. /\ UNCHANGED <<kind, stage, try, outcome, took>>
        /\ late' = [late EXCEPT ![f] = TRUE] /\ onWay' = [onWay EXCEPT ![f] = {}]
    BY <1>1 DEF HeightPasses
  <2>2. TxTypes'
    BY <2>1 DEF TxInv, TxTypes
  <2>3. \A g \in Flows : (late'[g] => onWay'[g] = {}) /\ (late[g] => late'[g])
    BY <2>1 DEF TxInv, TxTypes
  <2> QED BY <2>1, <2>2, <2>3 DEF TxInv
<1>2. ASSUME NEW f \in Flows, TxAnswer(f) PROVE TxInv'
  BY <1>2, FlowRequested, FlowAnswered, FlowSubmitted DEF TxAnswer
<1>3. CASE Render \/ CloseToast \/ UNCHANGED txFlowVars
  BY <1>3, TxStands DEF Render, CloseToast, txFlowVars, chain
<1> QED BY <1>1, <1>2, <1>3, FlowBegins, FlowSigned, FlowLands DEF TxFlowNext

LEMMA TxStart == ASSUME TxFlowInit PROVE TxInv
<1>1. TxTypes
  BY TriesAre DEF TxFlowInit, TxTypes, Stages, Outcomes
<1> QED BY <1>1 DEF TxFlowInit, TxInv

\* What the page calls expired cannot be paid later, whatever is lost on the way.
THEOREM ExpiredStaysOver == TxFlowSpec => []ExpiredIsOver
<1>1. TxInv => ExpiredIsOver
  BY DEF TxInv, ExpiredIsOver
<1> QED BY <1>1, TxStart, TxStep, PTL DEF TxFlowSpec

\* A claim pays once for any number of tries, and one that is called done was paid.
THEOREM ClaimsPayOnce == TxFlowSpec => []ClaimPaysOnce
<1>1. ASSUME TxInv PROVE ClaimPaysOnce
  <2>1. Cardinality({}) = 0 /\ \A n : Cardinality({n}) = 1
    BY FS_EmptySet, FS_Singleton
  <2>2. ASSUME NEW f \in Flows, kind = "claim"
        PROVE  Cardinality(took[f]) <= 1 /\ (outcome[f] = "done" => took[f] # {})
    <3>1. took[f] = {} \/ \E n : took[f] = {n}
      BY <1>1, <2>2 DEF TxInv
    <3>2. Cardinality(took[f]) = 0 \/ Cardinality(took[f]) = 1
      BY <2>1, <3>1
    <3>3. outcome[f] = "done" => took[f] # {}
      BY <1>1, <2>2 DEF TxInv
    <3> QED BY <3>2, <3>3
  <2> QED BY <2>2 DEF ClaimPaysOnce
<1> QED BY <1>1, TxStart, TxStep, PTL DEF TxFlowSpec

-----------------------------------------------------------------------------
(* WorldFeed. *)

RushStages == {"none", "open", "achieved"}

\* The news of a tick when `count' veins have been struck.
Events(count) == {<<>>} \cup {<<"spawned", v>> : v \in 1..count} \cup {<<"expired", h>> : h \in Nat}

TickMsg(count) ==
  [front : 0..MaxFronts, vein : Events(count), rush : 0..MaxRushes, stage : RushStages]

WorldAnswer == [front : 0..MaxFronts, vein : 0..struck, rush : 0..MaxRushes, stage : RushStages]

\* A vein that is not the active one is over, also by a browser's clock that is not behind,
\* and the browser knows of none but those struck.
VeinInv ==
  /\ struck \in 0..MaxVeins /\ vein \in {0, struck} /\ over \subseteq 1..struck
  /\ \A v \in 1..struck : v = vein \/ v \in over
  /\ slow \in BOOLEAN /\ missed \in BOOLEAN /\ overHere \in 0..struck
  /\ ~slow => \A v \in over : v <= overHere
  /\ cVeins \subseteq 1..struck
  /\ wire \in Seq(TickMsg(struck)) /\ Len(wire) <= MaxWire
  /\ load \in {"asked", "read", "done"}
  /\ answer = <<>> \/ answer \in {<<a>> : a \in WorldAnswer}
  /\ load = "read" => answer # <<>>
  /\ front \in 0..MaxFronts /\ cFront \in 0..MaxFronts
  /\ rush \in 0..MaxRushes /\ cRush \in 0..MaxRushes /\ rushStage \in RushStages /\ cStage \in RushStages
  /\ up \in BOOLEAN /\ ready \in BOOLEAN /\ prevAchieved \in BOOLEAN
  /\ mishaps \in 0..MaxDrops

LEMMA VeinStart == ASSUME WorldFeedInit PROVE VeinInv
<1>1. /\ 0 \in 0..MaxVeins /\ 0 \in 0..MaxFronts /\ 0 \in 0..MaxRushes /\ 0 \in 0..MaxDrops
      /\ 0 <= MaxWire
  BY WorldFeedAssumption
<1>2. rush \in 0..MaxRushes /\ rushStage \in RushStages
  BY DEF WorldFeedInit, RushStages
<1>3. wire \in Seq(TickMsg(struck)) /\ Len(wire) <= MaxWire
  BY <1>1 DEF WorldFeedInit
<1>4. /\ struck = 0 /\ vein = 0 /\ over = {} /\ cVeins = {} /\ load = "asked" /\ answer = <<>>
      /\ front = 0 /\ cFront = 0 /\ cRush = 0 /\ cStage = "none" /\ up = TRUE /\ ready = FALSE
      /\ prevAchieved = FALSE /\ mishaps = 0 /\ missed = FALSE /\ overHere = 0 /\ slow \in BOOLEAN
  BY DEF WorldFeedInit
<1>5. vein \in {0, struck} /\ overHere \in 0..struck /\ over \subseteq 1..struck /\ cVeins \subseteq 1..struck
  BY <1>4
<1>6. \A v \in 1..struck : v = vein \/ v \in over
  BY <1>4
<1>7. \A b \in {up, ready, prevAchieved, missed} : b \in BOOLEAN
  BY <1>4
<1>8. cStage \in RushStages /\ load \in {"asked", "read", "done"} /\ load # "read"
  BY <1>4 DEF RushStages
<1> QED BY <1>1, <1>2, <1>3, <1>4, <1>5, <1>6, <1>7, <1>8 DEF VeinInv

\* What was news stays news when another vein is struck.
LEMMA NewsStays ==
  ASSUME NEW j \in Nat, NEW k \in Nat, j <= k
  PROVE  Events(j) \subseteq Events(k) /\ TickMsg(j) \subseteq TickMsg(k)
<1>1. Events(j) \subseteq Events(k)
  BY DEF Events
<1> QED BY <1>1 DEF TickMsg

LEMMA MishapCounts == ASSUME VeinInv, Mishap PROVE mishaps' \in 0..MaxDrops
  BY WorldFeedAssumption DEF VeinInv, Mishap

LEMMA VeinTick == ASSUME VeinInv, Tick PROVE VeinInv'
<1> USE DEF VeinInv
<1>1. /\ UNCHANGED <<over, rush, rushStage, up, load, answer, cVeins, cFront, cRush, cStage, ready,
                     prevAchieved, slow, overHere, missed, mishaps>>
      /\ Len(wire) < MaxWire
  BY DEF Tick, feedStore, pageClock
<1>2. front' \in 0..MaxFronts
  BY WorldFeedAssumption DEF Tick
<1>3. PICK event : VeinStep(event) /\ Broadcast(event)
  BY DEF Tick
<1>n. struck \in Nat /\ MaxVeins \in Nat
  BY WorldFeedAssumption
<1>4. /\ struck' \in 0..MaxVeins /\ struck <= struck' /\ struck' \in Nat /\ vein' \in {0, struck'}
      /\ event \in Events(struck')
      /\ \A v \in 1..struck' : v = vein' \/ v \in over
  <2>1. CASE vein # 0 /\ vein \in over /\ vein' = 0 /\ struck' = struck
             /\ event = <<"expired", VeinHex[vein]>>
    <3>1. VeinHex[vein] \in Nat
      BY <1>n, <2>1, WorldFeedAssumption
    <3> QED BY <1>n, <2>1, <3>1 DEF Events
  <2>2. CASE vein = 0 /\ struck < MaxVeins /\ vein' = struck + 1 /\ struck' = struck + 1
             /\ event = <<"spawned", struck + 1>>
    <3>1. struck + 1 \in 1..struck + 1
      BY <1>n
    <3> QED BY <1>n, <2>2, <3>1 DEF Events
  <2>3. CASE UNCHANGED <<vein, struck>> /\ event = <<>>
    BY <1>n, <2>3 DEF Events
  <2> QED BY <1>3, <2>1, <2>2, <2>3 DEF VeinStep
<1>5. TickMsg(struck) \subseteq TickMsg(struck')
  BY <1>n, <1>4, NewsStays
<1>6. wire' \in Seq(TickMsg(struck')) /\ Len(wire') <= MaxWire
  <2> DEFINE msg == [front |-> front', vein |-> event, rush |-> rush, stage |-> rushStage]
  <2>1. msg \in TickMsg(struck')
    BY <1>2, <1>4 DEF TickMsg
  <2>2. wire \in Seq(TickMsg(struck'))
    BY <1>5
  <2>3. wire' = IF up THEN Append(wire, msg) ELSE wire
    BY <1>3 DEF Broadcast
  <2> HIDE DEF msg
  <2> QED BY <1>1, <2>1, <2>2, <2>3, WorldFeedAssumption
<1>7. answer' = <<>> \/ answer' \in {<<a>> : a \in WorldAnswer'}
  <2>1. WorldAnswer \subseteq WorldAnswer'
    BY <1>n, <1>4 DEF WorldAnswer
  <2> QED BY <1>1, <2>1
<1>8. cVeins' \subseteq 1..struck' /\ over' \subseteq 1..struck' /\ overHere' \in 0..struck'
  BY <1>n, <1>1, <1>4
<1> QED BY <1>1, <1>2, <1>4, <1>6, <1>7, <1>8

LEMMA HeadAndTail ==
  ASSUME NEW S, NEW q \in Seq(S), q # <<>>
  PROVE  /\ Head(q) \in S /\ Head(q) = q[1] /\ Tail(q) \in Seq(S) /\ Len(Tail(q)) = Len(q) - 1
         /\ Len(q) \in Nat \ {0}
         /\ \A n \in 1..Len(Tail(q)) : n + 1 \in 1..Len(q) /\ Tail(q)[n] = q[n + 1]
  OBVIOUS

LEMMA VeinStepKept == ASSUME VeinInv, [WorldFeedNext]_worldFeedVars PROVE VeinInv'
<1> USE DEF VeinInv, feedServer, feedStore, pageClock
<1>n. struck \in Nat /\ MaxRushes \in Nat
  BY WorldFeedAssumption
<1>0. UNCHANGED struck => (WorldAnswer' = WorldAnswer /\ TickMsg(struck)' = TickMsg(struck))
  BY DEF WorldAnswer, TickMsg, Events
<1>1. CASE VeinTimesOut
  <2>1. /\ over' = over \cup {vein} /\ vein \in 1..struck
        /\ overHere' = IF slow THEN overHere ELSE vein
    BY <1>n, <1>1 DEF VeinTimesOut
  <2>2. overHere' \in 0..struck /\ (~slow => \A v \in over' : v <= overHere')
    BY <1>n, <1>1, <2>1 DEF VeinTimesOut
  <2> QED BY <1>0, <1>1, <2>1, <2>2 DEF VeinTimesOut
<1>2. CASE RushTurns
  <2>1. rush' \in 0..MaxRushes /\ rushStage' \in RushStages
    BY <1>n, <1>2 DEF RushTurns, RushStages
  <2> QED BY <1>0, <1>2, <2>1 DEF RushTurns
<1>3. CASE Tick
  BY <1>3, VeinTick
<1>4. CASE WorldRead
  <2>1. [front |-> front, vein |-> vein, rush |-> rush, stage |-> rushStage] \in WorldAnswer
    BY <1>n DEF WorldAnswer
  <2>2. answer' \in {<<a>> : a \in WorldAnswer} /\ answer' # <<>>
    BY <1>4, <2>1 DEF WorldRead
  <2> QED BY <1>0, <1>4, <2>2 DEF WorldRead
<1>5. CASE WorldApplied
  <2>1. PICK a \in WorldAnswer : answer = <<a>>
    BY <1>5 DEF WorldApplied
  <2>2. answer[1] = a
    BY <2>1
  <2>3. /\ cFront' = a.front /\ cVeins' = {a.vein} \ {0} /\ cStage' = a.stage
        /\ cRush' = IF a.stage = "none" THEN 0 ELSE a.rush
        /\ missed' = (missed \/ a.vein \notin {0, vein})
        /\ UNCHANGED <<feedServer, wire, up, prevAchieved, pageClock, mishaps>>
        /\ load' = "done" /\ answer' = <<>> /\ ready' = TRUE
    BY <1>5, <2>2 DEF WorldApplied
  <2>4. /\ a.front \in 0..MaxFronts /\ a.vein \in 0..struck /\ a.stage \in RushStages
        /\ a.rush \in 0..MaxRushes
    BY DEF WorldAnswer
  <2>5. cVeins' \subseteq 1..struck /\ cRush' \in 0..MaxRushes
    BY <1>n, <2>3, <2>4
  <2> QED BY <1>0, <2>3, <2>4, <2>5
<1>6. CASE WorldLost
  BY <1>0, <1>6, MishapCounts DEF WorldLost
<1>7. CASE TickDelivered
  <2> DEFINE msg == Head(wire)
  <2>1. msg \in TickMsg(struck) /\ wire' \in Seq(TickMsg(struck)) /\ Len(wire') <= MaxWire
    BY <1>7, HeadAndTail, WorldFeedAssumption DEF TickDelivered
  <2>2. /\ msg.front \in 0..MaxFronts /\ msg.vein \in Events(struck) /\ msg.rush \in 0..MaxRushes
        /\ msg.stage \in RushStages
    BY <2>1 DEF TickMsg
  <2>3. cFront' = msg.front /\ cVeins' = VeinApplied(msg.vein) /\ RushApplied(msg)
        /\ UNCHANGED <<feedServer, up, load, answer, pageClock, missed, mishaps>> /\ ready' = TRUE
    BY <1>7 DEF TickDelivered, FrontsApplied
  <2> HIDE DEF msg
  <2>4. cVeins' \subseteq 1..struck
    <3>1. CASE msg.vein = <<>>
      BY <2>3, <3>1 DEF VeinApplied
    <3>2. ASSUME NEW v \in 1..struck, msg.vein = <<"spawned", v>> PROVE cVeins' \subseteq 1..struck
      <4>1. msg.vein # <<>> /\ msg.vein[1] = "spawned" /\ msg.vein[2] = v
        BY <3>2
      <4>2. cVeins' = {u \in cVeins : VeinHex[u] # VeinHex[v]} \cup {v}
        BY <2>3, <4>1 DEF VeinApplied
      <4> QED BY <4>2
    <3>3. ASSUME NEW h \in Nat, msg.vein = <<"expired", h>> PROVE cVeins' \subseteq 1..struck
      <4>1. msg.vein # <<>> /\ msg.vein[1] # "spawned" /\ msg.vein[2] = h
        BY <3>3
      <4>2. cVeins' = {u \in cVeins : VeinHex[u] # h}
        BY <2>3, <4>1 DEF VeinApplied
      <4> QED BY <4>2
    <3> QED BY <2>2, <3>1, <3>2, <3>3 DEF Events
  <2>5. cRush' \in 0..MaxRushes /\ cStage' \in RushStages /\ prevAchieved' \in BOOLEAN
    BY <2>2, <2>3 DEF RushApplied
  <2> QED BY <1>0, <2>1, <2>2, <2>3, <2>4, <2>5
<1>8. CASE LineDrops
  <2>1. wire' \in Seq(TickMsg(struck)) /\ Len(wire') <= MaxWire
    BY <1>8, WorldFeedAssumption DEF LineDrops
  <2> QED BY <1>0, <1>8, <2>1, MishapCounts DEF LineDrops
<1>9. CASE LineReturns
  BY <1>0, <1>9 DEF LineReturns
<1>10. CASE UNCHANGED worldFeedVars
  BY <1>0, <1>10 DEF worldFeedVars
<1>11. CASE VeinTimesOutHere
  <2>1. overHere < struck /\ overHere' = overHere + 1
    BY <1>11 DEF VeinTimesOutHere
  <2>2. overHere' \in 0..struck /\ overHere < overHere'
    BY <1>n, <2>1
  <2>3. ~slow => \A v \in over : v <= overHere'
    BY <1>n, <2>2
  <2> QED BY <1>0, <1>11, <2>2, <2>3 DEF VeinTimesOutHere
<1> QED BY <1>1, <1>2, <1>3, <1>4, <1>5, <1>6, <1>7, <1>8, <1>9, <1>10, <1>11 DEF WorldFeedNext

Spawned(n, v) == wire[n].vein = <<"spawned", v>>
Expired(n, v) == wire[n].vein = <<"expired", VeinHex[v]>>

\* To a page that missed nothing the end of every dead vein it knows, or will be told of, is
\* on its way.
NewsInv ==
  ~missed =>
    /\ up
    /\ \A v \in cVeins \ {vein} : \E n \in 1..Len(wire) : Expired(n, v)
    /\ \A n \in 1..Len(wire), v \in 1..MaxVeins :
         Spawned(n, v) /\ v # vein => \E k \in n + 1..Len(wire) : Expired(k, v)

LEMMA NewsStart == ASSUME WorldFeedInit PROVE NewsInv
<1>1. up /\ cVeins = {} /\ Len(wire) = 0
  BY DEF WorldFeedInit
<1> QED BY <1>1 DEF NewsInv

\* The tick that ends a vein says so.
LEMMA NewsTick == ASSUME VeinInv, NewsInv, Tick, ~missed PROVE NewsInv'
<1>1. UNCHANGED <<cVeins, up, missed>> /\ up
  BY DEF Tick, feedStore, NewsInv
<1>2. PICK event : VeinStep(event) /\ Broadcast(event)
  BY DEF Tick
<1> DEFINE msg == [front |-> front', vein |-> event, rush |-> rush, stage |-> rushStage]
<1>3. PICK L \in Nat : L = Len(wire)
  BY DEF VeinInv
<1>4. wire' = Append(wire, msg) /\ wire \in Seq(TickMsg(struck)) /\ msg.vein = event
  BY <1>1, <1>2 DEF Broadcast, VeinInv
<1> HIDE DEF msg
<1>5. Len(wire') = L + 1 /\ wire'[L + 1].vein = event /\ \A n \in 1..L : wire'[n] = wire[n]
  BY <1>3, <1>4
<1>6. struck \in Nat /\ struck <= MaxVeins /\ MaxVeins \in Nat /\ cVeins \subseteq 1..struck
  BY WorldFeedAssumption DEF VeinInv
<1>7. ASSUME NEW v \in 1..MaxVeins, v = vein, v # vein' PROVE event = <<"expired", VeinHex[v]>>
  BY <1>2, <1>6, <1>7 DEF VeinStep
<1>8. ASSUME NEW v \in cVeins, v # vein'
      PROVE  \E n \in 1..L + 1 : wire'[n].vein = <<"expired", VeinHex[v]>>
  <2>1. CASE v # vein
    <3>1. PICK n \in 1..L : wire[n].vein = <<"expired", VeinHex[v]>>
      BY <1>3, <2>1 DEF NewsInv, Expired
    <3> QED BY <1>3, <1>5, <3>1
  <2>2. CASE v = vein
    BY <1>3, <1>5, <1>6, <1>7, <1>8, <2>2
  <2> QED BY <2>1, <2>2
<1>9. ASSUME NEW n \in 1..L + 1, NEW v \in 1..MaxVeins, wire'[n].vein = <<"spawned", v>>, v # vein'
      PROVE  \E k \in n + 1..L + 1 : wire'[k].vein = <<"expired", VeinHex[v]>>
  <2>1. n # L + 1
    <3>1. event = <<"spawned", v>> => v = vein'
      <4>1. "spawned" # "expired" /\ <<"spawned", v>> # <<>>
        OBVIOUS
      <4> QED BY <1>2, <4>1 DEF VeinStep
    <3> QED BY <1>5, <1>9, <3>1
  <2>2. n \in 1..L /\ wire[n].vein = <<"spawned", v>>
    BY <1>3, <1>5, <1>9, <2>1
  <2>3. CASE v # vein
    <3>1. PICK k \in n + 1..L : wire[k].vein = <<"expired", VeinHex[v]>>
      BY <1>3, <2>2, <2>3 DEF NewsInv, Expired, Spawned
    <3> QED BY <1>3, <1>5, <2>2, <3>1
  <2>4. CASE v = vein
    <3>1. L + 1 \in n + 1..L + 1
      BY <1>3, <2>2
    <3> QED BY <1>5, <1>7, <1>9, <2>4, <3>1
  <2> QED BY <2>3, <2>4
<1> QED BY <1>1, <1>5, <1>8, <1>9 DEF NewsInv, Expired, Spawned

\* What the page is told of a vein, it forgets with the news of its end.
LEMMA NewsDelivered == ASSUME VeinInv, NewsInv, TickDelivered, ~missed PROVE NewsInv'
<1> DEFINE event == Head(wire).vein
<1>1. /\ UNCHANGED <<vein, struck, up, missed>> /\ up /\ wire # <<>> /\ wire' = Tail(wire)
      /\ wire \in Seq(TickMsg(struck)) /\ cVeins' = VeinApplied(event)
  BY DEF TickDelivered, feedServer, NewsInv, VeinInv
<1>2. PICK L \in Nat \ {0} : L = Len(wire)
  BY <1>1, HeadAndTail
<1>3. /\ event = wire[1].vein /\ Head(wire) \in TickMsg(struck) /\ Len(wire') = L - 1
      /\ \A n \in 1..L - 1 : wire'[n] = wire[n + 1]
  BY <1>1, <1>2, HeadAndTail
<1>4. event \in Events(struck) /\ struck \in Nat /\ struck <= MaxVeins /\ cVeins \subseteq 1..struck
  BY <1>3, WorldFeedAssumption DEF TickMsg, VeinInv
<1> HIDE DEF event
<1>5. ASSUME NEW n \in 2..L, NEW v, wire[n].vein = <<"expired", VeinHex[v]>>
      PROVE  n - 1 \in 1..L - 1 /\ wire'[n - 1].vein = <<"expired", VeinHex[v]>>
  BY <1>2, <1>3, <1>5
<1>6. ASSUME NEW v \in cVeins, v # vein, event # <<"expired", VeinHex[v]>>
      PROVE  \E n \in 1..L - 1 : wire'[n].vein = <<"expired", VeinHex[v]>>
  <2>1. PICK n \in 1..L : wire[n].vein = <<"expired", VeinHex[v]>>
    BY <1>2, <1>6 DEF NewsInv, Expired
  <2>2. n \in 2..L
    BY <1>2, <1>3, <1>6, <2>1
  <2> QED BY <1>5, <2>1, <2>2
<1>7. ASSUME NEW v \in cVeins', v # vein
      PROVE  \E n \in 1..L - 1 : wire'[n].vein = <<"expired", VeinHex[v]>>
  <2>1. CASE event = <<>>
    <3>1. v \in cVeins /\ event # <<"expired", VeinHex[v]>>
      BY <1>1, <1>7, <2>1 DEF VeinApplied
    <3> QED BY <1>6, <1>7, <3>1
  <2>2. ASSUME NEW w \in 1..struck, event = <<"spawned", w>>
        PROVE  \E n \in 1..L - 1 : wire'[n].vein = <<"expired", VeinHex[v]>>
    <3>1. event # <<>> /\ event[1] = "spawned" /\ event[2] = w
      BY <2>2
    <3>2. v = w \/ (v \in cVeins /\ event # <<"expired", VeinHex[v]>>)
      BY <1>1, <1>7, <2>2, <3>1 DEF VeinApplied
    <3>3. CASE v = w
      <4>1. 1 \in 1..Len(wire) /\ w \in 1..MaxVeins /\ wire[1].vein = <<"spawned", w>>
        BY <1>2, <1>3, <1>4, <2>2, WorldFeedAssumption
      <4>2. PICK k \in 1 + 1..L : wire[k].vein = <<"expired", VeinHex[w]>>
        BY <1>2, <1>7, <3>3, <4>1 DEF NewsInv, Spawned, Expired
      <4>3. k \in 2..L
        BY <4>2
      <4> QED BY <1>5, <3>3, <4>2, <4>3
    <3> QED BY <1>6, <1>7, <3>2, <3>3
  <2>3. ASSUME NEW h \in Nat, event = <<"expired", h>>
        PROVE  \E n \in 1..L - 1 : wire'[n].vein = <<"expired", VeinHex[v]>>
    <3>1. event # <<>> /\ event[1] # "spawned" /\ event[2] = h
      BY <2>3
    <3>2. v \in cVeins /\ VeinHex[v] # h
      BY <1>1, <1>7, <3>1 DEF VeinApplied
    <3>3. event # <<"expired", VeinHex[v]>>
      <4>1. <<"expired", VeinHex[v]>>[2] = VeinHex[v]
        OBVIOUS
      <4> QED BY <3>1, <3>2, <4>1
    <3> QED BY <1>6, <1>7, <3>2, <3>3
  <2> QED BY <1>4, <2>1, <2>2, <2>3 DEF Events
<1>8. ASSUME NEW n \in 1..L - 1, NEW v \in 1..MaxVeins, wire'[n].vein = <<"spawned", v>>, v # vein
      PROVE  \E k \in n + 1..L - 1 : wire'[k].vein = <<"expired", VeinHex[v]>>
  <2>1. n + 1 \in 1..L /\ wire[n + 1].vein = <<"spawned", v>>
    BY <1>2, <1>3, <1>8
  <2>2. PICK k \in (n + 1) + 1..L : wire[k].vein = <<"expired", VeinHex[v]>>
    BY <1>2, <1>8, <2>1 DEF NewsInv, Spawned, Expired
  <2>3. k \in 2..L /\ k - 1 \in n + 1..L - 1
    BY <1>2, <1>8, <2>2
  <2> QED BY <1>5, <2>2, <2>3
<1>9. up' /\ Len(wire') = L - 1 /\ vein' = vein
  BY <1>1, <1>3
<1> QED BY <1>7, <1>8, <1>9 DEF NewsInv, Spawned, Expired

LEMMA NewsStep ==
  ASSUME VeinInv, NewsInv, [WorldFeedNext]_worldFeedVars PROVE NewsInv'
<1> USE DEF feedServer, feedStore, pageClock
<1>1. ASSUME UNCHANGED <<cVeins, vein, wire, up, missed>> PROVE NewsInv'
  BY <1>1 DEF NewsInv, Spawned, Expired
<1>2. CASE VeinTimesOut \/ RushTurns \/ WorldRead \/ VeinTimesOutHere \/ WorldLost
           \/ UNCHANGED worldFeedVars
  BY <1>1, <1>2 DEF VeinTimesOut, RushTurns, WorldRead, VeinTimesOutHere, WorldLost, worldFeedVars
<1>3. CASE LineReturns
  <2>1. UNCHANGED <<cVeins, vein, wire, missed>> /\ up'
    BY <1>3 DEF LineReturns
  <2> QED BY <2>1 DEF NewsInv, Spawned, Expired
<1>4. CASE LineDrops
  BY <1>4 DEF LineDrops, NewsInv
<1>5. CASE WorldApplied
  <2>1. /\ cVeins' = {answer[1].vein} \ {0} /\ missed' = (missed \/ answer[1].vein \notin {0, vein})
        /\ UNCHANGED <<vein, wire, up>>
    BY <1>5 DEF WorldApplied
  <2> QED BY <2>1 DEF NewsInv, Spawned, Expired
<1>6. CASE missed /\ missed'
  BY <1>6 DEF NewsInv
<1>7. CASE Tick
  <2>1. missed' = missed
    BY <1>7 DEF Tick
  <2> QED BY <1>6, <1>7, <2>1, NewsTick DEF NewsInv
<1>8. CASE TickDelivered
  <2>1. missed' = missed
    BY <1>8 DEF TickDelivered
  <2> QED BY <1>6, <1>8, <2>1, NewsDelivered DEF NewsInv
<1> QED BY <1>2, <1>3, <1>4, <1>5, <1>7, <1>8 DEF WorldFeedNext

\* A dead vein on the page is one that a clock behind the server's still lists.
LEMMA DeadIsKnown == ASSUME VeinInv, NewsInv PROVE ListedVeinPays
<1> SUFFICES ASSUME NEW v \in Listed, v # vein
             PROVE  slow /\ (missed \/ \E n \in DOMAIN wire : wire[n].vein = <<"expired", VeinHex[v]>>)
  BY DEF ListedVeinPays
<1>1. v \in cVeins /\ v > overHere /\ v \in 1..struck /\ v \in over
  BY DEF Listed, VeinInv
<1>2. slow
  <2>1. overHere \in Int /\ v \in Int
    BY <1>1, WorldFeedAssumption DEF VeinInv
  <2> QED BY <1>1, <2>1 DEF VeinInv
<1>3. DOMAIN wire = 1..Len(wire)
  BY DEF VeinInv
<1> QED BY <1>1, <1>2, <1>3 DEF NewsInv, Expired

\* What is over and what is news of it: how far a rush has come, in order.
FeedRank(r, s) == 4 * r + (IF s = "open" THEN 1 ELSE IF s = "achieved" THEN 2 ELSE 3)

MsgRank(n) == FeedRank(wire[n].rush, wire[n].stage)

Celebrated(n) == 4 * n + 2

\* The news of rushes are in order; after a fanfare only what follows it comes, and once
\* the flag is down nothing of that rush but its end.
FanfareInv ==
  /\ fanfares \in [1..MaxRushes -> Nat]
  /\ rushStage # "none" => rush # 0
  /\ \A n \in 1..Len(wire) :
       /\ wire[n].stage # "none" => wire[n].rush # 0
       /\ MsgRank(n) <= FeedRank(rush, rushStage)
       /\ \A m \in 1..n : MsgRank(m) <= MsgRank(n)
  /\ \A r \in 1..MaxRushes : fanfares[r] # 0 =>
       /\ FeedRank(rush, rushStage) >= Celebrated(r)
       /\ \A n \in 1..Len(wire) : MsgRank(n) >= Celebrated(r)
       /\ ~prevAchieved =>
            /\ FeedRank(rush, rushStage) # Celebrated(r)
            /\ \A n \in 1..Len(wire) : MsgRank(n) # Celebrated(r)
  /\ OneFanfare

LEMMA RankIs ==
  ASSUME NEW r \in Nat, NEW s \in RushStages
  PROVE  /\ FeedRank(r, s) \in Nat /\ FeedRank(r, s) \in 4 * r + 1..4 * r + 3
         /\ s = "achieved" => FeedRank(r, s) = 4 * r + 2
         /\ s = "open" => FeedRank(r, s) = 4 * r + 1
         /\ s = "none" => FeedRank(r, s) = 4 * r + 3
  BY DEF FeedRank, RushStages

\* A message of the wire is one of the types.
LEMMA OnTheWire ==
  ASSUME VeinInv, NEW n \in 1..Len(wire)
  PROVE  wire[n].rush \in Nat /\ wire[n].rush <= MaxRushes /\ wire[n].stage \in RushStages /\ MsgRank(n) \in Nat
<1>1. wire[n] \in TickMsg(struck)
  BY DEF VeinInv
<1>2. wire[n].rush \in 0..MaxRushes /\ wire[n].stage \in RushStages
  BY <1>1 DEF TickMsg
<1>3. wire[n].rush \in Nat /\ wire[n].rush <= MaxRushes
  BY <1>2, WorldFeedAssumption
<1>4. FeedRank(wire[n].rush, wire[n].stage) \in Nat
  BY <1>2, <1>3, RankIs
<1> QED BY <1>2, <1>3, <1>4 DEF MsgRank

LEMMA FanfareStart == ASSUME WorldFeedInit PROVE FanfareInv
<1>1. Len(wire) = 0 /\ fanfares = [n \in 1..MaxRushes |-> 0]
  BY DEF WorldFeedInit
<1>2. rushStage # "none" => rush # 0
  BY DEF WorldFeedInit
<1> QED BY <1>1, <1>2 DEF FanfareInv, OneFanfare

\* The server's rush goes on.
LEMMA FanfareTurns == ASSUME VeinInv, FanfareInv, RushTurns PROVE FanfareInv'
<1>1. UNCHANGED <<wire, fanfares, prevAchieved>>
  BY DEF RushTurns, feedStore
<1>2. rush \in Nat /\ rushStage \in RushStages
  BY WorldFeedAssumption DEF VeinInv
<1>3. /\ rush' \in Nat /\ rushStage' \in RushStages
      /\ FeedRank(rush', rushStage') > FeedRank(rush, rushStage)
      /\ rushStage' # "none" => rush' # 0
  BY <1>2 DEF RushTurns, FeedRank, RushStages, FanfareInv
<1>4. FeedRank(rush, rushStage) \in Nat /\ FeedRank(rush', rushStage') \in Nat
  BY <1>2, <1>3, RankIs
<1>5. \A n \in 1..Len(wire) : MsgRank(n)' = MsgRank(n) /\ MsgRank(n) \in Nat
  BY <1>1, OnTheWire DEF MsgRank
<1>6. ASSUME NEW r \in 1..MaxRushes, fanfares[r] # 0
      PROVE  /\ FeedRank(rush', rushStage') >= Celebrated(r)
             /\ FeedRank(rush', rushStage') # Celebrated(r)
  <2>1. FeedRank(rush, rushStage) >= Celebrated(r) /\ Celebrated(r) \in Nat
    BY <1>6 DEF FanfareInv, Celebrated
  <2> QED BY <1>3, <1>4, <2>1
<1>7. OneFanfare'
  BY <1>1 DEF FanfareInv, OneFanfare
<1>8. \A n \in 1..Len(wire) : MsgRank(n) <= FeedRank(rush', rushStage')
  BY <1>3, <1>4, <1>5 DEF FanfareInv
<1> QED BY <1>1, <1>3, <1>5, <1>6, <1>7, <1>8 DEF FanfareInv

\* A tick puts the server's rush on the wire.
LEMMA FanfareTick == ASSUME VeinInv, FanfareInv, Tick PROVE FanfareInv'
<1>1. UNCHANGED <<rush, rushStage, fanfares, prevAchieved>>
  BY DEF Tick, feedStore
<1>2. rush \in Nat /\ rushStage \in RushStages /\ FeedRank(rush, rushStage) \in Nat
  BY WorldFeedAssumption, RankIs DEF VeinInv
<1>3. PICK event : Broadcast(event)
  BY DEF Tick
<1>4. CASE ~up
  BY <1>1, <1>3, <1>4 DEF Broadcast, FanfareInv, OneFanfare, MsgRank
<1>5. CASE up
  <2> DEFINE msg == [front |-> front', vein |-> event, rush |-> rush, stage |-> rushStage]
  <2>0. PICK L \in Nat : L = Len(wire)
    BY DEF VeinInv
  <2>1. wire' = Append(wire, msg) /\ wire \in Seq(TickMsg(struck)) /\ L = Len(wire)
    BY <1>3, <1>5, <2>0 DEF Broadcast, VeinInv
  <2>2. msg.rush = rush /\ msg.stage = rushStage
    OBVIOUS
  <2> HIDE DEF msg
  <2>3. Len(wire') = L + 1 /\ wire'[L + 1] = msg /\ \A n \in 1..L : wire'[n] = wire[n]
    BY <2>1
  <2>4. MsgRank(L + 1)' = FeedRank(rush, rushStage)
    <3>1. wire'[L + 1].rush = rush /\ wire'[L + 1].stage = rushStage
      BY <2>2, <2>3
    <3> QED BY <3>1 DEF MsgRank
  <2>5. \A n \in 1..L : MsgRank(n)' = MsgRank(n) /\ MsgRank(n) \in Nat
    BY <2>1, <2>3, OnTheWire DEF MsgRank
  <2>6. ASSUME NEW n \in 1..L + 1
        PROVE  /\ wire'[n].stage # "none" => wire'[n].rush # 0
               /\ MsgRank(n)' <= FeedRank(rush, rushStage)
               /\ \A m \in 1..n : MsgRank(m)' <= MsgRank(n)'
    <3>1. CASE n = L + 1
      <4>1. \A m \in 1..L : MsgRank(m)' <= MsgRank(L + 1)'
        BY <2>1, <2>4, <2>5 DEF FanfareInv
      <4>2. wire'[L + 1].stage # "none" => wire'[L + 1].rush # 0
        BY <2>2, <2>3 DEF FanfareInv
      <4>3. \A m \in 1..L + 1 : m \in 1..L \/ m = L + 1
        OBVIOUS
      <4> QED BY <1>2, <2>4, <3>1, <4>1, <4>2, <4>3
    <3>2. CASE n \in 1..L
      BY <1>2, <2>1, <2>3, <2>5, <3>2 DEF FanfareInv
    <3> QED BY <2>1, <3>1, <3>2
  <2>7. ASSUME NEW r \in 1..MaxRushes, fanfares[r] # 0
        PROVE  /\ FeedRank(rush, rushStage) >= Celebrated(r)
               /\ \A n \in 1..L + 1 : MsgRank(n)' >= Celebrated(r)
               /\ ~prevAchieved => /\ FeedRank(rush, rushStage) # Celebrated(r)
                                   /\ \A n \in 1..L + 1 : MsgRank(n)' # Celebrated(r)
    <3>1. \A n \in 1..L + 1 : n \in 1..L \/ n = L + 1
      BY <2>1
    <3>2. /\ FeedRank(rush, rushStage) >= Celebrated(r)
          /\ \A n \in 1..L : MsgRank(n) >= Celebrated(r)
          /\ ~prevAchieved => /\ FeedRank(rush, rushStage) # Celebrated(r)
                              /\ \A n \in 1..L : MsgRank(n) # Celebrated(r)
      BY <2>1, <2>7 DEF FanfareInv
    <3> QED BY <2>4, <2>5, <3>1, <3>2
  <2>8. OneFanfare'
    BY <1>1 DEF FanfareInv, OneFanfare
  <2> QED BY <1>1, <2>3, <2>6, <2>7, <2>8 DEF FanfareInv
<1> QED BY <1>4, <1>5

\* A message is applied: a fanfare is played for a rush that had none.
LEMMA FanfareDelivered == ASSUME VeinInv, FanfareInv, TickDelivered PROVE FanfareInv'
<1> DEFINE msg == Head(wire)
<1>1. /\ UNCHANGED <<rush, rushStage>> /\ wire # <<>> /\ wire' = Tail(wire) /\ RushApplied(msg)
      /\ wire \in Seq(TickMsg(struck))
  BY DEF TickDelivered, feedServer, VeinInv
<1>2. /\ msg = wire[1] /\ Len(wire') = Len(wire) - 1 /\ Len(wire) \in Nat \ {0}
      /\ \A n \in 1..Len(wire') : n + 1 \in 1..Len(wire) /\ wire'[n] = wire[n + 1]
  BY <1>1, HeadAndTail
<1>3. /\ msg.rush \in Nat /\ msg.rush <= MaxRushes /\ msg.stage \in RushStages
      /\ MsgRank(1) = FeedRank(msg.rush, msg.stage) /\ 1 \in 1..Len(wire)
      /\ msg.stage # "none" => msg.rush # 0
  BY <1>2, OnTheWire DEF MsgRank, FanfareInv
<1> HIDE DEF msg
<1>4. rush \in Nat /\ rushStage \in RushStages /\ FeedRank(rush, rushStage) \in Nat
  BY WorldFeedAssumption, RankIs DEF VeinInv
<1>5. \A n \in 1..Len(wire) : MsgRank(n) \in Nat /\ MsgRank(1) <= MsgRank(n)
  <2> SUFFICES ASSUME NEW n \in 1..Len(wire) PROVE MsgRank(n) \in Nat /\ MsgRank(1) <= MsgRank(n)
    OBVIOUS
  <2>1. 1 \in 1..n /\ MsgRank(n) \in Nat
    BY <1>2, OnTheWire
  <2> QED BY <2>1 DEF FanfareInv
<1>6. \A n \in 1..Len(wire') : /\ MsgRank(n)' = MsgRank(n + 1) /\ n + 1 \in 1..Len(wire)
                               /\ n \in Nat
  BY <1>2 DEF MsgRank
<1>7. \A n \in 1..Len(wire') :
        /\ wire'[n].stage # "none" => wire'[n].rush # 0
        /\ MsgRank(n)' <= FeedRank(rush, rushStage)
        /\ \A m \in 1..n : MsgRank(m)' <= MsgRank(n)'
  <2> SUFFICES ASSUME NEW n \in 1..Len(wire')
               PROVE  /\ wire'[n].stage # "none" => wire'[n].rush # 0
                      /\ MsgRank(n)' <= FeedRank(rush, rushStage)
                      /\ \A m \in 1..n : MsgRank(m)' <= MsgRank(n)'
    OBVIOUS
  <2>1. \A m \in 1..n : m \in 1..Len(wire') /\ m + 1 \in 1..n + 1
    BY <1>2
  <2> QED BY <1>2, <1>6, <2>1 DEF FanfareInv
<1>8. CASE msg.stage = "none"
  <2>1. UNCHANGED <<fanfares, prevAchieved>>
    BY <1>1, <1>8 DEF RushApplied
  <2> QED BY <1>1, <1>6, <1>7, <2>1 DEF FanfareInv, OneFanfare
<1>9. CASE msg.stage = "open"
  <2>1. prevAchieved' = FALSE /\ fanfares' = fanfares
    BY <1>1, <1>9 DEF RushApplied
  <2>2. ASSUME NEW r \in 1..MaxRushes, fanfares[r] # 0
        PROVE  /\ FeedRank(rush, rushStage) > Celebrated(r)
               /\ \A n \in 1..Len(wire) : MsgRank(n) > Celebrated(r)
    <3>1. MsgRank(1) >= Celebrated(r) /\ MsgRank(1) = 4 * msg.rush + 1 /\ r \in Nat
      <4>1. MsgRank(1) >= Celebrated(r)
        BY <1>3, <2>2 DEF FanfareInv
      <4>2. FeedRank(msg.rush, msg.stage) = 4 * msg.rush + 1
        BY <1>3, <1>9, RankIs
      <4> QED BY <1>3, <4>1, <4>2
    <3>2. MsgRank(1) > Celebrated(r) /\ Celebrated(r) \in Nat
      BY <1>3, <3>1 DEF Celebrated
    <3>3. MsgRank(1) <= FeedRank(rush, rushStage)
      BY <1>3 DEF FanfareInv
    <3> QED BY <1>3, <1>4, <1>5, <3>2, <3>3
  <2>3. ASSUME NEW r \in 1..MaxRushes, fanfares[r] # 0
        PROVE  /\ FeedRank(rush, rushStage) >= Celebrated(r)
               /\ FeedRank(rush, rushStage) # Celebrated(r)
               /\ \A n \in 1..Len(wire') : MsgRank(n)' >= Celebrated(r) /\ MsgRank(n)' # Celebrated(r)
    BY <1>4, <1>5, <1>6, <2>2, <2>3 DEF Celebrated
  <2> QED BY <1>1, <1>7, <2>1, <2>3 DEF FanfareInv, OneFanfare
<1>10. CASE msg.stage = "achieved"
  <2>1. /\ prevAchieved' = TRUE
        /\ fanfares' = IF ~prevAchieved THEN [fanfares EXCEPT ![msg.rush] = @ + 1] ELSE fanfares
        /\ msg.rush \in 1..MaxRushes
    <3>1. msg.rush \in 1..MaxRushes
      BY <1>3, <1>10, WorldFeedAssumption
    <3>2. msg.stage = "achieved" /\ msg.stage # "none"
      BY <1>10
    <3> QED BY <1>1, <3>1, <3>2 DEF RushApplied
  <2>2. MsgRank(1) = Celebrated(msg.rush)
    <3>1. FeedRank(msg.rush, msg.stage) = 4 * msg.rush + 2
      BY <1>3, <1>10, RankIs
    <3> QED BY <1>3, <3>1 DEF Celebrated
  <2>3. CASE prevAchieved
    <3>1. fanfares' = fanfares
      BY <2>1, <2>3
    <3> QED BY <1>1, <1>6, <1>7, <2>1, <3>1 DEF FanfareInv, OneFanfare
  <2>4. CASE ~prevAchieved
    <3>1. fanfares[msg.rush] = 0
      BY <1>3, <2>1, <2>2, <2>4 DEF FanfareInv
    <3>2. /\ fanfares' \in [1..MaxRushes -> Nat] /\ fanfares'[msg.rush] = 1
          /\ \A r \in 1..MaxRushes : r # msg.rush => fanfares'[r] = fanfares[r]
      BY <2>1, <2>4, <3>1 DEF FanfareInv
    <3>3. OneFanfare'
      BY <3>2 DEF FanfareInv, OneFanfare
    <3>4. ASSUME NEW r \in 1..MaxRushes, fanfares'[r] # 0
          PROVE  /\ FeedRank(rush, rushStage) >= Celebrated(r)
                 /\ \A n \in 1..Len(wire') : MsgRank(n)' >= Celebrated(r)
      <4>1. CASE r = msg.rush
        BY <1>3, <1>5, <1>6, <2>2, <4>1 DEF FanfareInv
      <4>2. CASE r # msg.rush
        BY <1>6, <3>2, <3>4, <4>2 DEF FanfareInv
      <4> QED BY <4>1, <4>2
    <3> QED BY <1>1, <1>7, <2>1, <3>2, <3>3, <3>4 DEF FanfareInv
  <2> QED BY <2>3, <2>4
<1> QED BY <1>3, <1>8, <1>9, <1>10 DEF RushStages

LEMMA FanfareStep ==
  ASSUME VeinInv, FanfareInv, [WorldFeedNext]_worldFeedVars PROVE FanfareInv'
<1>1. ASSUME UNCHANGED <<rush, rushStage, fanfares, prevAchieved, wire>> PROVE FanfareInv'
  BY <1>1 DEF FanfareInv, OneFanfare, MsgRank
<1>2. CASE VeinTimesOut \/ WorldRead \/ VeinTimesOutHere \/ WorldApplied \/ WorldLost \/ LineReturns
  BY <1>1, <1>2 DEF VeinTimesOut, WorldRead, VeinTimesOutHere, WorldApplied, WorldLost, LineReturns,
                    feedServer, feedStore
<1>3. CASE LineDrops
  <2>1. UNCHANGED <<rush, rushStage, fanfares, prevAchieved>> /\ Len(wire') = 0
    BY <1>3 DEF LineDrops, feedServer, feedStore
  <2> QED BY <2>1 DEF FanfareInv, OneFanfare
<1>4. CASE UNCHANGED worldFeedVars
  BY <1>1, <1>4 DEF worldFeedVars, feedServer, feedStore
<1> QED BY <1>2, <1>3, <1>4, FanfareTurns, FanfareTick, FanfareDelivered DEF WorldFeedNext

\* A vein that the page lists is the one that pays, up to a browser's clock that is behind,
\* and a rush is celebrated once, for any number of veins, rushes, lost connections and ticks
\* on their way.
THEOREM FeedStaysTrue == WorldFeedSpec => [](ListedVeinPays /\ OneFanfare)
<1> DEFINE Inv == VeinInv /\ NewsInv /\ FanfareInv
<1>1. WorldFeedInit => Inv
  BY VeinStart, NewsStart, FanfareStart
<1>2. Inv /\ [WorldFeedNext]_worldFeedVars => Inv'
  BY VeinStepKept, NewsStep, FanfareStep
<1>3. Inv => ListedVeinPays /\ OneFanfare
  BY DeadIsKnown DEF FanfareInv
<1> HIDE DEF Inv
<1> QED BY <1>1, <1>2, <1>3, PTL DEF WorldFeedSpec

LEMMA WorldFeedTypes == ASSUME VeinInv PROVE WorldFeedTypeOK
<1>1. Len(answer) <= 1
  <2>1. CASE answer = <<>>
    BY <2>1
  <2>2. ASSUME NEW a \in WorldAnswer, answer = <<a>> PROVE Len(answer) <= 1
    BY <2>2
  <2> QED BY <2>1, <2>2 DEF VeinInv
<1> QED BY <1>1 DEF VeinInv, WorldFeedTypeOK, RushStages

-----------------------------------------------------------------------------
(* WorldView. *)

ViewTypes ==
  /\ width \in Widths /\ cores \in CoreCounts
  /\ quality \in Levels /\ setting \in Levels /\ stored \in Levels
  /\ narrow \in BOOLEAN /\ wasWide \in BOOLEAN
  /\ sheet \in {"none", "agents", "earnings", "settings"}
  /\ camera \in CameraSpots /\ seenFrom \in CameraSpots /\ seenWith \in Levels
  /\ target \in CameraSpots \cup {Nowhere}
  /\ frame \in 0..2 /\ behind \in 0..3
  /\ visible = GetVisibleChunks(seenFrom, seenWith)
  /\ lodLevel = UpdateLODLevels(seenFrom, seenWith)

\* Who is wide was wide, a phone never was; what is seen is of the level, and of the camera
\* but for the frames since the last refresh; a sheet is open over its bar.
ViewInv ==
  /\ quality = "high" \/ ~narrow \/ ~IsMobileDevice(width) => wasWide
  /\ seenWith = quality /\ (seenFrom # camera => behind <= frame)
  /\ setting = stored /\ (sheet # "none" => IsMobile)

LEMMA WidthsAreNat == ASSUME NEW w \in Widths PROVE w \in Nat
  BY ViewAssumption

LEMMA ViewStart == ASSUME WorldViewInit PROVE ViewTypes /\ ViewInv
<1>1. quality \in Levels
  BY DEF WorldViewInit, GetInitialQuality, Levels
<1>2. narrow \in BOOLEAN /\ wasWide \in BOOLEAN
  BY DEF WorldViewInit, IsMobileDevice
<1>3. ViewTypes
  BY <1>1, <1>2, ViewAssumption DEF WorldViewInit, ViewTypes, Levels
<1>4. quality = "high" => ~IsMobileDevice(width)
  BY DEF WorldViewInit, GetInitialQuality
<1> QED BY <1>3, <1>4 DEF WorldViewInit, ViewInv

LEMMA LevelKept ==
  ASSUME ViewTypes, ViewInv, NEW to \in Levels, Level(to), to = "high" => ~narrow
  PROVE  ViewTypes' /\ ViewInv'
<1>1. /\ quality' = to /\ narrow' = IsMobileDevice(width) /\ behind' = 0 /\ seenFrom' = camera
      /\ seenWith' = to /\ visible' = GetVisibleChunks(camera, to)
      /\ lodLevel' = UpdateLODLevels(camera, to)
      /\ UNCHANGED <<width, cores, wasWide, setting, stored, sheet, camera, target, frame>>
  BY DEF Level, Refresh, window, controls
<1>2. narrow' \in BOOLEAN
  BY <1>1 DEF IsMobileDevice
<1>3. ViewTypes'
  BY <1>1, <1>2 DEF ViewTypes, GetVisibleChunks, UpdateLODLevels
<1>4. ViewInv'
  <2>1. quality' = "high" \/ ~narrow' \/ ~IsMobileDevice(width)' => wasWide'
    BY <1>1 DEF ViewInv, IsMobileDevice
  <2>2. setting' = stored' /\ (sheet' # "none" => IsMobile')
    BY <1>1 DEF ViewInv, IsMobile
  <2> QED BY <1>1, <2>1, <2>2 DEF ViewInv
<1> QED BY <1>3, <1>4

LEMMA ResizeKept ==
  ASSUME ViewTypes, ViewInv, NEW w \in Widths, WindowResized(w)
  PROVE  ViewTypes' /\ ViewInv'
<1> DEFINE remounts == (w <= 768) # IsMobile
<1>0. /\ width' = w /\ UNCHANGED <<cores, stored, target>>
      /\ narrow'  = (IF remounts THEN IsMobileDevice(w) ELSE narrow)
      /\ wasWide' = (IF remounts THEN ~IsMobileDevice(w) ELSE wasWide \/ ~IsMobileDevice(w))
      /\ quality' = IF remounts THEN GetInitialQuality(w) ELSE quality
      /\ setting' = IF remounts THEN stored ELSE setting
      /\ sheet'   = IF remounts THEN "none" ELSE sheet
      /\ frame'   = IF remounts THEN 0 ELSE frame
      /\ camera'  = IF remounts THEN HomeSpot ELSE camera
      /\ IF remounts THEN Refresh(camera', quality') /\ behind' = 0
         ELSE UNCHANGED <<visible, lodLevel, seenFrom, seenWith, behind>>
  BY DEF WindowResized
<1>1. CASE remounts
  <2>1. quality' \in Levels /\ (quality' = "high" => ~IsMobileDevice(w))
    BY <1>0, <1>1 DEF GetInitialQuality, Levels
  <2>2. narrow' \in BOOLEAN /\ wasWide' \in BOOLEAN /\ narrow' = IsMobileDevice(w)
        /\ wasWide' = ~IsMobileDevice(w)
    BY <1>0, <1>1 DEF IsMobileDevice
  <2>3. /\ seenFrom' = camera' /\ seenWith' = quality' /\ setting' = stored /\ sheet' = "none"
        /\ frame' = 0 /\ behind' = 0 /\ camera' \in CameraSpots
        /\ visible' = GetVisibleChunks(camera', quality')
        /\ lodLevel' = UpdateLODLevels(camera', quality')
    BY <1>0, <1>1, ViewAssumption DEF Refresh
  <2>4. ViewTypes'
    BY <1>0, <2>1, <2>2, <2>3 DEF ViewTypes, GetVisibleChunks, UpdateLODLevels
  <2>5. ViewInv'
    <3>1. stored' = stored /\ setting = stored
      BY <1>0 DEF ViewInv
    <3>3. width' = w
      BY <1>0
    <3>4. (quality' = "high" \/ ~narrow' \/ ~IsMobileDevice(width')) => wasWide'
      BY <2>1, <2>2, <3>3
    <3>5. seenWith' = quality' /\ (seenFrom' # camera' => behind' <= frame')
      BY <2>3
    <3>6. setting' = stored' /\ (sheet' # "none" => IsMobile')
      BY <2>3, <3>1
    <3> QED BY <3>4, <3>5, <3>6 DEF ViewInv
  <2> QED BY <2>4, <2>5
<1>2. CASE ~remounts
  <2>1. /\ UNCHANGED <<narrow, quality, setting, sheet, frame, visible, lodLevel, seenFrom,
                       seenWith, behind>>
        /\ wasWide' = (wasWide \/ ~IsMobileDevice(w)) /\ camera' = camera
    BY <1>0, <1>2
  <2>2. wasWide' \in BOOLEAN
    BY <2>1
  <2>3. IsMobile' <=> IsMobile
    BY <1>0, <1>2 DEF IsMobile
  <2>4. ViewTypes'
    BY <1>0, <2>1, <2>2 DEF ViewTypes, GetVisibleChunks, UpdateLODLevels
  <2>5. ViewInv'
    <3>1. width' = w /\ camera' = camera /\ stored' = stored
      BY <1>0, <2>1
    <3>2. (quality' = "high" \/ ~narrow' \/ ~IsMobileDevice(width')) => wasWide'
      BY <2>1, <3>1 DEF ViewInv
    <3>3. /\ seenWith' = quality' /\ (seenFrom' # camera' => behind' <= frame')
          /\ setting' = stored'
      BY <2>1, <3>1 DEF ViewInv
    <3>4. sheet' # "none" => IsMobile'
      BY <2>1, <2>3 DEF ViewInv
    <3> QED BY <3>2, <3>3, <3>4 DEF ViewInv
  <2> QED BY <2>4, <2>5
<1> QED BY <1>1, <1>2

LEMMA FrameKept == ASSUME ViewTypes, ViewInv, Frame PROVE ViewTypes' /\ ViewInv'
<1>1. /\ frame' = (frame + 1) % 3 /\ frame' \in 0..2 /\ (frame' = 0 \/ frame' = frame + 1)
  BY DEF Frame, ViewTypes
<1>2. camera' \in CameraSpots /\ target' \in CameraSpots \cup {Nowhere}
  BY DEF Frame, PanEnds, ViewTypes
<1>3. /\ UNCHANGED <<width, cores, quality, narrow, wasWide, setting, stored, sheet>>
      /\ behind' = IF camera' # camera THEN 0 ELSE IF behind < 3 THEN behind + 1 ELSE behind
  BY DEF Frame, window, adapter, controls
<1>4. behind' \in 0..3
  BY <1>3 DEF ViewTypes
<1>5. CASE frame' = 0
  <2>1. /\ seenFrom' = camera' /\ seenWith' = quality
        /\ visible' = GetVisibleChunks(camera', quality)
        /\ lodLevel' = UpdateLODLevels(camera', quality)
    BY <1>5 DEF Frame, Refresh
  <2>2. ViewTypes'
    BY <1>1, <1>2, <1>3, <1>4, <2>1 DEF ViewTypes, GetVisibleChunks, UpdateLODLevels
  <2> QED BY <1>3, <2>1, <2>2 DEF ViewInv, IsMobileDevice, IsMobile
<1>6. CASE frame' # 0
  <2>1. UNCHANGED <<visible, lodLevel, seenFrom, seenWith>>
    BY <1>6 DEF Frame
  <2>2. ViewTypes'
    BY <1>1, <1>2, <1>3, <1>4, <2>1 DEF ViewTypes, GetVisibleChunks, UpdateLODLevels
  <2>3. seenFrom' # camera' => behind' <= frame'
    BY <1>1, <1>3, <1>6, <2>1 DEF ViewInv, ViewTypes
  <2> QED BY <1>3, <2>1, <2>2, <2>3 DEF ViewInv, IsMobileDevice, IsMobile
<1> QED BY <1>5, <1>6

LEMMA ViewStep ==
  ASSUME ViewTypes, ViewInv, [WorldViewNext]_viewVars PROVE ViewTypes' /\ ViewInv'
<1> USE DEF window, adapter, controls, chunkState
<1>0. ASSUME UNCHANGED <<width, cores, quality, narrow, wasWide, visible, lodLevel, seenFrom, seenWith,
                         frame>>,
             camera' \in CameraSpots, target' \in CameraSpots \cup {Nowhere}, behind' \in 0..3,
             setting' \in Levels, setting' = stored', seenFrom # camera' => behind' <= frame,
             sheet' \in {"none", "agents", "earnings", "settings"}, sheet' # "none" => IsMobile
      PROVE  ViewTypes' /\ ViewInv'
  <2>1. ViewTypes'
    BY <1>0 DEF ViewTypes, GetVisibleChunks, UpdateLODLevels
  <2> QED BY <1>0, <2>1 DEF ViewInv, IsMobileDevice, IsMobile
<1>1. CASE Frame
  BY <1>1, FrameKept
<1>2. CASE HandleDecline
  BY <1>2, LevelKept DEF HandleDecline, Levels
<1>3. CASE HandleIncline
  BY <1>3, LevelKept DEF HandleIncline, Levels
<1>4. ASSUME NEW w \in Widths, WindowResized(w) PROVE ViewTypes' /\ ViewInv'
  BY <1>4, ResizeKept
<1>5. ASSUME NEW s \in CameraSpots, CameraDragged(s) PROVE ViewTypes' /\ ViewInv'
  <2>1. 0 <= frame /\ 0 \in 0..3
    BY DEF ViewTypes
  <2> QED BY <1>0, <1>5, <2>1 DEF CameraDragged, ViewTypes, ViewInv
<1>6. ASSUME NEW s \in CameraSpots, LocateAgent(s) PROVE ViewTypes' /\ ViewInv'
  BY <1>0, <1>6 DEF LocateAgent, ViewTypes, ViewInv
<1>7. ASSUME NEW panel \in {"agents", "earnings", "settings"}, NavClick(panel)
      PROVE  ViewTypes' /\ ViewInv'
  BY <1>0, <1>7 DEF NavClick, ViewTypes, ViewInv
<1>8. ASSUME NEW level \in Levels, QualityChosen(level) PROVE ViewTypes' /\ ViewInv'
  BY <1>0, <1>8 DEF QualityChosen, HandleQualityChange, ViewTypes, ViewInv
<1>9. CASE UNCHANGED viewVars
  BY <1>0, <1>9 DEF viewVars, ViewTypes, ViewInv
<1> QED BY <1>1, <1>2, <1>3, <1>4, <1>5, <1>6, <1>7, <1>8, <1>9 DEF WorldViewNext

\* Every hex has the one chunk of its coordinates, for any land and size of a chunk.
LEMMA LandDivides == LandIsPartitioned
<1> SUFFICES ASSUME NEW h \in Land PROVE Cardinality({c \in Chunks : h \in HexesOf(c)}) = 1
  BY DEF LandIsPartitioned
<1>1. {c \in Chunks : h \in HexesOf(c)} = {GetChunkCoords(h)}
  BY DEF Chunks, HexesOf
<1> QED BY <1>1, FS_Singleton

\* A chunk is in the scene if its sphere reaches into the range.
LEMMA PictureFollows == ASSUME ViewTypes, ViewInv PROVE PictureIsRight
<1> DEFINE far == Preset[seenWith].maxDistance
<1>1. /\ far \in Nat /\ Preset[seenWith].high \in Nat /\ Preset[seenWith].med \in Nat
      /\ Preset[seenWith].high <= Preset[seenWith].med
  <2>1. CASE seenWith = "low"
    BY <2>1 DEF Preset
  <2>2. CASE seenWith = "medium"
    BY <2>2 DEF Preset
  <2>3. CASE seenWith = "high"
    BY <2>3 DEF Preset
  <2> QED BY <2>1, <2>2, <2>3 DEF ViewTypes, Levels
<1>2. /\ Frustum[seenFrom] \subseteq Chunks
      /\ \A c \in Chunks : Distance[seenFrom][c] \in Nat /\ Radius[c] \in Nat
  BY ViewAssumption DEF ViewTypes
<1>3. ASSUME NEW c \in Frustum[seenFrom]
      PROVE  <<"chunk", c, lodLevel[c]>> \in Scene <=> Distance[seenFrom][c] - Radius[c] <= far
  <2>1. c \in visible <=> Distance[seenFrom][c] <= far + Radius[c]
    BY DEF ViewTypes, GetVisibleChunks
  <2>2. <<"chunk", c, lodLevel[c]>> \in Scene <=> c \in visible
    BY DEF Scene, Terrain
  <2> HIDE DEF far
  <2> QED BY <1>1, <1>2, <2>1, <2>2
<1>4. ASSUME NEW c \in Chunks, NEW d \in Chunks, Distance[seenFrom][c] <= Distance[seenFrom][d]
      PROVE  lodLevel[c] <= lodLevel[d]
  BY <1>1, <1>2, <1>4 DEF ViewTypes, UpdateLODLevels
<1>5. behind = 3 => seenFrom = camera /\ seenWith = quality
  BY DEF ViewTypes, ViewInv
<1> QED BY <1>3, <1>4, <1>5 DEF PictureIsRight

LEMMA ViewTypesOK == ASSUME ViewTypes PROVE WorldViewTypeOK
<1>1. lodLevel \in [Chunks -> 0..2]
  BY DEF ViewTypes, UpdateLODLevels
<1> QED BY <1>1 DEF ViewTypes, WorldViewTypeOK

\* The picture is the world from where the camera stands, with the detail chosen: for any
\* land, camera geometry, widths and cores.
THEOREM PictureStaysRight ==
  WorldViewSpec => [](PhoneNeverHigh /\ PictureIsRight /\ LandIsPartitioned /\ ChoiceIsKept)
<1>1. ViewTypes /\ ViewInv => PhoneNeverHigh /\ PictureIsRight /\ LandIsPartitioned /\ ChoiceIsKept
  <2> SUFFICES ASSUME ViewTypes, ViewInv
               PROVE  PhoneNeverHigh /\ PictureIsRight /\ LandIsPartitioned /\ ChoiceIsKept
    OBVIOUS
  <2>1. PhoneNeverHigh /\ ChoiceIsKept
    BY DEF ViewInv, PhoneNeverHigh, ChoiceIsKept, Chrome
  <2> QED BY <2>1, PictureFollows, LandDivides
<1>2. WorldViewInit => ViewTypes /\ ViewInv
  BY ViewStart
<1>3. (ViewTypes /\ ViewInv) /\ [WorldViewNext]_viewVars => (ViewTypes /\ ViewInv)'
  BY ViewStep
<1> QED BY <1>1, <1>2, <1>3, PTL DEF WorldViewSpec

-----------------------------------------------------------------------------
(* AgentView. *)

FigureTypes ==
  /\ at \in [Figures -> Spots \cup {Unplaced, Unlisted}] /\ standpoint \in Standpoints
  /\ seenIds \subseteq Figures /\ newIds \subseteq Figures
  /\ trauma \in 0..MaxTrauma /\ emitted \in BOOLEAN
  /\ lost \in Nat /\ applied \in BOOLEAN /\ lowQuality \in BOOLEAN

\* Figures and piles share out who has a hex, however long ago that was; one offset is in
\* the camera for the ref that is kept and one for each that was lost.
FigureInv ==
  /\ near \subseteq Placed(at)
  /\ piles = [c \in {ChunkAt[at[f]] : f \in Placed(at) \ near} |->
                {f \in Placed(at) \ near : ChunkAt[at[f]] = c}]
  /\ offsets = lost + (IF applied THEN 1 ELSE 0)
  /\ landing \subseteq near /\ sparks \subseteq near

LEMMA FigureStart == ASSUME AgentViewInit PROVE FigureTypes /\ FigureInv
<1>1. FigureTypes
  <2>1. 0 \in 0..MaxTrauma
    BY AgentViewAssumption
  <2>2. at \in [Figures -> Spots \cup {Unplaced, Unlisted}]
    BY DEF AgentViewInit
  <2>3. trauma = 0 /\ lost = 0 /\ applied = FALSE /\ emitted = FALSE
    BY DEF AgentViewInit
  <2>4. seenIds \subseteq Figures /\ newIds \subseteq Figures
    BY DEF AgentViewInit, InStore
  <2>5. standpoint \in Standpoints /\ lowQuality \in BOOLEAN
    BY DEF AgentViewInit
  <2> QED BY <2>1, <2>2, <2>3, <2>4, <2>5 DEF FigureTypes
<1>2. near = Close(at) /\ piles = Clusters(at) /\ offsets = 0 /\ lost = 0 /\ applied = FALSE
      /\ landing = {} /\ sparks = {}
  BY DEF AgentViewInit
<1>3. near \subseteq Placed(at)
  BY <1>2 DEF Close
<1>4. Distant(at) = Placed(at) \ near
  BY <1>2 DEF Distant
<1> QED BY <1>1, <1>2, <1>3, <1>4 DEF FigureInv, Clusters

LEMMA RenderKept ==
  ASSUME FigureTypes, FigureInv, Renders(at'), UNCHANGED offsets
  PROVE  /\ near' \subseteq Placed(at')
         /\ piles' = [c \in {ChunkAt[at'[f]] : f \in Placed(at') \ near'} |->
                        {f \in Placed(at') \ near' : ChunkAt[at'[f]] = c}]
         /\ offsets' = lost' + (IF applied' THEN 1 ELSE 0)
         /\ lost' \in Nat /\ applied' \in BOOLEAN
<1>1. near' = Close(at') /\ piles' = Clusters(at')
  BY DEF Renders
<1>2. near' \subseteq Placed(at')
  BY <1>1 DEF Close
<1>3. Distant(at') = Placed(at') \ near'
  BY <1>1 DEF Distant
<1>4. IF grouped' # grouped THEN applied' = FALSE /\ lost' = lost + (IF applied THEN 1 ELSE 0)
      ELSE UNCHANGED <<applied, lost>>
  BY DEF Renders
<1>5. lost' \in Nat /\ applied' \in BOOLEAN /\ offsets' = lost' + (IF applied' THEN 1 ELSE 0)
  <2>1. /\ lost \in Nat /\ applied \in BOOLEAN
        /\ offsets' = lost + (IF applied THEN 1 ELSE 0)
    BY DEF FigureTypes, FigureInv
  <2>2. CASE grouped' # grouped
    <3>1. applied' = FALSE /\ lost' = lost + (IF applied THEN 1 ELSE 0)
      BY <1>4, <2>2
    <3>2. lost' \in Nat
      BY <2>1, <3>1
    <3>3. offsets' = lost' + 0
      BY <2>1, <3>1, <3>2
    <3> QED BY <3>1, <3>2, <3>3
  <2>3. CASE ~(grouped' # grouped)
    BY <1>4, <2>1, <2>3
  <2> QED BY <2>2, <2>3
<1> QED BY <1>1, <1>2, <1>3, <1>5 DEF Clusters

LEMMA FigureStep ==
  ASSUME FigureTypes, FigureInv, [AgentViewNext]_figureVars PROVE FigureTypes' /\ FigureInv'
<1> USE DEF inStore, drawing, shake
<1>0. /\ MaxTrauma \in Nat /\ DEPLOY_TRAUMA \in Nat /\ trauma \in 0..MaxTrauma
  BY AgentViewAssumption DEF FigureTypes
<1>1. ASSUME UNCHANGED <<at, near, piles, lost, applied, offsets, seenIds, newIds>>,
             standpoint' \in Standpoints, lowQuality' \in BOOLEAN, emitted' \in BOOLEAN,
             trauma' \in 0..MaxTrauma, landing' \subseteq landing, sparks' \subseteq sparks
      PROVE  FigureTypes' /\ FigureInv'
  <2>1. Placed(at)' = Placed(at)
    BY <1>1 DEF Placed
  <2> QED BY <1>1, <2>1 DEF FigureTypes, FigureInv
<1>2. ASSUME Rerenders(lowQuality', sparks), UNCHANGED <<at, seenIds, newIds, standpoint, offsets>>,
             trauma' \in 0..MaxTrauma, lowQuality' \in BOOLEAN, emitted' \in BOOLEAN
      PROVE  FigureTypes' /\ FigureInv'
  <2>1. Renders(at')
    BY <1>2 DEF Rerenders
  <2>2. landing' \subseteq near' /\ sparks' \subseteq near'
    BY <1>2 DEF Rerenders
  <2> QED BY <1>2, <2>1, <2>2, RenderKept DEF FigureTypes, FigureInv, Placed
<1>3. ASSUME NEW where \in [Figures -> Spots \cup {Unplaced, Unlisted}], AgentsChange(where)
      PROVE  FigureTypes' /\ FigureInv'
  <2>1. at' = where /\ Renders(at') /\ UNCHANGED <<standpoint, lowQuality, offsets>>
    BY <1>3 DEF AgentsChange
  <2>2. newIds' \subseteq Figures /\ seenIds' \subseteq Figures
    BY <1>3 DEF AgentsChange, NewIds, InStore
  <2>3. landing' \subseteq near' /\ sparks' \subseteq near'
    BY <1>3 DEF AgentsChange
  <2>4. trauma' \in 0..MaxTrauma /\ emitted' \in BOOLEAN
    BY <1>0, <1>3 DEF AgentsChange, AddTrauma, FigureTypes
  <2> QED BY <2>1, <2>2, <2>3, <2>4, RenderKept DEF FigureTypes, FigureInv, Placed
<1>4. CASE QualityChanges
  <2>1. lowQuality' \in BOOLEAN /\ lowQuality' = ~lowQuality /\ emitted' \in BOOLEAN
    BY <1>4 DEF QualityChanges, FigureTypes
  <2> QED BY <1>0, <1>2, <1>4, <2>1 DEF QualityChanges
<1>5. CASE ShakeFrame
  <2>1. /\ UNCHANGED <<at, seenIds, newIds, standpoint, lowQuality, near, piles, lost, landing, sparks>>
        /\ applied' = (trauma > 0 /\ ~lowQuality)
        /\ offsets' = offsets - (IF applied THEN 1 ELSE 0) + (IF applied' THEN 1 ELSE 0)
    BY <1>5 DEF ShakeFrame, Shakes
  <2>2. trauma' \in 0..MaxTrauma /\ emitted' \in BOOLEAN
    <3>1. CASE trauma > 0
      <4>1. trauma' = trauma - 1 /\ emitted' = TRUE
        BY <1>5, <3>1 DEF ShakeFrame, DecayTrauma
      <4> QED BY <1>0, <3>1, <4>1
    <3>2. CASE ~(trauma > 0)
      <4>1. trauma' = trauma /\ emitted' = emitted
        BY <1>5, <3>2 DEF ShakeFrame
      <4> QED BY <1>0, <4>1 DEF FigureTypes
    <3> QED BY <3>1, <3>2
  <2>3. applied' \in BOOLEAN /\ offsets' = lost' + (IF applied' THEN 1 ELSE 0)
    BY <2>1 DEF FigureInv, FigureTypes
  <2>4. Placed(at)' = Placed(at)
    BY <2>1 DEF Placed
  <2> QED BY <2>1, <2>2, <2>3, <2>4 DEF FigureTypes, FigureInv
<1>6. CASE TraumaRenders
  <2>1. /\ Rerenders(lowQuality', sparks) /\ lowQuality' \in BOOLEAN /\ emitted' = FALSE
        /\ UNCHANGED <<at, seenIds, newIds, standpoint, offsets, trauma>>
    BY <1>6 DEF TraumaRenders, FigureTypes
  <2> QED BY <1>0, <1>2, <2>1
<1>7. ASSUME NEW s \in Standpoints, CameraMoves(s) PROVE FigureTypes' /\ FigureInv'
  BY <1>0, <1>1, <1>7 DEF CameraMoves, FigureTypes
<1>8. ASSUME NEW f \in Figures, LandingEnds(f) \/ SparksEnd(f) PROVE FigureTypes' /\ FigureInv'
  BY <1>0, <1>1, <1>8 DEF LandingEnds, SparksEnd, FigureTypes
<1>9. CASE UNCHANGED figureVars
  BY <1>0, <1>1, <1>9 DEF figureVars, FigureTypes
<1> QED BY <1>3, <1>4, <1>5, <1>6, <1>7, <1>8, <1>9 DEF AgentViewNext

LEMMA FiguresAreDrawn == ASSUME FigureTypes, FigureInv PROVE DrawnOnce
<1> SUFFICES ASSUME NEW f \in Figures
             PROVE  LET drawnIn == {c \in DOMAIN piles : f \in piles[c]} IN
                    /\ f \in Placed(at) => Cardinality(drawnIn) + (IF f \in near THEN 1 ELSE 0) = 1
                    /\ f \notin Placed(at) => f \notin near /\ drawnIn = {}
  BY DEF DrawnOnce
<1> DEFINE drawnIn == {c \in DOMAIN piles : f \in piles[c]}
<1>1. /\ DOMAIN piles = {ChunkAt[at[g]] : g \in Placed(at) \ near}
      /\ \A c \in DOMAIN piles : piles[c] = {g \in Placed(at) \ near : ChunkAt[at[g]] = c}
  BY DEF FigureInv
<1>2. CASE f \in near
  <2>1. f \in Placed(at) /\ drawnIn = {}
    BY <1>1, <1>2 DEF FigureInv
  <2> QED BY <1>2, <2>1, FS_EmptySet
<1>3. CASE f \in Placed(at) \ near
  <2>1. drawnIn = {ChunkAt[at[f]]}
    BY <1>1, <1>3
  <2>2. Cardinality({ChunkAt[at[f]]}) = 1
    BY FS_Singleton
  <2>3. Cardinality(drawnIn) + (IF f \in near THEN 1 ELSE 0) = 1
    BY <1>3, <2>1, <2>2
  <2> QED BY <1>3, <2>3
<1>4. CASE f \notin Placed(at)
  <2>1. f \notin near /\ drawnIn = {}
    BY <1>1, <1>4 DEF FigureInv
  <2> QED BY <1>4, <2>1
<1> QED BY <1>2, <1>3, <1>4

LEMMA FigureTypesOK == ASSUME FigureTypes, FigureInv PROVE AgentViewTypeOK
<1>1. near \subseteq Figures
  BY DEF FigureInv, Placed
<1>2. offsets \in Nat
  BY DEF FigureInv, FigureTypes
<1> QED BY <1>1, <1>2 DEF FigureTypes, FigureInv, AgentViewTypeOK

\* Every agent on a hex is drawn once, the shake leaves nothing behind, and sparks are of
\* figures that are drawn: for any agents, hexes and standpoints.
THEOREM FiguresStayDrawn == AgentViewSpec => [](DrawnOnce /\ ShakeIsUndone /\ JuiceIsDrawn)
<1>1. FigureTypes /\ FigureInv => DrawnOnce /\ ShakeIsUndone /\ JuiceIsDrawn
  BY FiguresAreDrawn DEF FigureInv, ShakeIsUndone, JuiceIsDrawn
<1>2. AgentViewInit => FigureTypes /\ FigureInv
  BY FigureStart
<1>3. (FigureTypes /\ FigureInv) /\ [AgentViewNext]_figureVars => (FigureTypes /\ FigureInv)'
  BY FigureStep
<1> QED BY <1>1, <1>2, <1>3, PTL DEF AgentViewSpec

-----------------------------------------------------------------------------
(* TxFlow: the toasts. *)

Resting == {"idle", "success", "error"}
Working == {"building", "signing", "sending", "confirming"}
Live(f) == stage[f] \in {"requesting", "signing", "sending", "polling", "caught"}

\* A claim raises its toasts itself: one flow at a time has the button, and the only toast
\* is the one it holds, which goes with it.
ClaimToasts ==
  /\ \A f, g \in Flows : stage[f] \notin {"none", "done"} /\ stage[g] \notin {"none", "done"} => f = g
  /\ \A f \in Flows : stage[f] \notin {"none", "done"} => txStatus \in Working
  /\ sticky \subseteq {activeToastId}
  /\ (\A f \in Flows : stage[f] \in {"none", "done", "requesting"}) => sticky = {}

\* Where the flow is and what React's state says of it.
StageStatus(f) ==
  /\ stage[f] = "requesting" => txStatus = "idle"
  /\ stage[f] = "signing" => txStatus = "signing"
  /\ stage[f] = "sending" => txStatus = "sending"
  /\ stage[f] = "polling" => txStatus = "confirming" /\ signature # <<>>
  /\ stage[f] = "caught" => txStatus \in {"signing", "sending", "confirming"}

\* The toasts of a deploy follow what was drawn last: at rest there is none.
DeployToasts ==
  /\ \A f, g \in Flows : Live(f) /\ Live(g) => f = g
  /\ \A f \in Flows : StageStatus(f)
  /\ (\A f \in Flows : ~Live(f)) => txStatus \in Resting
  /\ txStatus = "success" => signature # <<>>
  /\ sticky \subseteq {activeToastId}
  /\ seen[1] \in Resting => sticky = {}
  /\ txStatus = "idle" => seen[1] \in Resting

ToastInv ==
  /\ kind = "claim" => ClaimToasts
  /\ kind # "claim" => crossed \in BOOLEAN /\ (~crossed => DeployToasts)

LEMMA ToastStart == ASSUME TxFlowInit PROVE ToastInv
  BY DEF TxFlowInit, ToastInv, ClaimToasts, DeployToasts, Live, StageStatus, Resting

\* What a flow of a claim does to the button and to the toasts.
LEMMA ClaimGoes ==
  ASSUME TxInv, ClaimToasts, NEW f \in Flows, NEW s \in Stages, stage' = [stage EXCEPT ![f] = s],
         \A g \in Flows : stage[g] \notin {"none", "done"} => g = f,
         sticky' \subseteq {activeToastId'}, s \notin {"none", "done"} => txStatus' \in Working,
         s \in {"none", "done", "requesting"} => sticky' = {}
  PROVE  ClaimToasts'
<1>1. stage' \in [Flows -> Stages] /\ stage'[f] = s /\ \A g \in Flows : g # f => stage'[g] = stage[g]
  BY DEF TxInv, TxTypes
<1>2. \A g \in Flows : stage'[g] \notin {"none", "done"} => g = f /\ s \notin {"none", "done"}
  BY <1>1
<1> QED BY <1>1, <1>2 DEF ClaimToasts

LEMMA OneToast ==
  ASSUME sticky \subseteq {activeToastId}
  PROVE  /\ ShowSending => sticky' \subseteq {activeToastId'}
         /\ ShowConfirming => sticky' \subseteq {activeToastId'}
         /\ \A what : ShowEnd(what) => sticky' = {}
  BY DEF ShowSending, ShowConfirming, ShowEnd, toasts

LEMMA ClaimToastStep ==
  ASSUME TxInv, ClaimToasts, kind = "claim", TxFlowNext PROVE ClaimToasts'
<1> USE DEF Goes, Ends
<1>1. ASSUME NEW f \in Flows, stage[f] \notin {"none", "done"}
      PROVE  /\ \A g \in Flows : stage[g] \notin {"none", "done"} => g = f
             /\ txStatus \in Working /\ sticky \subseteq {activeToastId}
  BY <1>1 DEF ClaimToasts
<1>2. ASSUME NEW f \in Flows, PressClaim(f) PROVE ClaimToasts'
  <2>1. /\ stage' = [stage EXCEPT ![f] = "requesting"] /\ txStatus' = "building"
        /\ sticky' = sticky /\ txStatus \notin Working
    BY <1>2 DEF PressClaim, Starts, Processing, Working
  <2>2. \A g \in Flows : stage[g] \in {"none", "done"}
    BY <2>1 DEF ClaimToasts
  <2>3. sticky = {}
    BY <2>2 DEF ClaimToasts
  <2> QED BY <2>1, <2>2, <2>3, ClaimGoes DEF Stages, Working
<1>3. ASSUME NEW f \in Flows, NEW ok \in BOOLEAN, ClaimBuilt(f, ok) PROVE ClaimToasts'
  <2>1. stage[f] = "requesting"
    BY <1>3 DEF ClaimBuilt
  <2>2. CASE StartsTry(f, 0)
    <3>1. stage' = [stage EXCEPT ![f] = "signing"] /\ txStatus' = "signing" /\ ShowSending
      BY <1>3, <2>2 DEF ClaimBuilt, StartsTry
    <3> QED BY <1>1, <2>1, <3>1, OneToast, ClaimGoes DEF Stages, Working
  <2>3. CASE Breaks(f, "failed")
    <3>1. stage' = [stage EXCEPT ![f] = "done"] /\ ShowEnd("failed")
      BY <1>3, <2>3 DEF ClaimBuilt, Breaks
    <3> QED BY <1>1, <2>1, <3>1, OneToast, ClaimGoes DEF Stages, Working
  <2> QED BY <1>3, <2>2, <2>3 DEF ClaimBuilt
<1>4. ASSUME NEW f \in Flows, NEW agrees \in BOOLEAN, Signed(f, agrees) PROVE ClaimToasts'
  <2>1. stage[f] = "signing" /\ kind = "claim"
    BY <1>4 DEF Signed
  <2>2. CASE stage' = [stage EXCEPT ![f] = "sending"] /\ txStatus' = "sending" /\ UNCHANGED toasts
    BY <1>1, <2>1, <2>2, ClaimGoes DEF Stages, Working, toasts
  <2>3. CASE stage' = [stage EXCEPT ![f] = "done"] /\ ShowEnd("failed")
    BY <1>1, <2>1, <2>3, OneToast, ClaimGoes DEF Stages
  <2> QED BY <1>4, <2>1, <2>2, <2>3 DEF Signed, Breaks
<1>5. ASSUME NEW f \in Flows, NEW taken \in BOOLEAN, NEW answered \in BOOLEAN,
             Submitted(f, taken, answered)
      PROVE  ClaimToasts'
  <2>1. stage[f] = "sending"
    BY <1>5 DEF Submitted
  <2>2. CASE stage' = [stage EXCEPT ![f] = "polling"] /\ txStatus' = "confirming" /\ ShowConfirming
    BY <1>1, <2>1, <2>2, OneToast, ClaimGoes DEF Stages, Working
  <2>3. CASE stage' = [stage EXCEPT ![f] = "caught"] /\ UNCHANGED <<txStatus, toasts>>
    BY <1>1, <2>1, <2>3, ClaimGoes DEF Stages, toasts
  <2> QED BY <1>5, <2>2, <2>3 DEF Submitted
<1>6. ASSUME NEW f \in Flows, NEW ok \in BOOLEAN, Polled(f, ok) PROVE ClaimToasts'
  <2>1. /\ stage[f] = "polling" /\ UNCHANGED <<txStatus, toasts>>
        /\ \E s \in {"caught", "server"} : stage' = [stage EXCEPT ![f] = s]
    BY <1>6 DEF Polled
  <2> QED BY <1>1, <2>1, ClaimGoes DEF Stages, toasts
<1>7. ASSUME NEW f \in Flows, NEW ok \in BOOLEAN, Recovers(f, ok) PROVE ClaimToasts'
  <2>1. stage[f] = "caught"
    BY <1>7 DEF Recovers
  <2>2. CASE stage' = [stage EXCEPT ![f] = "signing"] /\ txStatus' = "signing" /\ ShowSending
    BY <1>1, <2>1, <2>2, OneToast, ClaimGoes DEF Stages, Working
  <2>3. CASE stage' = [stage EXCEPT ![f] = "done"] /\ ShowEnd("failed")
    BY <1>1, <2>1, <2>3, OneToast, ClaimGoes DEF Stages
  <2> QED BY <1>7, <2>2, <2>3 DEF Recovers, Breaks, StartsTry
<1>8. ASSUME NEW f \in Flows, NEW ok \in BOOLEAN, ClaimConfirmed(f, ok) PROVE ClaimToasts'
  <2>1. stage[f] = "server"
    BY <1>8 DEF ClaimConfirmed
  <2>2. CASE stage' = [stage EXCEPT ![f] = "done"] /\ ShowEnd("confirmed")
    BY <1>1, <2>1, <2>2, OneToast, ClaimGoes DEF Stages
  <2>3. CASE stage' = [stage EXCEPT ![f] = "caught"] /\ UNCHANGED <<txStatus, toasts>>
    BY <1>1, <2>1, <2>3, ClaimGoes DEF Stages, toasts
  <2> QED BY <1>8, <2>2, <2>3 DEF ClaimConfirmed
<1>9. ASSUME NEW f \in Flows, Lands(f) \/ HeightPasses(f) PROVE ClaimToasts'
  BY <1>9 DEF Lands, HeightPasses, ClaimToasts, hook, toasts
<1>10. CASE CloseToast
  BY <1>10 DEF CloseToast, ClaimToasts, hook
<1>11. ASSUME NEW f \in Flows, TxAnswer(f) PROVE ClaimToasts'
  <2>1. PICK ok \in BOOLEAN : \/ DeployRequested(f, ok) \/ ClaimBuilt(f, ok)
                            \/ Polled(f, ok) \/ Recovers(f, ok)
                            \/ ClaimConfirmed(f, ok) \/ DeployConfirmed(f, ok)
                            \/ \E answered \in BOOLEAN : Submitted(f, ok, answered)
    BY <1>11 DEF TxAnswer
  <2>2. ~DeployRequested(f, ok) /\ ~DeployConfirmed(f, ok)
    BY DEF DeployRequested, DeployConfirmed
  <2> QED BY <1>3, <1>5, <1>6, <1>7, <1>8, <2>1, <2>2
<1>12. ~Render /\ \A f \in Flows : ~PressDeploy(f)
  BY DEF PressDeploy, Render
<1> QED BY <1>2, <1>4, <1>9, <1>10, <1>11, <1>12 DEF TxFlowNext

\* What a flow of a deploy does: it is the live one, and the toasts stand.
LEMMA DeployGoes ==
  ASSUME TxInv, DeployToasts, NEW f \in Flows, NEW s \in Stages, stage' = [stage EXCEPT ![f] = s],
         Live(f), UNCHANGED toasts, UNCHANGED seen,
         Live(f)' => StageStatus(f)', ~Live(f)' => txStatus' \in Resting,
         txStatus' = "success" => signature' # <<>>,
         txStatus' = "idle" => txStatus = "idle"
  PROVE  DeployToasts'
<1>1. stage'[f] = s /\ \A g \in Flows : g # f => stage'[g] = stage[g]
  BY DEF TxInv, TxTypes
<1>2. \A g \in Flows : g # f => ~Live(g)
  BY DEF DeployToasts
<1>3. \A g \in Flows : g # f => ~Live(g)'
  BY <1>1, <1>2 DEF Live
<1>4. \A g \in Flows : ~Live(g)' => StageStatus(g)'
  BY DEF Live, StageStatus
<1>5. \A g \in Flows : StageStatus(g)'
  BY <1>3, <1>4
<1>6. (\A g \in Flows : ~Live(g)') => txStatus' \in Resting
  OBVIOUS
<1>7. sticky' \subseteq {activeToastId'} /\ seen' = seen /\ sticky' = sticky
  BY DEF DeployToasts, toasts
<1>8. seen'[1] \in Resting => sticky' = {}
  BY <1>7 DEF DeployToasts
<1>9. txStatus' = "idle" => seen'[1] \in Resting
  BY <1>7 DEF DeployToasts
<1>10. \A g, h \in Flows : Live(g)' /\ Live(h)' => g = h
  BY <1>3
<1> QED BY <1>5, <1>6, <1>7, <1>8, <1>9, <1>10 DEF DeployToasts

LEMMA DeployStands ==
  ASSUME DeployToasts, UNCHANGED <<stage, txStatus, signature, toasts, seen>> PROVE DeployToasts'
  BY DEF DeployToasts, Live, StageStatus, toasts

LEMMA DeployPressed ==
  ASSUME TxInv, DeployToasts, NEW f \in Flows, PressDeploy(f), ~crossed' PROVE DeployToasts'
<1>1. /\ stage' = [stage EXCEPT ![f] = "requesting"] /\ txStatus' = "idle"
      /\ UNCHANGED <<seen, toasts>> /\ seen = Deps
      /\ \A g \in Flows : stage[g] \in {"none", "server", "done"}
  BY DEF PressDeploy, Starts, Goes, toasts
<1>2. stage'[f] = "requesting" /\ \A g \in Flows : g # f => stage'[g] = stage[g]
  BY <1>1 DEF TxInv, TxTypes
<1>3. txStatus \in Resting /\ seen[1] = txStatus
  BY <1>1 DEF DeployToasts, Live, Deps
<1>4. Live(f)' /\ StageStatus(f)' /\ \A g \in Flows : g # f => ~Live(g)' /\ StageStatus(g)'
  BY <1>1, <1>2 DEF Live, StageStatus
<1>5. seen'[1] \in Resting /\ sticky' = {}
  BY <1>1, <1>3 DEF DeployToasts, toasts
<1> QED BY <1>1, <1>4, <1>5 DEF DeployToasts

LEMMA DeployRender == ASSUME DeployToasts, Render PROVE DeployToasts'
<1>1. /\ UNCHANGED <<stage, txStatus, signature>> /\ seen'[1] = txStatus
  BY DEF Render, hook, Deps
<1>2. sticky \subseteq {activeToastId} /\ (txStatus = "idle" => sticky = {})
  BY DEF DeployToasts
<1>3. /\ sticky' \subseteq {activeToastId'}
      /\ txStatus \in Resting => sticky' = {}
  <2>1. CASE txStatus = "idle"
    <3>1. UNCHANGED sticky
      BY <2>1 DEF Render
    <3> QED BY <1>2, <2>1, <3>1
  <2>2. CASE txStatus = "success"
    <3>1. \E what : ShowEnd(what)
      BY <2>2 DEF Render, DeployToasts
    <3> QED BY <1>2, <3>1, OneToast
  <2>3. CASE txStatus = "error"
    <3>1. (\E what : ShowEnd(what)) \/ (seen[1] = "error" /\ UNCHANGED toasts)
      BY <2>3 DEF Render
    <3>2. seen[1] = "error" => sticky = {}
      BY DEF DeployToasts, Resting
    <3> QED BY <1>2, <3>1, <3>2, OneToast DEF toasts
  <2>4. CASE txStatus \notin Resting
    <3>1. ShowSending \/ ShowConfirming \/ UNCHANGED toasts
      BY <2>4 DEF Render, Resting
    <3> QED BY <1>2, <2>4, <3>1, OneToast DEF toasts
  <2> QED BY <2>1, <2>2, <2>3, <2>4 DEF Resting
<1>4. \A f \in Flows : (Live(f)' <=> Live(f)) /\ (StageStatus(f)' <=> StageStatus(f))
  BY <1>1 DEF Live, StageStatus
<1> QED BY <1>1, <1>3, <1>4 DEF DeployToasts, Resting

LEMMA DeployToastStep ==
  ASSUME TxInv, DeployToasts, kind # "claim", TxFlowNext, ~crossed' PROVE DeployToasts'
<1> USE DEF Goes, Ends
<1>1. ASSUME NEW f \in Flows, NEW ok \in BOOLEAN, DeployRequested(f, ok) PROVE DeployToasts'
  <2>1. stage[f] = "requesting" /\ Live(f) /\ UNCHANGED <<seen, toasts>> /\ txStatus = "idle"
    BY <1>1 DEF DeployRequested, StartsTry, Live, DeployToasts, StageStatus
  <2>2. CASE /\ \E s \in {"server", "done"} : stage' = [stage EXCEPT ![f] = s]
             /\ UNCHANGED txStatus
    <3>1. PICK s \in {"server", "done"} : stage' = [stage EXCEPT ![f] = s]
      BY <2>2
    <3>2. stage'[f] = s
      BY <3>1 DEF TxInv, TxTypes
    <3>3. ~Live(f)' /\ txStatus' = "idle"
      BY <2>1, <2>2, <3>2 DEF Live
    <3> QED BY <2>1, <3>1, <3>3, DeployGoes DEF Stages, Resting
  <2>3. CASE stage' = [stage EXCEPT ![f] = "signing"] /\ txStatus' = "signing"
    <3>1. stage'[f] = "signing"
      BY <2>3 DEF TxInv, TxTypes
    <3>2. Live(f)' /\ StageStatus(f)'
      BY <2>3, <3>1 DEF Live, StageStatus
    <3> QED BY <2>1, <2>3, <3>2, DeployGoes DEF Stages
  <2> QED BY <1>1, <2>2, <2>3 DEF DeployRequested, StartsTry
<1>2. ASSUME NEW f \in Flows, NEW agrees \in BOOLEAN, Signed(f, agrees) PROVE DeployToasts'
  <2>1. stage[f] = "signing" /\ Live(f) /\ UNCHANGED <<seen, toasts>> /\ txStatus = "signing"
    BY <1>2 DEF Signed, Live, DeployToasts, StageStatus
  <2>2. \/ stage' = [stage EXCEPT ![f] = "sending"] /\ txStatus' = "sending"
        \/ stage' = [stage EXCEPT ![f] = "caught"] /\ txStatus' = txStatus
    BY <1>2 DEF Signed
  <2>3. PICK s \in {"sending", "caught"} : stage' = [stage EXCEPT ![f] = s]
    BY <2>2
  <2>4. stage'[f] = s
    BY <2>3 DEF TxInv, TxTypes
  <2>5. Live(f)' /\ StageStatus(f)' /\ txStatus' \in {"signing", "sending"}
    BY <2>1, <2>2, <2>4 DEF Live, StageStatus, TxInv, TxTypes
  <2> QED BY <2>1, <2>3, <2>5, DeployGoes DEF Stages
<1>3. ASSUME NEW f \in Flows, NEW taken \in BOOLEAN, NEW answered \in BOOLEAN,
             Submitted(f, taken, answered)
      PROVE  DeployToasts'
  <2>1. stage[f] = "sending" /\ Live(f) /\ UNCHANGED <<seen, toasts>> /\ txStatus = "sending"
    BY <1>3 DEF Submitted, Live, DeployToasts, StageStatus
  <2>2. \/ /\ stage' = [stage EXCEPT ![f] = "polling"] /\ txStatus' = "confirming"
           /\ signature' = <<f, try[f]>>
        \/ stage' = [stage EXCEPT ![f] = "caught"] /\ txStatus' = txStatus
    BY <1>3 DEF Submitted
  <2>3. PICK s \in {"polling", "caught"} : stage' = [stage EXCEPT ![f] = s]
    BY <2>2
  <2>5. <<f, try[f]>> # <<>>
    OBVIOUS
  <2>6. \/ stage'[f] = "polling" /\ txStatus' = "confirming" /\ signature' # <<>>
        \/ stage'[f] = "caught" /\ txStatus' = "sending"
    BY <2>1, <2>2, <2>5 DEF TxInv, TxTypes
  <2>7. Live(f)' /\ StageStatus(f)' /\ txStatus' \in {"sending", "confirming"}
    BY <2>6 DEF Live, StageStatus
  <2> QED BY <2>1, <2>3, <2>7, DeployGoes DEF Stages
<1>4. ASSUME NEW f \in Flows, NEW ok \in BOOLEAN, Polled(f, ok) PROVE DeployToasts'
  <2>1. /\ stage[f] = "polling" /\ Live(f) /\ UNCHANGED <<seen, toasts, signature>>
        /\ txStatus = "confirming" /\ signature # <<>>
    BY <1>4 DEF Polled, Live, DeployToasts, StageStatus
  <2>2. \/ stage' = [stage EXCEPT ![f] = "server"] /\ txStatus' = "success"
        \/ stage' = [stage EXCEPT ![f] = "caught"] /\ txStatus' = txStatus
    BY <1>4 DEF Polled
  <2>3. PICK s \in {"server", "caught"} : stage' = [stage EXCEPT ![f] = s]
    BY <2>2
  <2>4. stage'[f] = s
    BY <2>3 DEF TxInv, TxTypes
  <2>5. /\ Live(f)' => StageStatus(f)'
        /\ ~Live(f)' => txStatus' \in Resting
        /\ txStatus' \in {"success", "confirming"}
    BY <2>1, <2>2, <2>4 DEF Live, StageStatus, TxInv, TxTypes, Resting
  <2> QED BY <2>1, <2>3, <2>5, DeployGoes DEF Stages
<1>5. ASSUME NEW f \in Flows, NEW ok \in BOOLEAN, Recovers(f, ok) PROVE DeployToasts'
  <2>1. stage[f] = "caught" /\ Live(f) /\ UNCHANGED <<seen, toasts>>
    BY <1>5 DEF Recovers, Live, Breaks, StartsTry
  <2>2. \/ stage' = [stage EXCEPT ![f] = "done"] /\ txStatus' = "error"
        \/ stage' = [stage EXCEPT ![f] = "signing"] /\ txStatus' = "signing"
    BY <1>5 DEF Recovers, Breaks, StartsTry
  <2>3. PICK s \in {"done", "signing"} : stage' = [stage EXCEPT ![f] = s]
    BY <2>2
  <2>4. stage'[f] = s
    BY <2>3 DEF TxInv, TxTypes
  <2>5. /\ Live(f)' => StageStatus(f)'
        /\ ~Live(f)' => txStatus' \in Resting
        /\ txStatus' \in {"error", "signing"}
    BY <2>2, <2>4 DEF Live, StageStatus, TxInv, TxTypes, Resting
  <2> QED BY <2>1, <2>3, <2>5, DeployGoes DEF Stages
<1>6. ASSUME NEW f \in Flows, NEW ok \in BOOLEAN, DeployConfirmed(f, ok) PROVE DeployToasts'
  <2>1. /\ stage[f] = "server" /\ stage' = [stage EXCEPT ![f] = "done"]
        /\ UNCHANGED <<seen, sticky, activeToastId, txStatus, signature>>
    BY <1>6 DEF DeployConfirmed
  <2>2. \A g \in Flows : (Live(g)' <=> Live(g)) /\ (StageStatus(g) => StageStatus(g)')
    BY <2>1 DEF TxInv, TxTypes, Live, StageStatus
  <2> QED BY <2>1, <2>2 DEF DeployToasts
<1>7. ASSUME NEW f \in Flows, Lands(f) \/ HeightPasses(f) PROVE DeployToasts'
  BY <1>7, DeployStands DEF Lands, HeightPasses, hook
<1>8. CASE CloseToast
  BY <1>8 DEF CloseToast, DeployToasts, Live, StageStatus, hook
<1>9. ASSUME NEW f \in Flows, TxAnswer(f) PROVE DeployToasts'
  <2>1. PICK ok \in BOOLEAN : \/ DeployRequested(f, ok) \/ ClaimBuilt(f, ok)
                            \/ Polled(f, ok) \/ Recovers(f, ok)
                            \/ ClaimConfirmed(f, ok) \/ DeployConfirmed(f, ok)
                            \/ \E answered \in BOOLEAN : Submitted(f, ok, answered)
    BY <1>9 DEF TxAnswer
  <2>2. ~ClaimBuilt(f, ok) /\ ~ClaimConfirmed(f, ok)
    BY DEF ClaimBuilt, ClaimConfirmed
  <2> QED BY <1>1, <1>3, <1>4, <1>5, <1>6, <2>1, <2>2
<1>10. \A f \in Flows : ~PressClaim(f)
  BY DEF PressClaim
<1> QED BY <1>2, <1>7, <1>8, <1>9, <1>10, DeployPressed, DeployRender DEF TxFlowNext

LEMMA CrossingStays ==
  ASSUME crossed \in BOOLEAN, TxFlowNext PROVE crossed' \in BOOLEAN /\ (crossed => crossed')
<1>1. UNCHANGED crossed \/ \E f \in Flows : Starts(f)
  BY DEF TxFlowNext, TxAnswer, PressDeploy, PressClaim, DeployRequested, ClaimBuilt, Signed,
         Submitted, Polled, Recovers, ClaimConfirmed, DeployConfirmed, Lands, HeightPasses,
         Render, CloseToast
<1> QED BY <1>1 DEF Starts

LEMMA KindStays == ASSUME TxFlowNext PROVE kind' = kind
<1>1. ASSUME NEW f \in Flows, PressDeploy(f) \/ PressClaim(f) PROVE kind' = kind
  BY <1>1 DEF PressDeploy, PressClaim, Starts
<1>2. ASSUME NEW f \in Flows, TxAnswer(f) PROVE kind' = kind
  <2>1. PICK ok \in BOOLEAN : \/ DeployRequested(f, ok) \/ ClaimBuilt(f, ok)
                              \/ Polled(f, ok) \/ Recovers(f, ok)
                              \/ ClaimConfirmed(f, ok) \/ DeployConfirmed(f, ok)
                              \/ \E answered \in BOOLEAN : Submitted(f, ok, answered)
    BY <1>2 DEF TxAnswer
  <2>2. CASE DeployRequested(f, ok) \/ ClaimBuilt(f, ok)
    BY <2>2 DEF DeployRequested, ClaimBuilt
  <2>3. CASE Polled(f, ok) \/ Recovers(f, ok)
    BY <2>3 DEF Polled, Recovers
  <2>4. CASE ClaimConfirmed(f, ok) \/ DeployConfirmed(f, ok)
    BY <2>4 DEF ClaimConfirmed, DeployConfirmed
  <2>5. CASE \E answered \in BOOLEAN : Submitted(f, ok, answered)
    BY <2>5 DEF Submitted
  <2> QED BY <2>1, <2>2, <2>3, <2>4, <2>5
<1>3. ASSUME NEW f \in Flows, Lands(f) \/ HeightPasses(f) PROVE kind' = kind
  BY <1>3 DEF Lands, HeightPasses
<1>4. ASSUME NEW f \in Flows, NEW agrees \in BOOLEAN, Signed(f, agrees) PROVE kind' = kind
  BY <1>4 DEF Signed
<1>5. CASE Render \/ CloseToast
  BY <1>5 DEF Render, CloseToast
<1> QED BY <1>1, <1>2, <1>3, <1>4, <1>5 DEF TxFlowNext

LEMMA ToastStep == ASSUME TxInv, ToastInv, [TxFlowNext]_txFlowVars PROVE ToastInv'
<1>1. CASE UNCHANGED txFlowVars
  <2>1. UNCHANGED <<kind, crossed, stage, txStatus, signature, seen, sticky, activeToastId>>
    BY <1>1 DEF txFlowVars, hook, toasts
  <2>2. ClaimToasts => ClaimToasts'
    BY <2>1 DEF ClaimToasts
  <2>3. DeployToasts => DeployToasts'
    BY <2>1, DeployStands, <1>1 DEF txFlowVars
  <2> QED BY <2>1, <2>2, <2>3 DEF ToastInv
<1>2. CASE TxFlowNext
  <2>1. kind' = kind
    BY <1>2, KindStays
  <2> QED BY <1>2, <2>1, ClaimToastStep, DeployToastStep, CrossingStays DEF ToastInv
<1> QED BY <1>1, <1>2

LEMMA ToastsGo == ASSUME ToastInv PROVE NoToastStays
<1>1. CASE kind = "claim"
  BY <1>1 DEF ToastInv, ClaimToasts, NoToastStays
<1>2. CASE kind # "claim"
  <2>1. SUFFICES ASSUME ~crossed, \A f \in Flows : stage[f] \in {"none", "done"}, Deps = seen
                 PROVE  sticky = {}
    BY <1>2 DEF NoToastStays
  <2>2. txStatus \in Resting /\ seen[1] = txStatus
    BY <1>2, <2>1 DEF ToastInv, DeployToasts, Live, Deps
  <2> QED BY <1>2, <2>1, <2>2 DEF ToastInv, DeployToasts
<1> QED BY <1>1, <1>2

\* A paid flow is safe for any number of presses and retries, whichever renders React
\* leaves out, whatever the user closes and the chain refuses: a claim pays once, an expired
\* flow has nothing under way, and no toast stays.
THEOREM PaidFlowStaysSafe == TxFlowSpec => []PaidFlowIsSafe
<1>1. TxFlowInit => TxInv /\ ToastInv
  BY TxStart, ToastStart
<1>2. (TxInv /\ ToastInv) /\ [TxFlowNext]_txFlowVars => (TxInv /\ ToastInv)'
  BY TxStep, ToastStep
<1>3. [](TxInv /\ ToastInv) => []NoToastStays
  <2>1. TxInv /\ ToastInv => NoToastStays
    BY ToastsGo
  <2> QED BY <2>1, PTL
<1> QED BY <1>1, <1>2, <1>3, ExpiredStaysOver, ClaimsPayOnce, PTL DEF TxFlowSpec, PaidFlowIsSafe

-----------------------------------------------------------------------------
(* WorldClock: the table of the phases. *)

\* A nonempty set of numbers up to N has a least one: the smallest of the intervals that
\* end in it.
LEMMA LeastNat ==
  ASSUME NEW N \in Nat, NEW T \in SUBSET (0..N), T # {}
  PROVE  \E n \in T : \A m \in T : n <= m
<1> DEFINE S == 0..N  U == {0..n : n \in T}
<1>1. IsFiniteSet(S)
  BY FS_Interval
<1>2. U \subseteq SUBSET S /\ U # {}
  <2>1. \A n \in T : 0..n \subseteq S
    OBVIOUS
  <2> QED BY <2>1
<1>3. \A s \in SUBSET S : s \in FiniteSubsetsOf(S)
  BY <1>1, FS_Subset DEF FiniteSubsetsOf
<1>4. IsWellFoundedOn(StrictSubsetOrdering(S), FiniteSubsetsOf(S))
  BY FS_StrictSubsetOrderingWellFounded
<1>5. PICK u \in U : \A v \in U : <<v, u>> \notin StrictSubsetOrdering(S)
  <2> HIDE DEF S, U
  <2> QED BY <1>2, <1>3, <1>4, WFMin
<1>6. PICK n \in T : u = 0..n
  BY <1>5
<1>7. ASSUME NEW m \in T, m < n PROVE FALSE
  <2>1. 0..m \in U /\ 0..m \in SUBSET S /\ u \in SUBSET S
    BY <1>2, <1>6
  <2>2. 0..m \subseteq u /\ 0..m # u
    BY <1>6, <1>7
  <2>3. <<0..m, u>> \in StrictSubsetOrdering(S)
    BY <2>1, <2>2 DEF StrictSubsetOrdering
  <2> QED BY <1>5, <2>1, <2>3
<1> QED BY <1>7

\* The number of phases, and the length of the n-th.
PhaseCount == Len(PHASE_ORDER)
Lasts(n) == PHASE_DURATIONS[PHASE_ORDER[n]]

LEMMA PhasesAre ==
  /\ PhaseCount \in Nat \ {0} /\ Phases = 1..PhaseCount
  /\ \A n \in 1..PhaseCount : Lasts(n) \in Nat \ {0}
  BY ClockAssumption DEF Phases, PhaseCount, Lasts

Adds(e, n) == e[n] = IF n = 0 THEN 0 ELSE e[n - 1] + Lasts(n)

LEMMA ElapsedAdds == \A n \in 0..PhaseCount : Adds(Elapsed, n)
<1> DEFINE N == PhaseCount
           Upto(m) == \E e : \A i \in 0..m : Adds(e, i)
           Bad == {m \in 0..N : ~Upto(m)}
<1>n. N \in Nat
  BY PhasesAre
<1> HIDE DEF N
<1>1. Bad = {}
  <2> SUFFICES ASSUME Bad # {} PROVE FALSE
    OBVIOUS
  <2>1. Bad \in SUBSET (0..N) /\ Bad # {}
    BY <1>n
  <2> HIDE DEF Bad
  <2>2. PICK m \in Bad : \A i \in Bad : m <= i
    BY <1>n, <2>1, LeastNat
  <2>3. m \in 0..N /\ ~Upto(m)
    BY <2>2 DEF Bad
  <2>4. CASE m = 0
    <3> DEFINE e == [i \in {0} |-> 0]
    <3>1. \A i \in 0..m : Adds(e, i)
      BY <2>4 DEF Adds
    <3> QED BY <2>3, <3>1
  <2>5. CASE m # 0
    <3>1. m - 1 \in 0..N /\ m - 1 \notin Bad
      BY <1>n, <2>1, <2>2, <2>3, <2>5
    <3>2. Upto(m - 1)
      BY <3>1 DEF Bad
    <3>3. PICK h : \A i \in 0..(m - 1) : Adds(h, i)
      BY <3>2
    <3> DEFINE e == [i \in 0..m |-> IF i < m THEN h[i] ELSE h[m - 1] + Lasts(m)]
    <3>4. ASSUME NEW i \in 0..m PROVE Adds(e, i)
      <4>1. i \in 0..N /\ m \in Nat
        BY <1>n, <2>3
      <4>2. CASE i = m
        <5>1. e[m - 1] = h[m - 1]
          BY <2>5, <4>1
        <5>2. e[m] = h[m - 1] + Lasts(m)
          BY <4>1
        <5> HIDE DEF e
        <5> QED BY <2>5, <4>2, <5>1, <5>2 DEF Adds
      <4>3. CASE i < m
        <5>1. Adds(h, i)
          BY <3>3, <4>1, <4>3
        <5>2. e[i] = h[i] /\ (i # 0 => e[i - 1] = h[i - 1])
          BY <4>1, <4>3
        <5> HIDE DEF e
        <5> QED BY <5>1, <5>2 DEF Adds
      <4> QED BY <4>1, <4>2, <4>3
    <3> HIDE DEF e
    <3> QED BY <2>3, <3>4
  <2> QED BY <2>4, <2>5
<1>2. Upto(N)
  <2> HIDE DEF Upto
  <2> QED BY <1>n, <1>1
<1>3. PICK h : \A i \in 0..N : Adds(h, i)
  BY <1>2
<1> DEFINE e == [i \in 0..N |-> h[i]]
<1>4. ASSUME NEW i \in 0..N PROVE e[i] = IF i = 0 THEN 0 ELSE e[i - 1] + Lasts(i)
  <2>1. Adds(h, i)
    BY <1>3
  <2>2. e[i] = h[i] /\ (i # 0 => e[i - 1] = h[i - 1])
    BY <1>n
  <2> HIDE DEF e
  <2> QED BY <2>1, <2>2 DEF Adds
<1>5. e = [i \in 0..N |-> e[i]]
  OBVIOUS
<1> HIDE DEF e
<1>6. e = [i \in 0..N |-> IF i = 0 THEN 0 ELSE e[i - 1] + Lasts(i)]
  BY <1>4, <1>5
<1>7. Elapsed = CHOOSE g : g = [n \in 0..Len(PHASE_ORDER) |->
        IF n = 0 THEN 0 ELSE g[n - 1] + PHASE_DURATIONS[PHASE_ORDER[n]]]
  BY DEF Elapsed
<1>8. Elapsed = [i \in 0..N |-> IF i = 0 THEN 0 ELSE Elapsed[i - 1] + Lasts(i)]
  BY <1>6, <1>7 DEF N, PhaseCount, Lasts
<1> QED BY <1>8 DEF Adds, N

\* Every phase ends later than the one before.
LEMMA ElapsedGrows ==
  \A n \in 0..PhaseCount : Elapsed[n] \in Nat /\ \A m \in 0..n : m < n => Elapsed[m] < Elapsed[n]
<1> DEFINE Right(n) == Elapsed[n] \in Nat /\ \A m \in 0..n : m < n => Elapsed[m] < Elapsed[n]
           Bad == {n \in 0..PhaseCount : ~Right(n)}
<1>n. PhaseCount \in Nat
  BY PhasesAre
<1>1. Bad = {}
  <2> SUFFICES ASSUME Bad # {} PROVE FALSE
    OBVIOUS
  <2>1. Bad \in SUBSET (0..PhaseCount) /\ Bad # {}
    BY <1>n
  <2> HIDE DEF Bad
  <2>2. PICK n \in Bad : \A i \in Bad : n <= i
    BY <1>n, <2>1, LeastNat
  <2>3. n \in 0..PhaseCount /\ ~Right(n)
    BY <2>2 DEF Bad
  <2>4. Elapsed[n] = IF n = 0 THEN 0 ELSE Elapsed[n - 1] + Lasts(n)
    BY <2>3, ElapsedAdds DEF Adds
  <2>5. CASE n = 0
    BY <2>3, <2>4, <2>5
  <2>6. CASE n # 0
    <3>1. n - 1 \in 0..PhaseCount /\ n - 1 \notin Bad
      BY <1>n, <2>1, <2>2, <2>3, <2>6
    <3>2. Right(n - 1)
      BY <3>1 DEF Bad
    <3>3. Lasts(n) \in Nat \ {0}
      BY <2>3, <2>6, PhasesAre
    <3>4. Elapsed[n] \in Nat /\ Elapsed[n - 1] < Elapsed[n] /\ Elapsed[n - 1] \in Nat
      BY <2>4, <2>6, <3>2, <3>3
    <3>5. ASSUME NEW m \in 0..n, m < n PROVE Elapsed[m] < Elapsed[n]
      <4>1. CASE m = n - 1
        BY <3>4, <4>1
      <4>2. CASE m < n - 1
        <5>1. m \in 0..(n - 1)
          BY <1>n, <2>3, <4>2
        <5>2. Elapsed[m] < Elapsed[n - 1]
          BY <3>2, <4>2, <5>1
        <5>3. m \in 0..PhaseCount /\ m \notin Bad
          BY <1>n, <2>2, <2>3, <3>5
        <5>4. Elapsed[m] \in Nat
          BY <5>3 DEF Bad
        <5> QED BY <3>4, <5>2, <5>4
      <4> QED BY <1>n, <2>3, <3>5, <4>1, <4>2
    <3> QED BY <2>3, <3>4, <3>5
  <2> QED BY <2>5, <2>6
<1> QED BY <1>1

LEMMA CycleIsPositive == CYCLE_SECONDS \in Nat \ {0} /\ Elapsed[0] = 0
<1>1. PhaseCount \in Nat \ {0} /\ Elapsed[0] = 0
  BY PhasesAre, ElapsedAdds DEF Adds
<1>2. Elapsed[PhaseCount] \in Nat /\ Elapsed[0] < Elapsed[PhaseCount]
  BY <1>1, ElapsedGrows
<1> QED BY <1>1, <1>2 DEF CYCLE_SECONDS, PhaseCount

Within(n, x) == n \in Phases /\ Elapsed[n - 1] <= x /\ x < Elapsed[n]

\* Every place of the cycle is in one phase.
LEMMA PhaseFound ==
  ASSUME NEW x \in 0..CYCLE_SECONDS - 1
  PROVE  /\ Within(PhaseIndex[x], x) /\ \A n : Within(n, x) => n = PhaseIndex[x]
         /\ ToNext(x) \in 1..CYCLE_SECONDS
<1> DEFINE Later == {n \in 0..PhaseCount : x < Elapsed[n]}
<1>1. PhaseCount \in Nat \ {0} /\ CYCLE_SECONDS \in Nat \ {0} /\ x \in Nat
  BY PhasesAre, CycleIsPositive
<1>2. PhaseCount \in Later
  BY <1>1 DEF CYCLE_SECONDS, PhaseCount
<1>3. PICK n \in Later : \A m \in Later : n <= m
  <2>1. Later \in SUBSET (0..PhaseCount) /\ Later # {}
    BY <1>2
  <2> HIDE DEF Later
  <2> QED BY <1>1, <2>1, LeastNat
<1>4. n # 0
  BY <1>1, <1>3, CycleIsPositive
<1>5. n - 1 \in 0..PhaseCount /\ n - 1 \notin Later
  BY <1>1, <1>3, <1>4
<1>6. Elapsed[n - 1] \in Nat /\ Elapsed[n] \in Nat
  BY <1>3, <1>5, ElapsedGrows
<1>7. Within(n, x)
  BY <1>1, <1>3, <1>4, <1>5, <1>6, PhasesAre DEF Within
<1>8. ASSUME NEW k, Within(k, x), NEW m, Within(m, x), k < m PROVE FALSE
  <2>1. k \in 1..PhaseCount /\ m \in 1..PhaseCount
    BY <1>8, PhasesAre DEF Within
  <2>2. k \in 0..(m - 1) /\ m - 1 \in 0..PhaseCount
    BY <1>1, <1>8, <2>1
  <2>3. Elapsed[k] <= Elapsed[m - 1]
    BY <2>1, <2>2, ElapsedGrows
  <2>4. Elapsed[k] \in Nat /\ Elapsed[m - 1] \in Nat
    BY <1>1, <2>1, <2>2, ElapsedGrows
  <2> QED BY <1>1, <1>8, <2>3, <2>4 DEF Within
<1>9. ASSUME NEW k, Within(k, x), NEW m, Within(m, x) PROVE k = m
  <2>1. k \in Nat /\ m \in Nat
    BY <1>9, PhasesAre DEF Within
  <2> QED BY <1>8, <1>9, <2>1
<1>10. Within(PhaseIndex[x], x)
  <2>1. PhaseIndex[x] = CHOOSE k \in Phases : Elapsed[k - 1] <= x /\ x < Elapsed[k]
    BY DEF PhaseIndex
  <2>2. \E k \in Phases : Elapsed[k - 1] <= x /\ x < Elapsed[k]
    BY <1>7 DEF Within
  <2> QED BY <2>1, <2>2 DEF Within
<1>11. ToNext(x) \in 1..CYCLE_SECONDS
  <2>1. PhaseIndex[x] \in 1..PhaseCount
    BY <1>10, PhasesAre DEF Within
  <2>2. Elapsed[PhaseIndex[x]] \in Nat /\ Elapsed[PhaseIndex[x]] <= Elapsed[PhaseCount]
    BY <1>1, <2>1, ElapsedGrows
  <2>3. Elapsed[PhaseCount] = CYCLE_SECONDS
    BY DEF CYCLE_SECONDS, PhaseCount
  <2> QED BY <1>1, <1>10, <2>2, <2>3 DEF Within, ToNext
<1> QED BY <1>9, <1>10, <1>11

\* Within a phase the time to the next one runs down.
LEMMA PhaseRunsDown ==
  ASSUME NEW x \in 0..CYCLE_SECONDS - 1, ToNext(x) > 1
  PROVE  x + 1 \in 0..CYCLE_SECONDS - 1 /\ ToNext(x + 1) = ToNext(x) - 1
<1> DEFINE n == PhaseIndex[x]
<1>1. Within(n, x) /\ n \in 1..PhaseCount /\ PhaseCount \in Nat /\ CYCLE_SECONDS \in Nat
  BY PhaseFound, PhasesAre, CycleIsPositive DEF Within
<1>2. Elapsed[n] \in Nat /\ Elapsed[n - 1] \in Nat
  BY <1>1, ElapsedGrows
<1>3. Elapsed[n] <= CYCLE_SECONDS
  <2>1. Elapsed[PhaseCount] = CYCLE_SECONDS
    BY DEF CYCLE_SECONDS, PhaseCount
  <2> QED BY <1>1, <1>2, <2>1, ElapsedGrows
<1>4. x + 1 < Elapsed[n]
  BY <1>2 DEF ToNext
<1>5. x + 1 \in 0..CYCLE_SECONDS - 1 /\ Within(n, x + 1)
  BY <1>1, <1>2, <1>3, <1>4 DEF Within
<1>6. PhaseIndex[x + 1] = n
  BY <1>5, PhaseFound
<1> QED BY <1>2, <1>5, <1>6 DEF ToNext

-----------------------------------------------------------------------------
(* WorldClock: places of the cycle. *)

LEMMA PlaceIs ==
  /\ \A n \in Int : Place(n) \in 0..CYCLE_SECONDS - 1
  /\ \A n \in 0..CYCLE_SECONDS - 1 : Place(n) = n
  BY CycleIsPositive DEF Place

LEMMA CycleTimes ==
  \A x, y \in Int : CYCLE_SECONDS * (x + y) = CYCLE_SECONDS * x + CYCLE_SECONDS * y
  BY CycleIsPositive

LEMMA CycleOnce ==
  ASSUME NEW q \in Int, NEW r \in Int, NEW i \in 0..CYCLE_SECONDS - 1, NEW j \in 0..CYCLE_SECONDS - 1,
         CYCLE_SECONDS * q + i = CYCLE_SECONDS * r + j
  PROVE  i = j
<1>c. CYCLE_SECONDS \in Nat \ {0}
  BY CycleIsPositive
<1>1. CYCLE_SECONDS * (q - r) = j - i
  BY <1>c
<1>2. CASE q - r >= 1
  <2>1. CYCLE_SECONDS * (q - r) >= CYCLE_SECONDS
    BY <1>c, <1>2
  <2> QED BY <1>c, <1>1, <2>1
<1>3. CASE q - r <= -1
  <2>1. CYCLE_SECONDS * (r - q) >= CYCLE_SECONDS
    BY <1>c, <1>3
  <2>2. CYCLE_SECONDS * (r - q) = i - j
    BY <1>c, <1>1
  <2> QED BY <1>c, <2>1, <2>2
<1> QED BY <1>c, <1>1, <1>2, <1>3

\* A place is as good as the number it was taken from.
LEMMA PlaceOfPlace ==
  ASSUME NEW a \in Int, NEW b \in Int PROVE Place(Place(a) + b) = Place(a + b)
<1> DEFINE q == a \div CYCLE_SECONDS
           r == (a + b) \div CYCLE_SECONDS
           p == (Place(a) + b) \div CYCLE_SECONDS
<1>1. \A n \in Int : /\ n = CYCLE_SECONDS * (n \div CYCLE_SECONDS) + Place(n)
                     /\ n \div CYCLE_SECONDS \in Int /\ Place(n) \in Int
  BY CycleIsPositive DEF Place
<1>2. a = CYCLE_SECONDS * q + Place(a) /\ q \in Int /\ Place(a) \in Int
  BY <1>1
<1>3. a + b = CYCLE_SECONDS * r + Place(a + b) /\ r \in Int
  BY <1>1
<1>4. Place(a) + b = CYCLE_SECONDS * p + Place(Place(a) + b) /\ p \in Int
  BY <1>1, <1>2
<1>5. Place(a + b) \in 0..CYCLE_SECONDS - 1 /\ Place(Place(a) + b) \in 0..CYCLE_SECONDS - 1
  BY <1>2, PlaceIs
<1> HIDE DEF q, r, p
<1>6. CYCLE_SECONDS * (q + p) = CYCLE_SECONDS * q + CYCLE_SECONDS * p
  BY <1>2, <1>4, CycleTimes
<1>7. CYCLE_SECONDS * r + Place(a + b) = CYCLE_SECONDS * (q + p) + Place(Place(a) + b)
  BY <1>2, <1>3, <1>4, <1>5, <1>6, CycleIsPositive
<1>8. q + p \in Int
  BY <1>2, <1>4
<1> QED BY <1>3, <1>5, <1>7, <1>8, CycleOnce

-----------------------------------------------------------------------------
(* WorldClock: the messages and the store. *)

Messages(limit) == [at : 0..CYCLE_SECONDS - 1, age : 0..limit]

ClockTypes ==
  /\ pos \in 0..CYCLE_SECONDS - 1 /\ skew \in Skews
  /\ updates \in Seq(Messages(MaxAge))
  /\ snapshot \in Seq(Messages(MaxSnapAge)) /\ Len(snapshot) <= 1
  /\ linked \in BOOLEAN /\ fetched \in BOOLEAN /\ clockReady \in BOOLEAN /\ overlap \in BOOLEAN
  /\ \E n \in Phases : phase = PHASE_ORDER[n]
  /\ nextIn \in -CYCLE_SECONDS..CYCLE_SECONDS /\ offset \in Int
  /\ 2 * offset \in -CYCLE_SECONDS..CYCLE_SECONDS
  /\ devOverride \in -1..CYCLE_SECONDS - 1 /\ flaws \in 0..MaxFlaws

\* A message as it is when the server has come to p: what it says of the next phase is
\* true as long as that phase has not begun.
OnTime(m, p) ==
  /\ m.at = Place(p - m.age)
  /\ ToNext(m.at) - m.age > 0 => ToNext(m.at) - m.age = ToNext(p)

CountInv ==
  /\ \A n \in DOMAIN updates : OnTime(updates[n], pos)
  /\ \A n \in DOMAIN snapshot : OnTime(snapshot[n], pos)
  /\ nextIn > 0 => nextIn = ToNext(pos)

\* While the messages have not crossed: after the chime of a golden hour the browser is in
\* it, and what is still under way was made in it, or in the hour after it.
Chimed ==
  /\ chimed \in {0, 1} /\ (chimed = 1 => fetched)
  /\ chimed = 1 /\ Golden(pos) =>
       phase = "golden_hour" /\ \A n \in DOMAIN updates : Golden(updates[n].at)
  /\ chimed = 1 /\ ~Golden(pos) =>
       /\ \E a \in 0..MaxAge \cup 0..MaxSnapAge : Golden(Place(pos - a))
       /\ \A n \in DOMAIN updates : Golden(updates[n].at) =>
            phase = "golden_hour" /\ \A m \in 1..n - 1 : Golden(updates[m].at)

GoldInv ==
  /\ \A m, n \in DOMAIN updates : m < n => updates[n].age < updates[m].age
  /\ fetched => snapshot = <<>>
  /\ ~overlap => Chimed

LEMMA AgesAreNat == MaxAge \in Nat /\ MaxSnapAge \in Nat /\ Skews \subseteq Int /\ MaxFlaws \in Nat
  BY ClockAssumption

LEMMA ClockStart == ASSUME ClockInit PROVE ClockTypes /\ CountInv /\ GoldInv
<1>1. CYCLE_SECONDS \in Nat \ {0}
  BY CycleIsPositive
<1>2. /\ updates = <<>> /\ snapshot = <<>> /\ DOMAIN updates = {} /\ DOMAIN snapshot = {}
      /\ nextIn = -CYCLE_SECONDS /\ offset = 0 /\ devOverride = -1 /\ flaws = 0 /\ chimed = 0
      /\ fetched = FALSE /\ overlap = FALSE /\ linked = TRUE /\ clockReady = FALSE
      /\ phase = "dusk" /\ pos \in 0..CYCLE_SECONDS - 1 /\ skew \in Skews
  BY DEF ClockInit
<1>3. ClockTypes
  <2>1. \E n \in Phases : phase = PHASE_ORDER[n]
    BY <1>2, ClockAssumption
  <2>2. /\ updates \in Seq(Messages(MaxAge))
        /\ snapshot \in Seq(Messages(MaxSnapAge)) /\ Len(snapshot) <= 1
    BY <1>2
  <2>3. /\ nextIn \in -CYCLE_SECONDS..CYCLE_SECONDS /\ offset \in Int
        /\ 2 * offset \in -CYCLE_SECONDS..CYCLE_SECONDS
        /\ devOverride \in -1..CYCLE_SECONDS - 1 /\ flaws \in 0..MaxFlaws
    BY <1>1, <1>2, AgesAreNat
  <2>4. linked \in BOOLEAN /\ fetched \in BOOLEAN /\ clockReady \in BOOLEAN /\ overlap \in BOOLEAN
    BY <1>2
  <2> QED BY <1>2, <2>1, <2>2, <2>3, <2>4 DEF ClockTypes
<1>4. CountInv
  BY <1>1, <1>2 DEF CountInv
<1>5. GoldInv
  BY <1>2 DEF GoldInv, Chimed
<1> QED BY <1>3, <1>4, <1>5

\* A unit of time goes by for a message.
LEMMA MessageAges ==
  ASSUME NEW p \in 0..CYCLE_SECONDS - 1, NEW limit \in Nat, NEW m \in Messages(limit), OnTime(m, p)
  PROVE  OnTime([m EXCEPT !.age = @ + 1], Place(p + 1))
<1> DEFINE later == [m EXCEPT !.age = @ + 1]
<1>1. /\ later.at = m.at /\ later.age = m.age + 1
      /\ m.at \in 0..CYCLE_SECONDS - 1 /\ m.age \in Nat /\ CYCLE_SECONDS \in Nat
  BY CycleIsPositive DEF Messages
<1> HIDE DEF later
<1>2. Place(Place(p + 1) + (0 - (m.age + 1))) = Place((p + 1) + (0 - (m.age + 1)))
  <2>1. p + 1 \in Int /\ 0 - (m.age + 1) \in Int
    BY <1>1
  <2> QED BY <2>1, PlaceOfPlace
<1>3. later.at = Place(Place(p + 1) - later.age)
  <2>1. Place(p + 1) \in Int
    BY <1>1, PlaceIs
  <2>2. Place(p + 1) + (0 - (m.age + 1)) = Place(p + 1) - later.age
    BY <1>1, <2>1
  <2>3. (p + 1) + (0 - (m.age + 1)) = p - m.age
    BY <1>1
  <2> QED BY <1>1, <1>2, <2>2, <2>3 DEF OnTime
<1>4. ToNext(m.at) \in Nat /\ ToNext(p) \in Nat
  BY <1>1, PhaseFound
<1>5. ASSUME ToNext(later.at) - later.age > 0
      PROVE  ToNext(later.at) - later.age = ToNext(Place(p + 1))
  <2>1. ToNext(m.at) - m.age > 1
    BY <1>1, <1>4, <1>5
  <2>2. ToNext(m.at) - m.age = ToNext(p) /\ ToNext(p) > 1
    BY <1>1, <1>4, <2>1 DEF OnTime
  <2>3. p + 1 \in 0..CYCLE_SECONDS - 1 /\ ToNext(p + 1) = ToNext(p) - 1
    BY <2>2, PhaseRunsDown
  <2>4. Place(p + 1) = p + 1
    BY <2>3, PlaceIs
  <2> QED BY <1>1, <1>4, <2>2, <2>3, <2>4
<1> QED BY <1>3, <1>5 DEF OnTime, later

LEMMA AgedIs ==
  ASSUME NEW limit \in Nat, NEW queue \in Seq(Messages(limit)),
         \A n \in DOMAIN queue : queue[n].age < limit
  PROVE  /\ Aged(queue) \in Seq(Messages(limit)) /\ DOMAIN Aged(queue) = DOMAIN queue
         /\ \A n \in DOMAIN queue : /\ Aged(queue)[n] = [queue[n] EXCEPT !.age = @ + 1]
                                    /\ Aged(queue)[n].at = queue[n].at
                                    /\ Aged(queue)[n].age = queue[n].age + 1
<1>1. /\ DOMAIN Aged(queue) = DOMAIN queue
      /\ \A n \in DOMAIN queue : Aged(queue)[n] = [queue[n] EXCEPT !.age = @ + 1]
  BY DEF Aged
<1>2. ASSUME NEW n \in DOMAIN queue
      PROVE  /\ Aged(queue)[n] \in Messages(limit)
             /\ Aged(queue)[n].at = queue[n].at /\ Aged(queue)[n].age = queue[n].age + 1
  <2>1. queue[n] \in Messages(limit) /\ queue[n].age < limit
    BY <1>2
  <2> QED BY <1>1, <2>1 DEF Messages
<1>3. /\ DOMAIN queue = 1..Len(queue) /\ Len(queue) \in Nat
  OBVIOUS
<1>4. Aged(queue) = [n \in 1..Len(queue) |-> Aged(queue)[n]]
  BY <1>3 DEF Aged
<1>5. Aged(queue) \in Seq(Messages(limit))
  BY <1>2, <1>3, <1>4
<1> QED BY <1>1, <1>2, <1>5

LEMMA Advancing ==
  ASSUME ClockTypes, CountInv, GoldInv, ClockAdvances
  PROVE  ClockTypes' /\ CountInv' /\ GoldInv'
<1> USE AgesAreNat
<1>1. /\ pos' = Place(pos + 1) /\ pos \in 0..CYCLE_SECONDS - 1 /\ CYCLE_SECONDS \in Nat \ {0}
      /\ pos' \in 0..CYCLE_SECONDS - 1
  BY PlaceIs, CycleIsPositive DEF ClockAdvances, ClockTypes
<1>2. /\ updates' = Aged(updates) /\ updates' \in Seq(Messages(MaxAge))
      /\ DOMAIN updates' = DOMAIN updates
      /\ \A n \in DOMAIN updates : /\ updates'[n] = [updates[n] EXCEPT !.age = @ + 1]
                                   /\ updates'[n].at = updates[n].at
                                   /\ updates'[n].age = updates[n].age + 1
                                   /\ updates[n] \in Messages(MaxAge)
  <2>1. updates \in Seq(Messages(MaxAge)) /\ \A n \in DOMAIN updates : updates[n].age < MaxAge
    BY DEF ClockTypes, ClockAdvances
  <2>2. updates' = Aged(updates)
    BY DEF ClockAdvances
  <2>3. \A n \in DOMAIN updates : updates[n] \in Messages(MaxAge)
    BY <2>1
  <2> QED BY <2>1, <2>2, <2>3, AgedIs
<1>3. /\ DOMAIN snapshot' = DOMAIN snapshot
      /\ \A n \in DOMAIN snapshot : /\ snapshot'[n] = [snapshot[n] EXCEPT !.age = @ + 1]
                                    /\ snapshot[n] \in Messages(MaxSnapAge)
      /\ snapshot' \in Seq(Messages(MaxSnapAge)) /\ Len(snapshot') = Len(snapshot)
      /\ Len(snapshot) <= 1 /\ (snapshot = <<>> => snapshot' = <<>>)
  <2>0. /\ snapshot \in Seq(Messages(MaxSnapAge)) /\ snapshot' = Aged(snapshot)
        /\ \A n \in DOMAIN snapshot : snapshot[n].age < MaxSnapAge
        /\ Len(snapshot) <= 1
    BY DEF ClockTypes, ClockAdvances
  <2>1. /\ Aged(snapshot) \in Seq(Messages(MaxSnapAge)) /\ DOMAIN Aged(snapshot) = DOMAIN snapshot
        /\ \A n \in DOMAIN snapshot : Aged(snapshot)[n] = [snapshot[n] EXCEPT !.age = @ + 1]
    BY <2>0, AgedIs
  <2>2. Len(snapshot') = Len(snapshot)
    BY <2>0, <2>1
  <2>3. snapshot = <<>> => snapshot' = <<>>
    BY <2>0, <2>1, <2>2
  <2>4. \A n \in DOMAIN snapshot : snapshot[n] \in Messages(MaxSnapAge)
    BY <2>0
  <2> QED BY <2>0, <2>1, <2>2, <2>3, <2>4
<1>4. /\ nextIn' = IF nextIn > -CYCLE_SECONDS THEN nextIn - 1 ELSE nextIn
      /\ chimed' = IF Golden(pos') THEN chimed ELSE 0
      /\ UNCHANGED <<skew, linked, fetched, clockReady, phase, offset, devOverride, overlap, flaws>>
  BY DEF ClockAdvances
<1>5. nextIn' \in -CYCLE_SECONDS..CYCLE_SECONDS /\ nextIn \in Int
  BY <1>1, <1>4 DEF ClockTypes
<1>6. ClockTypes'
  BY <1>1, <1>2, <1>3, <1>4, <1>5 DEF ClockTypes
<1>7. nextIn' > 0 => nextIn' = ToNext(pos')
  <2> SUFFICES ASSUME nextIn' > 0 PROVE nextIn' = ToNext(pos')
    OBVIOUS
  <2>1. nextIn > 1 /\ nextIn' = nextIn - 1
    BY <1>1, <1>4, <1>5
  <2>2. nextIn = ToNext(pos)
    BY <1>5, <2>1 DEF CountInv
  <2>3. pos + 1 \in 0..CYCLE_SECONDS - 1 /\ ToNext(pos + 1) = ToNext(pos) - 1
    BY <1>1, <2>1, <2>2, PhaseRunsDown
  <2> QED BY <1>1, <2>1, <2>2, <2>3, PlaceIs
<1>8. CountInv'
  BY <1>1, <1>2, <1>3, <1>7, MessageAges DEF CountInv
<1>9. \A m, n \in DOMAIN updates : m < n => updates'[n].age < updates'[m].age
  BY <1>2 DEF GoldInv, Messages
<1>10. fetched' => snapshot' = <<>>
  BY <1>3, <1>4 DEF GoldInv
<1>11. ASSUME ~overlap PROVE Chimed'
  <2>1. Chimed
    BY <1>11 DEF GoldInv
  <2>2. CASE ~Golden(pos')
    BY <1>4, <2>2 DEF Chimed
  <2>3. CASE Golden(pos') /\ Golden(pos)
    BY <1>2, <1>4, <2>1, <2>3 DEF Chimed
  <2>4. CASE Golden(pos') /\ ~Golden(pos)
    <3>1. SUFFICES ASSUME chimed = 1 PROVE FALSE
      BY <1>4, <2>1, <2>4 DEF Chimed
    <3>2. PICK a \in 0..MaxAge \cup 0..MaxSnapAge : Golden(Place(pos - a))
      BY <2>1, <2>4, <3>1 DEF Chimed
    <3>3. a + 1 \in 0..MaxAge + 1 \cup 0..MaxSnapAge + 1 /\ 1 \in 0..(a + 1) /\ a \in Nat
      BY <3>2
    <3>4. /\ Place(pos' - (a + 1)) = Place(pos - a) /\ Place(pos' - 1) = pos
      <4>1. Place(Place(pos + 1) + (0 - (a + 1))) = Place((pos + 1) + (0 - (a + 1)))
        BY <1>1, <3>3, PlaceOfPlace
      <4>2. Place(Place(pos + 1) + (0 - 1)) = Place((pos + 1) + (0 - 1))
        BY <1>1, PlaceOfPlace
      <4>3. (pos + 1) + (0 - (a + 1)) = pos - a /\ (pos + 1) + (0 - 1) = pos
        BY <1>1, <3>3
      <4>4. pos' + (0 - (a + 1)) = pos' - (a + 1) /\ pos' + (0 - 1) = pos' - 1
        BY <1>1, <3>3
      <4> QED BY <1>1, <4>1, <4>2, <4>3, <4>4, PlaceIs
    <3> QED BY <1>1, <2>4, <3>2, <3>3, <3>4, DelayAssumption
  <2> QED BY <2>2, <2>3, <2>4
<1> QED BY <1>2, <1>4, <1>6, <1>8, <1>9, <1>10, <1>11 DEF GoldInv

\* What applyUpdate makes of a message.
LEMMA MessageTaken ==
  ASSUME ClockTypes, NEW m, m.at \in 0..CYCLE_SECONDS - 1, m.age \in 0..CYCLE_SECONDS - 1,
         OnTime(m, pos), Applied(m)
  PROVE  /\ clockReady' \in BOOLEAN /\ \E n \in Phases : phase' = PHASE_ORDER[n]
         /\ nextIn' \in -CYCLE_SECONDS..CYCLE_SECONDS
         /\ offset' \in Int /\ 2 * offset' \in -CYCLE_SECONDS..CYCLE_SECONDS
         /\ nextIn' > 0 => nextIn' = ToNext(pos)
<1>c. CYCLE_SECONDS \in Nat \ {0}
  BY CycleIsPositive
<1>1. /\ clockReady' = TRUE /\ phase' = PHASE_ORDER[PhaseIndex[m.at]]
      /\ nextIn' = ToNext(m.at) - m.age /\ offset' = Wrapped(m.at - LocalSeconds)
  BY DEF Applied, PhaseAt, Reconciled
<1>2. PhaseIndex[m.at] \in Phases /\ ToNext(m.at) \in 1..CYCLE_SECONDS
  BY PhaseFound DEF Within
<1>3. LocalSeconds \in 0..CYCLE_SECONDS - 1
  <2>1. pos + skew \in Int
    BY <1>c, AgesAreNat DEF ClockTypes
  <2> QED BY <2>1, PlaceIs DEF LocalSeconds
<1>4. /\ offset' \in Int /\ 2 * offset' \in -CYCLE_SECONDS..CYCLE_SECONDS
  <2> DEFINE d == m.at - LocalSeconds
  <2>1. d \in -(CYCLE_SECONDS - 1)..(CYCLE_SECONDS - 1)
    BY <1>c, <1>3
  <2>2. offset' = Wrapped(d)
    BY <1>1
  <2> HIDE DEF d
  <2> QED BY <1>c, <2>1, <2>2 DEF Wrapped
<1>5. nextIn' \in -CYCLE_SECONDS..CYCLE_SECONDS
  BY <1>c, <1>1, <1>2
<1> QED BY <1>1, <1>2, <1>4, <1>5 DEF OnTime

LEMMA Delays == MaxAge \in 0..CYCLE_SECONDS - 1 /\ MaxSnapAge \in 0..CYCLE_SECONDS - 1
  BY DelayAssumption

LEMMA Updating ==
  ASSUME ClockTypes, CountInv, GoldInv, UpdateApplied
  PROVE  ClockTypes' /\ CountInv' /\ GoldInv'
<1> DEFINE h == Head(updates)
<1>c. CYCLE_SECONDS \in Nat \ {0} /\ pos \in 0..CYCLE_SECONDS - 1
  BY CycleIsPositive DEF ClockTypes
<1>1. /\ updates \in Seq(Messages(MaxAge)) /\ updates # <<>> /\ updates' = Tail(updates)
      /\ Applied(h) /\ overlap' = (overlap \/ ~fetched)
      /\ UNCHANGED <<pos, skew, linked, snapshot, fetched, devOverride, flaws>>
  BY DEF UpdateApplied, ClockTypes, clockGet
<1>2. /\ h = updates[1] /\ 1 \in DOMAIN updates /\ h \in Messages(MaxAge)
      /\ updates' \in Seq(Messages(MaxAge))
      /\ \A n \in DOMAIN updates' : n + 1 \in DOMAIN updates /\ updates'[n] = updates[n + 1] /\ n \in Nat \ {0}
  BY <1>1
<1>3. h.at \in 0..CYCLE_SECONDS - 1 /\ h.age \in 0..CYCLE_SECONDS - 1 /\ h.age \in 0..MaxAge
      /\ OnTime(h, pos)
  BY <1>c, <1>2, Delays DEF Messages, CountInv
<1> HIDE DEF h
<1>4. /\ clockReady' \in BOOLEAN /\ \E n \in Phases : phase' = PHASE_ORDER[n]
      /\ nextIn' \in -CYCLE_SECONDS..CYCLE_SECONDS
      /\ offset' \in Int /\ 2 * offset' \in -CYCLE_SECONDS..CYCLE_SECONDS
      /\ nextIn' > 0 => nextIn' = ToNext(pos)
  BY <1>1, <1>3, MessageTaken
<1>5. ClockTypes'
  <2>1. overlap' \in BOOLEAN
    BY <1>1 DEF ClockTypes
  <2> QED BY <1>1, <1>2, <1>4, <2>1 DEF ClockTypes
<1>6. CountInv'
  BY <1>1, <1>2, <1>4 DEF CountInv
<1>7. \A m, n \in DOMAIN updates' : m < n => updates'[n].age < updates'[m].age
  <2> SUFFICES ASSUME NEW m \in DOMAIN updates', NEW n \in DOMAIN updates', m < n
               PROVE  updates'[n].age < updates'[m].age
    OBVIOUS
  <2>1. m + 1 \in DOMAIN updates /\ n + 1 \in DOMAIN updates /\ m + 1 < n + 1
    BY <1>2
  <2>2. updates[n + 1].age < updates[m + 1].age
    BY <2>1 DEF GoldInv
  <2> QED BY <1>2, <2>2
<1>8. ASSUME ~overlap' PROVE Chimed'
  <2>1. ~overlap /\ fetched /\ Chimed /\ fetched' = fetched
    BY <1>1, <1>8 DEF GoldInv, ClockTypes
  <2>2. /\ phase' = PhaseAt(h.at) /\ chimed' = IF Golden(h.at) /\ phase # "golden_hour"
                                               THEN chimed + 1 ELSE chimed
        /\ phase' = "golden_hour" <=> Golden(h.at)
    BY <1>1 DEF Applied, Chimes, Golden
  <2>3. CASE chimed = 1 /\ Golden(pos)
    <3>1. phase = "golden_hour" /\ \A n \in DOMAIN updates : Golden(updates[n].at)
      BY <2>1, <2>3 DEF Chimed
    <3>2. chimed' = 1 /\ phase' = "golden_hour" /\ \A n \in DOMAIN updates' : Golden(updates'[n].at)
      BY <1>2, <2>2, <2>3, <3>1
    <3> QED BY <1>1, <2>1, <2>3, <3>2 DEF Chimed
  <2>4. CASE chimed = 1 /\ ~Golden(pos)
    <3>1. /\ \E a \in 0..MaxAge \cup 0..MaxSnapAge : Golden(Place(pos - a))
          /\ \A n \in DOMAIN updates : Golden(updates[n].at) =>
               phase = "golden_hour" /\ \A m \in 1..n - 1 : Golden(updates[m].at)
      BY <2>1, <2>4 DEF Chimed
    <3>2. chimed' = 1
      BY <1>2, <2>2, <2>4, <3>1
    <3>3. ASSUME NEW n \in DOMAIN updates', Golden(updates'[n].at)
          PROVE  phase' = "golden_hour" /\ \A m \in 1..n - 1 : Golden(updates'[m].at)
      <4>0. n + 1 \in DOMAIN updates /\ updates'[n] = updates[n + 1] /\ n \in Nat \ {0}
        BY <1>2, <3>3
      <4>4. \A m \in 1..(n + 1) - 1 : Golden(updates[m].at)
        BY <3>1, <3>3, <4>0
      <4>1. \A m \in 1..n : Golden(updates[m].at)
        <5>1. (n + 1) - 1 = n
          BY <4>0
        <5> QED BY <4>4, <5>1
      <4>2. \A m \in 1..n - 1 : m \in DOMAIN updates' /\ m + 1 \in 1..n
        BY <1>2, <3>3
      <4>3. 1 \in 1..n
        BY <1>2, <3>3
      <4> QED BY <1>2, <2>2, <4>1, <4>2, <4>3
    <3> QED BY <1>1, <2>1, <2>4, <3>1, <3>2, <3>3 DEF Chimed
  <2>5. CASE chimed = 0 /\ ~(Golden(h.at) /\ phase # "golden_hour")
    <3>1. chimed' = 0
      BY <2>2, <2>5
    <3> QED BY <3>1 DEF Chimed
  <2>6. CASE chimed = 0 /\ Golden(h.at) /\ phase # "golden_hour"
    <3>1. chimed' = 1 /\ phase' = "golden_hour" /\ Golden(Place(pos - h.age))
      BY <1>3, <2>2, <2>6 DEF OnTime
    \* Between the message that chimed and another of a golden hour all are.
    <3>2. ASSUME NEW b \in 0..h.age, Golden(Place(pos - b)), NEW a \in b..h.age
          PROVE  Golden(Place(pos - a))
      <4>1. a - b \in 0..(h.age - b) /\ h.age - b \in 0..MaxAge + 1 /\ Place(pos - b) \in 0..CYCLE_SECONDS - 1
        BY <1>c, <1>3, <3>2, AgesAreNat, PlaceIs
      <4>2. \A d \in Nat : Place(Place(pos - b) - d) = Place(pos - (b + d))
        <5> SUFFICES ASSUME NEW d \in Nat PROVE Place(Place(pos - b) - d) = Place(pos - (b + d))
          OBVIOUS
        <5>1. pos - b \in Int /\ 0 - d \in Int
          BY <1>c, <1>3, <3>2
        <5>2. Place(Place(pos - b) + (0 - d)) = Place((pos - b) + (0 - d))
          BY <5>1, PlaceOfPlace
        <5>3. Place(pos - b) + (0 - d) = Place(pos - b) - d /\ (pos - b) + (0 - d) = pos - (b + d)
          BY <1>c, <1>3, <3>2, <4>1
        <5> QED BY <5>2, <5>3
      <4>3. Golden(Place(Place(pos - b) - (h.age - b)))
        <5>1. b + (h.age - b) = h.age /\ h.age - b \in Nat
          BY <1>3, <3>2
        <5> QED BY <3>1, <4>2, <5>1
      <4>4. Golden(Place(Place(pos - b) - (a - b)))
        BY <3>2, <4>1, <4>3, DelayAssumption
      <4>5. b + (a - b) = a /\ a - b \in Nat
        BY <1>3, <3>2
      <4> QED BY <4>2, <4>4, <4>5
    <3>3. \A n \in DOMAIN updates' : /\ updates'[n].age \in 0..h.age
                                     /\ updates'[n].at = Place(pos - updates'[n].age)
      <4> SUFFICES ASSUME NEW n \in DOMAIN updates'
                   PROVE  /\ updates'[n].age \in 0..h.age
                          /\ updates'[n].at = Place(pos - updates'[n].age)
        OBVIOUS
      <4>1. n + 1 \in DOMAIN updates /\ updates'[n] = updates[n + 1] /\ 1 < n + 1
        BY <1>2
      <4>2. updates[n + 1].age < updates[1].age
        BY <1>2, <4>1 DEF GoldInv
      <4>3. updates[n + 1] \in Messages(MaxAge) /\ OnTime(updates[n + 1], pos)
        BY <1>1, <4>1 DEF CountInv
      <4> QED BY <1>2, <1>3, <4>1, <4>2, <4>3 DEF OnTime, Messages
    <3>4. CASE Golden(pos)
      <4>1. Place(pos - 0) = pos
        BY <1>c, PlaceIs
      <4>2. \A a \in 0..h.age : Golden(Place(pos - a))
        BY <1>3, <3>2, <3>4, <4>1
      <4>3. \A n \in DOMAIN updates' : Golden(updates'[n].at)
        BY <3>3, <4>2
      <4> QED BY <1>1, <2>1, <3>1, <3>4, <4>3 DEF Chimed
    <3>5. CASE ~Golden(pos)
      <4>1. ASSUME NEW n \in DOMAIN updates', Golden(updates'[n].at), NEW m \in 1..n - 1
            PROVE  Golden(updates'[m].at)
        <5>1. m \in DOMAIN updates' /\ m < n
          BY <1>2, <4>1
        <5>2. updates'[m].age \in updates'[n].age..h.age
          BY <1>3, <1>7, <3>3, <4>1, <5>1
        <5> QED BY <3>2, <3>3, <4>1, <5>1, <5>2
      <4> QED BY <1>1, <1>3, <2>1, <3>1, <3>5, <4>1 DEF Chimed
    <3> QED BY <3>4, <3>5
  <2>7. chimed \in {0, 1}
    BY <2>1 DEF Chimed
  <2> QED BY <2>3, <2>4, <2>5, <2>6, <2>7
<1> QED BY <1>1, <1>5, <1>6, <1>7, <1>8 DEF GoldInv

\* What is sent now is on time.
LEMMA StateOnTime ==
  ASSUME ClockTypes PROVE OnTime(State, pos) /\ \A limit \in Nat : State \in Messages(limit)
<1>1. pos \in 0..CYCLE_SECONDS - 1 /\ CYCLE_SECONDS \in Nat \ {0}
  BY CycleIsPositive DEF ClockTypes
<1>2. Place(pos - 0) = pos /\ ToNext(pos) - 0 = ToNext(pos)
  <2>1. pos - 0 = pos /\ ToNext(pos) \in Int
    BY <1>1, PhaseFound
  <2> QED BY <1>1, <2>1, PlaceIs
<1> QED BY <1>1, <1>2 DEF OnTime, State, Messages

LEMMA Broadcasting ==
  ASSUME ClockTypes, CountInv, GoldInv, ClockBroadcast
  PROVE  ClockTypes' /\ CountInv' /\ GoldInv'
<1>1. /\ updates \in Seq(Messages(MaxAge)) /\ updates' = Append(updates, State)
      /\ \A n \in DOMAIN updates : updates[n].age > 0
      /\ UNCHANGED <<pos, skew, linked, snapshot, fetched, clockReady, phase, nextIn, offset,
                     devOverride, chimed, overlap, flaws>>
  BY DEF ClockBroadcast, ClockTypes, clockGet, browserClock
<1>2. OnTime(State, pos) /\ State \in Messages(MaxAge) /\ State.at = pos /\ State.age = 0
  BY StateOnTime, AgesAreNat DEF State
<1>3. Len(updates) \in Nat /\ DOMAIN updates = 1..Len(updates)
  BY <1>1
<1> DEFINE new == Len(updates) + 1
<1>4. /\ updates' \in Seq(Messages(MaxAge)) /\ new \in Nat
      /\ DOMAIN updates' = DOMAIN updates \cup {new} /\ updates'[new] = State
      /\ \A n \in DOMAIN updates : updates'[n] = updates[n] /\ n < new /\ n \in Nat
  BY <1>1, <1>2, <1>3
<1> HIDE DEF new
<1>5. ClockTypes'
  BY <1>1, <1>4 DEF ClockTypes
<1>6. CountInv'
  BY <1>1, <1>2, <1>4 DEF CountInv
<1>7. ASSUME NEW m \in DOMAIN updates', NEW n \in DOMAIN updates', m < n
      PROVE  updates'[n].age < updates'[m].age
  <2>1. m \in DOMAIN updates
    BY <1>4, <1>7
  <2>2. CASE n = new
    BY <1>1, <1>2, <1>4, <2>1, <2>2
  <2>3. CASE n \in DOMAIN updates
    BY <1>4, <1>7, <2>1, <2>3 DEF GoldInv
  <2> QED BY <1>4, <2>2, <2>3
<1>8. ASSUME ~overlap PROVE Chimed'
  <2>1. Chimed
    BY <1>8 DEF GoldInv
  <2>2. ASSUME chimed = 1, Golden(pos), NEW n \in DOMAIN updates'
        PROVE  phase = "golden_hour" /\ Golden(updates'[n].at)
    BY <1>2, <1>4, <2>1, <2>2 DEF Chimed
  <2>3. ASSUME chimed = 1, ~Golden(pos), NEW n \in DOMAIN updates', Golden(updates'[n].at)
        PROVE  phase = "golden_hour" /\ \A m \in 1..n - 1 : Golden(updates'[m].at)
    <3>1. n \in DOMAIN updates
      BY <1>2, <1>4, <2>3
    <3>2. phase = "golden_hour" /\ \A m \in 1..n - 1 : Golden(updates[m].at)
      BY <1>4, <2>1, <2>3, <3>1 DEF Chimed
    <3>3. \A m \in 1..n - 1 : m \in DOMAIN updates
      BY <1>3, <3>1
    <3> QED BY <1>4, <3>2, <3>3
  <2> QED BY <1>1, <2>1, <2>2, <2>3 DEF Chimed
<1> QED BY <1>1, <1>5, <1>6, <1>7, <1>8 DEF GoldInv

LEMMA SnapshotComes ==
  ASSUME ClockTypes, CountInv, GoldInv, SnapshotRead
  PROVE  ClockTypes' /\ CountInv' /\ GoldInv'
<1>1. /\ snapshot' = <<State>> /\ ~fetched
      /\ UNCHANGED <<pos, skew, updates, linked, fetched, clockReady, phase, nextIn, offset,
                     devOverride, chimed, overlap, flaws>>
  BY DEF SnapshotRead, browserClock
<1>2. OnTime(State, pos) /\ State \in Messages(MaxSnapAge)
  BY StateOnTime, AgesAreNat
<1>3. /\ snapshot' \in Seq(Messages(MaxSnapAge)) /\ Len(snapshot') <= 1
      /\ \A n \in DOMAIN snapshot' : snapshot'[n] = State
  BY <1>1, <1>2
<1>4. Chimed => Chimed'
  BY <1>1 DEF Chimed
<1> QED BY <1>1, <1>2, <1>3, <1>4 DEF ClockTypes, CountInv, GoldInv

LEMMA SnapshotLands ==
  ASSUME ClockTypes, CountInv, GoldInv, SnapshotApplied
  PROVE  ClockTypes' /\ CountInv' /\ GoldInv'
<1> DEFINE h == snapshot[1]
<1>c. CYCLE_SECONDS \in Nat \ {0} /\ pos \in 0..CYCLE_SECONDS - 1
  BY CycleIsPositive DEF ClockTypes
<1>1. /\ snapshot \in Seq(Messages(MaxSnapAge)) /\ snapshot # <<>> /\ snapshot' = <<>>
      /\ fetched' = TRUE /\ Applied(h) /\ overlap' = (overlap \/ updates # <<>>)
      /\ UNCHANGED <<pos, skew, updates, linked, devOverride, flaws>>
  BY DEF SnapshotApplied, ClockTypes
<1>2. 1 \in DOMAIN snapshot /\ h \in Messages(MaxSnapAge)
  BY <1>1
<1>3. h.at \in 0..CYCLE_SECONDS - 1 /\ h.age \in 0..CYCLE_SECONDS - 1 /\ h.age \in 0..MaxSnapAge
      /\ OnTime(h, pos)
  BY <1>c, <1>2, Delays DEF Messages, CountInv
<1> HIDE DEF h
<1>4. /\ clockReady' \in BOOLEAN /\ \E n \in Phases : phase' = PHASE_ORDER[n]
      /\ nextIn' \in -CYCLE_SECONDS..CYCLE_SECONDS
      /\ offset' \in Int /\ 2 * offset' \in -CYCLE_SECONDS..CYCLE_SECONDS
      /\ nextIn' > 0 => nextIn' = ToNext(pos)
  BY <1>1, <1>3, MessageTaken
<1>5. /\ snapshot' \in Seq(Messages(MaxSnapAge)) /\ Len(snapshot') <= 1 /\ DOMAIN snapshot' = {}
  BY <1>1
<1>6. ClockTypes'
  <2>1. overlap' \in BOOLEAN
    BY <1>1 DEF ClockTypes
  <2> QED BY <1>1, <1>4, <1>5, <2>1 DEF ClockTypes
<1>7. CountInv'
  BY <1>1, <1>4, <1>5 DEF CountInv
<1>8. ASSUME ~overlap' PROVE Chimed'
  <2>1. ~overlap /\ updates = <<>> /\ Chimed /\ ~fetched
    BY <1>1, <1>8 DEF GoldInv, ClockTypes
  <2>2. chimed = 0 /\ DOMAIN updates' = {}
    BY <1>1, <2>1 DEF Chimed
  <2>3. chimed' = (IF Golden(h.at) /\ phase # "golden_hour" THEN chimed + 1 ELSE chimed)
        /\ (phase' = "golden_hour" <=> Golden(h.at))
    BY <1>1 DEF Applied, Chimes, Golden
  <2>4. CASE chimed' = 0
    BY <2>4 DEF Chimed
  <2>5. CASE chimed' = 1
    <3>1. phase' = "golden_hour" /\ Golden(Place(pos - h.age))
      BY <1>3, <2>2, <2>3, <2>5 DEF OnTime
    <3> QED BY <1>1, <1>3, <2>2, <2>5, <3>1 DEF Chimed
  <2> QED BY <2>2, <2>3, <2>4, <2>5
<1> QED BY <1>1, <1>6, <1>7, <1>8 DEF GoldInv

\* The sky is held in a phase, or let go.
LEMMA DevPhase ==
  ASSUME ClockTypes, CountInv, GoldInv, NEW n \in Phases, SetDevPhase(n)
  PROVE  ClockTypes' /\ CountInv' /\ GoldInv'
<1>1. /\ devOverride' = Elapsed[n - 1] + Lasts(n) \div 2 /\ phase' = PHASE_ORDER[n]
      /\ clockReady' = TRUE /\ overlap' = TRUE /\ flaws < MaxFlaws /\ flaws' = flaws + 1
      /\ UNCHANGED <<pos, skew, updates, linked, snapshot, fetched, nextIn, offset>>
  BY DEF SetDevPhase, Flaw, Lasts, clockGet
<1>2. devOverride' \in -1..CYCLE_SECONDS - 1
  <2>1. /\ n \in 1..PhaseCount /\ PhaseCount \in Nat /\ Lasts(n) \in Nat \ {0}
    BY PhasesAre
  <2>2. n - 1 \in 0..PhaseCount /\ n \in 0..PhaseCount
    BY <2>1
  <2>3. Elapsed[n - 1] \in Nat /\ Elapsed[n] \in Nat /\ Elapsed[n] = Elapsed[n - 1] + Lasts(n)
    BY <2>1, <2>2, ElapsedGrows, ElapsedAdds DEF Adds
  <2>4. Elapsed[n] <= CYCLE_SECONDS
    <3>1. Elapsed[PhaseCount] = CYCLE_SECONDS
      BY DEF CYCLE_SECONDS, PhaseCount
    <3>2. PhaseCount \in 0..PhaseCount /\ n \in 0..PhaseCount
      BY <2>1
    <3>3. n < PhaseCount => Elapsed[n] < Elapsed[PhaseCount]
      BY <3>2, ElapsedGrows
    <3> QED BY <2>1, <2>3, <3>1, <3>3, CycleIsPositive
  <2>5. Lasts(n) \div 2 < Lasts(n) /\ Lasts(n) \div 2 \in Nat
    BY <2>1
  <2> QED BY <1>1, <2>1, <2>3, <2>4, <2>5, CycleIsPositive
<1>3. ClockTypes'
  <2>1. flaws' \in 0..MaxFlaws
    BY <1>1, AgesAreNat DEF ClockTypes
  <2> QED BY <1>1, <1>2, <2>1 DEF ClockTypes
<1> QED BY <1>1, <1>3 DEF CountInv, GoldInv

\* The link, the request and the clock of the machine.
LEMMA ClockAround ==
  ASSUME ClockTypes, CountInv, GoldInv,
         SnapshotLost \/ ClockLinkDrops \/ ClockLinkReturns \/ BrowserClockSet \/ ClearDevPhase
  PROVE  ClockTypes' /\ CountInv' /\ GoldInv'
<1>1. /\ UNCHANGED <<pos, clockReady, phase, nextIn, offset, chimed, overlap>>
      /\ updates' \in {updates, <<>>} /\ snapshot' \in {snapshot, <<>>}
      /\ fetched' = fetched \/ (fetched' = TRUE /\ snapshot' = <<>>)
      /\ snapshot' = snapshot \/ fetched' = TRUE
  BY DEF SnapshotLost, ClockLinkDrops, ClockLinkReturns, BrowserClockSet, ClearDevPhase,
         clockGet, browserClock
<1>2. /\ skew' \in Skews /\ linked' \in BOOLEAN /\ fetched' \in BOOLEAN
      /\ devOverride' \in -1..CYCLE_SECONDS - 1 /\ flaws' \in 0..MaxFlaws
  <2>1. flaws' = flaws \/ (flaws < MaxFlaws /\ flaws' = flaws + 1)
    BY DEF SnapshotLost, ClockLinkDrops, ClockLinkReturns, BrowserClockSet, ClearDevPhase, Flaw
  <2>2. flaws' \in 0..MaxFlaws
    BY <2>1, AgesAreNat DEF ClockTypes
  <2>3. devOverride' = devOverride \/ devOverride' = -1
    BY DEF SnapshotLost, ClockLinkDrops, ClockLinkReturns, BrowserClockSet, ClearDevPhase,
           browserClock
  <2>4. devOverride' \in -1..CYCLE_SECONDS - 1
    BY <2>3, CycleIsPositive DEF ClockTypes
  <2>5. skew' \in Skews /\ linked' \in BOOLEAN /\ fetched' \in BOOLEAN
    BY DEF SnapshotLost, ClockLinkDrops, ClockLinkReturns, BrowserClockSet, ClearDevPhase,
           clockGet, ClockTypes
  <2> QED BY <2>2, <2>4, <2>5
<1>3. /\ updates' \in Seq(Messages(MaxAge)) /\ DOMAIN updates' \subseteq DOMAIN updates
      /\ snapshot' \in Seq(Messages(MaxSnapAge)) /\ Len(snapshot') <= 1
      /\ DOMAIN snapshot' \subseteq DOMAIN snapshot
      /\ \A n \in DOMAIN updates' : updates'[n] = updates[n]
                                    /\ \A m \in 1..n - 1 : updates'[m] = updates[m]
      /\ \A n \in DOMAIN snapshot' : snapshot'[n] = snapshot[n]
  <2>1. DOMAIN <<>> = {} /\ Len(<<>>) = 0 /\ \A S : <<>> \in Seq(S)
    OBVIOUS
  <2>2. /\ updates \in Seq(Messages(MaxAge)) /\ snapshot \in Seq(Messages(MaxSnapAge))
        /\ Len(snapshot) <= 1
    BY DEF ClockTypes
  <2>3. CASE updates' = updates
    <3>1. CASE snapshot' = snapshot
      BY <2>2, <2>3, <3>1
    <3>2. CASE snapshot' = <<>>
      BY <2>1, <2>2, <2>3, <3>2
    <3> QED BY <1>1, <3>1, <3>2
  <2>4. CASE updates' = <<>>
    <3>1. CASE snapshot' = snapshot
      BY <2>1, <2>2, <2>4, <3>1
    <3>2. CASE snapshot' = <<>>
      BY <2>1, <2>2, <2>4, <3>2
    <3> QED BY <1>1, <3>1, <3>2
  <2> QED BY <1>1, <2>3, <2>4
<1>4. ClockTypes'
  BY <1>1, <1>2, <1>3 DEF ClockTypes
<1>5. CountInv'
  BY <1>1, <1>3 DEF CountInv
<1>6. Chimed => Chimed'
  BY <1>1, <1>3 DEF Chimed
<1>7. GoldInv'
  BY <1>1, <1>3, <1>6 DEF GoldInv
<1> QED BY <1>4, <1>5, <1>7

LEMMA ClockStep ==
  ASSUME ClockTypes, CountInv, GoldInv, [ClockNext]_clockVars
  PROVE  ClockTypes' /\ CountInv' /\ GoldInv'
<1>1. CASE UNCHANGED clockVars
  <2>1. UNCHANGED <<pos, skew, updates, linked, snapshot, fetched, clockReady, phase, nextIn,
                    offset, devOverride, chimed, overlap, flaws>>
    BY <1>1 DEF clockVars, clockGet, browserClock
  <2>2. ClockTypes' /\ CountInv'
    BY <2>1 DEF ClockTypes, CountInv
  <2>3. Chimed => Chimed'
    BY <2>1 DEF Chimed
  <2> QED BY <2>1, <2>2, <2>3 DEF GoldInv
<1> QED
  BY <1>1, Advancing, Broadcasting, SnapshotComes, Updating, SnapshotLands, ClockAround, DevPhase
  DEF ClockNext

LEMMA ClockTypesOK == ASSUME ClockTypes, GoldInv PROVE ClockTypeOK
<1>1. \A n \in DOMAIN updates : updates[n].age \in 0..MaxAge
  <2>1. \A n \in DOMAIN updates : updates[n] \in Messages(MaxAge)
    BY DEF ClockTypes
  <2> QED BY <2>1 DEF Messages
<1>2. {linked, fetched, clockReady, overlap} \subseteq BOOLEAN
  BY DEF ClockTypes
<1> QED BY <1>1, <1>2 DEF ClockTypes, ClockTypeOK

LEMMA CountdownFollows == ASSUME ClockTypes, CountInv PROVE CountdownIsRight
<1> SUFFICES ASSUME devOverride = -1, skew = 0, Behind = 0 PROVE Countdown = ToNext(pos)
  BY DEF CountdownIsRight
<1>c. CYCLE_SECONDS \in Nat \ {0} /\ pos \in 0..CYCLE_SECONDS - 1
  BY CycleIsPositive DEF ClockTypes
<1>1. SmoothPlace \in 0..CYCLE_SECONDS - 1
  <2>1. pos + skew \in Int
    BY <1>c
  <2>2. LocalSeconds \in Int
    BY <1>c, <2>1, PlaceIs DEF LocalSeconds
  <2>3. LocalSeconds + offset \in Int
    BY <2>2 DEF ClockTypes
  <2> QED BY <2>3, PlaceIs DEF SmoothPlace
<1>2. SmoothPlace = pos
  <2>1. Place(Place(pos - SmoothPlace) + SmoothPlace) = Place((pos - SmoothPlace) + SmoothPlace)
    BY <1>c, <1>1, PlaceOfPlace
  <2>2. (pos - SmoothPlace) + SmoothPlace = pos /\ 0 + SmoothPlace = SmoothPlace
    BY <1>c, <1>1
  <2> QED BY <1>c, <1>1, <2>1, <2>2, PlaceIs DEF Behind
<1>3. nextIn - skew = nextIn
  BY <1>c DEF ClockTypes
<1> QED BY <1>2, <1>3 DEF Countdown, CountInv

\* For any table of phases and any delays that do not reach from one golden hour into the
\* next: a golden hour is announced once, and the countdown of a right clock is right,
\* whenever the link breaks, the snapshot comes or the machine's clock is set.
THEOREM ClockStaysRight == ClockSpec => [](GoldenHourOnce /\ CountdownIsRight)
<1>1. ClockInit => ClockTypes /\ CountInv /\ GoldInv
  BY ClockStart
<1>2. (ClockTypes /\ CountInv /\ GoldInv) /\ [ClockNext]_clockVars =>
        (ClockTypes /\ CountInv /\ GoldInv)'
  BY ClockStep
<1>3. ClockTypes /\ CountInv /\ GoldInv => GoldenHourOnce /\ CountdownIsRight
  <2>1. GoldInv => GoldenHourOnce
    BY DEF GoldInv, Chimed, GoldenHourOnce
  <2> QED BY <2>1, CountdownFollows
<1> QED BY <1>1, <1>2, <1>3, PTL DEF ClockSpec

-----------------------------------------------------------------------------
(* ContractCard. *)

\* What a request brings, and what a message says.
CardsRead == [of : Cardholders, day : CardDays, progress : 0..TARGET, completed : BOOLEAN]

CardGets ==
  {NoGet} \cup [step : {"sent"}, of : Cardholders]
    \cup [step : {"user"}, of : Cardholders, day : CardDays, streak : 0..MaxCardDays,
          overtaken : BOOLEAN, after : SUBSET Gets]
    \cup [step : {"row"}, streak : 0..MaxCardDays, overtaken : BOOLEAN, after : SUBSET Gets,
          contract : CardsRead]

RoomMessages ==
  {x \in [type : {"ack", "progress", "completed"}, of : Cardholders, day : CardDays, value : Nat,
          holds : BOOLEAN, missedBy : SUBSET Gets] :
     /\ x.type = "progress" => x.value <= TARGET
     /\ x.type = "completed" => x.value <= MaxCardDays}

CardTypes ==
  /\ utcDay \in CardDays /\ drawn \subseteq Contracts /\ fulfilled \subseteq Contracts
  /\ progress \in [Contracts -> 0..TARGET] /\ streaks \in [Cardholders -> 0..MaxCardDays]
  /\ holder \in Cardholders \cup {NoHolder} /\ sockAs \in Cardholders \cup {NoHolder}
  /\ card = NoCard \/ card \in CardsRead
  /\ cardStreak \in 0..MaxCardDays /\ cardAsked \in BOOLEAN /\ misled \in BOOLEAN
  /\ gets \in [Gets -> CardGets]
  /\ messages \in Seq(RoomMessages) /\ Len(messages) <= MaxRoom
  /\ hitches \in 0..MaxHitches

\* Only the owner of the room hears it; one streak for a day at most.
RoomInv ==
  /\ (inRoom = NoHolder /\ messages = <<>>) \/ (inRoom = sockAs /\ inRoom \in Cardholders)
  /\ \A n \in DOMAIN messages : messages[n].of = inRoom
  /\ \A c \in fulfilled : progress[c] = TARGET /\ c[2] <= utcDay
  /\ \A h \in Cardholders : /\ streaks[h] <= utcDay
                            /\ <<h, utcDay>> \notin fulfilled => streaks[h] < utcDay

\* What an event says is true as long as none behind it takes it back.
EventInv ==
  \A n \in DOMAIN messages : messages[n].type # "ack" /\ (\A m \in n..Len(messages) : messages[m].holds) =>
    LET e == messages[n]
        c == <<e.of, e.day>>
    IN /\ e.type = "progress" => e.value <= progress[c]
       /\ e.type = "completed" =>
            /\ c \in fulfilled
            /\ (\A m \in n + 1..Len(messages) : messages[m].type # "completed") => e.value = streaks[e.of]

Reads(g) == IF gets[g].step = "row" THEN gets[g].contract.of ELSE gets[g].of

\* Contract k read or shown is not more than there is.
NotAhead(k) ==
  /\ k.completed => progress[<<k.of, k.day>>] = TARGET
  /\ k.progress <= progress[<<k.of, k.day>>]

\* What a request under way has read is true, but for the events it has missed.
GetGood(g) ==
  \/ \E n \in DOMAIN messages : g \in messages[n].missedBy /\ ~messages[n].holds
  \/ /\ \/ \E n \in DOMAIN messages : g \in messages[n].missedBy /\ messages[n].type = "completed"
        \/ /\ gets[g].streak = streaks[holder]
           /\ gets[g].step = "row" =>
                LET k == gets[g].contract IN <<k.of, k.day>> \in fulfilled => k.completed
     /\ gets[g].step = "row" => NotAhead(gets[g].contract)

\* The card is true, but for the events that are to come; or one will mislead it.
CardGood ==
  \/ \E n \in DOMAIN messages : messages[n].type # "ack" /\ (~messages[n].holds \/ ~OfCard(messages[n]))
  \/ /\ card.of = holder
     /\ \/ \E n \in DOMAIN messages : messages[n].type = "completed"
        \/ /\ cardStreak = streaks[holder]
           /\ <<card.of, card.day>> \in fulfilled => card.completed
     /\ NotAhead(card)

\* A request that will put the card right, or mislead it.
Mends(g) ==
  \/ gets[g].step = "sent" /\ gets[g].of = holder
  \/ g \in Begun /\ Reads(g) = holder /\ (gets[g].overtaken \/ GetGood(g))

RoomJoined ==
  /\ holder # NoHolder /\ inRoom = holder /\ cardAsked
  /\ \A n \in DOMAIN messages : messages[n].type # "ack"

\* In the room with the answer behind it, the card is true or will be mended, and so is
\* every answer that could replace it.
LoadInv ==
  RoomJoined =>
    /\ ~misled => CardGood \/ \E g \in Gets : Mends(g)
    /\ \A g \in Begun : Reads(g) = holder /\ ~gets[g].overtaken =>
         GetGood(g) \/ \E f \in Gets : Mends(f) /\ (gets[f].step = "sent" \/ g \in gets[f].after)

CardInvs == RoomInv /\ EventInv /\ LoadInv

LEMMA RoomAppend ==
  ASSUME CardTypes, NEW x \in RoomMessages, Len(messages) < MaxRoom
  PROVE  /\ Append(messages, x) \in Seq(RoomMessages) /\ Len(Append(messages, x)) = Len(messages) + 1
         /\ Len(Append(messages, x)) <= MaxRoom
         /\ DOMAIN Append(messages, x) = 1..Len(messages) + 1
         /\ \A n \in 1..Len(messages) : Append(messages, x)[n] = messages[n]
         /\ Append(messages, x)[Len(messages) + 1] = x
BY CardAssumption DEF CardTypes

LEMMA RoomTail ==
  ASSUME CardTypes, messages # <<>>
  PROVE  /\ Tail(messages) \in Seq(RoomMessages) /\ Len(Tail(messages)) = Len(messages) - 1
         /\ Len(Tail(messages)) <= MaxRoom
         /\ DOMAIN Tail(messages) = 1..Len(messages) - 1
         /\ \A n \in 1..Len(messages) - 1 : Tail(messages)[n] = messages[n + 1]
         /\ Head(messages) = messages[1] /\ Head(messages) \in RoomMessages
         /\ 1 \in DOMAIN messages /\ Len(messages) \in Nat /\ DOMAIN messages = 1..Len(messages)
         /\ \A n \in 1..Len(messages) - 1 : n + 1 \in DOMAIN messages
BY CardAssumption DEF CardTypes

\* What a message, a request and a card consist of.
LEMMA MessageParts ==
  ASSUME NEW x \in RoomMessages
  PROVE  /\ x.type \in {"ack", "progress", "completed"} /\ x.of \in Cardholders /\ x.day \in CardDays
         /\ x.value \in Int /\ x.holds \in BOOLEAN /\ x.missedBy \subseteq Gets
         /\ x.type = "progress" => x.value \in 0..TARGET
         /\ x.type = "completed" => x.value \in 0..MaxCardDays
         /\ <<x.of, x.day>> \in Contracts
BY CardAssumption DEF RoomMessages, Contracts

LEMMA GetParts ==
  ASSUME NEW x \in CardGets, x.step \in {"user", "row"}
  PROVE  /\ x.streak \in 0..MaxCardDays /\ x.overtaken \in BOOLEAN /\ x.after \subseteq Gets
         /\ x.step = "user" => x.of \in Cardholders /\ x.day \in CardDays
         /\ x.step = "row" => x.contract \in CardsRead
BY DEF CardGets, NoGet

LEMMA GetOvertaken ==
  ASSUME NEW x \in CardGets, x.step \in {"user", "row"}
  PROVE  LET y == [x EXCEPT !.overtaken = TRUE] IN
         /\ y \in CardGets /\ y.step = x.step /\ y.streak = x.streak /\ y.overtaken
         /\ y.after = x.after
         /\ x.step = "user" => y.of = x.of
         /\ x.step = "row" => y.contract = x.contract
<1>1. CASE x.step = "user"
  <2>1. x \in [step : {"user"}, of : Cardholders, day : CardDays, streak : 0..MaxCardDays,
               overtaken : BOOLEAN, after : SUBSET Gets]
    BY <1>1 DEF CardGets, NoGet
  <2> QED BY <1>1, <2>1 DEF CardGets
<1>2. CASE x.step = "row"
  <2>1. x \in [step : {"row"}, streak : 0..MaxCardDays, overtaken : BOOLEAN, after : SUBSET Gets,
               contract : CardsRead]
    BY <1>2 DEF CardGets, NoGet
  <2> QED BY <1>2, <2>1 DEF CardGets
<1> QED BY <1>1, <1>2

LEMMA CardParts ==
  ASSUME NEW k \in CardsRead
  PROVE  /\ k.of \in Cardholders /\ k.day \in CardDays /\ k.progress \in 0..TARGET
         /\ k.completed \in BOOLEAN /\ <<k.of, k.day>> \in Contracts /\ k # NoCard
BY CardAssumption DEF CardsRead, Contracts, NoCard

LEMMA CardStart == ASSUME CardInit PROVE CardTypes /\ CardInvs
<1>1. CardTypes
  <2>1. messages \in Seq(RoomMessages) /\ Len(messages) = 0 BY DEF CardInit
  <2>2. gets \in [Gets -> CardGets] BY DEF CardInit, CardGets
  <2>3. progress \in [Contracts -> 0..TARGET] /\ streaks \in [Cardholders -> 0..MaxCardDays]
    BY CardAssumption DEF CardInit
  <2>4. utcDay \in CardDays BY CardAssumption DEF CardInit, CardDays
  <2>5. hitches \in 0..MaxHitches /\ cardStreak \in 0..MaxCardDays /\ Len(messages) <= MaxRoom
    BY <2>1, CardAssumption DEF CardInit
  <2> QED BY <2>1, <2>2, <2>3, <2>4, <2>5 DEF CardInit, CardTypes
<1>2. DOMAIN messages = {} BY DEF CardInit
<1>3. RoomInv
  <2>1. \A h \in Cardholders : streaks[h] = 0 BY DEF CardInit
  <2> QED BY <1>2, <2>1 DEF CardInit, RoomInv
<1>4. EventInv BY <1>2 DEF EventInv
<1>5. LoadInv BY DEF LoadInv, RoomJoined, CardInit
<1> QED BY <1>1, <1>3, <1>4, <1>5 DEF CardInvs

-----------------------------------------------------------------------------
(* The truth of the events. *)

LEMMA EventsStand ==
  ASSUME CardTypes, EventInv, messages' = messages,
         \A n \in DOMAIN messages :
           LET c == <<messages[n].of, messages[n].day>> IN
           /\ progress[c] <= progress'[c] /\ progress'[c] \in Int
           /\ c \in fulfilled => c \in fulfilled'
           /\ streaks'[messages[n].of] = streaks[messages[n].of]
  PROVE  EventInv'
<1>1. \A n \in DOMAIN messages : messages[n] \in RoomMessages BY DEF CardTypes
<1> SUFFICES ASSUME NEW n \in DOMAIN messages, messages[n].type # "ack",
                    \A m \in n..Len(messages) : messages[m].holds
             PROVE  LET e == messages[n]
                        c == <<e.of, e.day>>
                    IN /\ e.type = "progress" => e.value <= progress'[c]
                       /\ e.type = "completed" =>
                            /\ c \in fulfilled'
                            /\ (\A m \in n + 1..Len(messages) : messages[m].type # "completed") =>
                                 e.value = streaks'[e.of]
  BY DEF EventInv
<1> DEFINE e == messages[n]
           c == <<e.of, e.day>>
<1>2. /\ e.type = "progress" => e.value <= progress[c]
      /\ e.type = "completed" =>
           /\ c \in fulfilled
           /\ (\A m \in n + 1..Len(messages) : messages[m].type # "completed") => e.value = streaks[e.of]
  BY DEF EventInv
<1>3. e.value \in Int /\ c \in Contracts BY <1>1, MessageParts
<1>4. progress[c] \in Int BY <1>3 DEF CardTypes
<1> QED BY <1>2, <1>3, <1>4

LEMMA EventComes ==
  ASSUME CardTypes, EventInv, NEW x \in RoomMessages, Len(messages) < MaxRoom,
         messages' = Append(messages, x),
         x.holds => /\ \A c \in Contracts : progress[c] <= progress'[c] /\ progress'[c] \in Int
                    /\ fulfilled \subseteq fulfilled'
                    /\ x.type # "completed" => streaks' = streaks,
         x.holds /\ x.type = "progress" => x.value <= progress'[<<x.of, x.day>>],
         x.holds /\ x.type = "completed" =>
           <<x.of, x.day>> \in fulfilled' /\ x.value = streaks'[x.of]
  PROVE  EventInv'
<1> DEFINE L == Len(messages)
<1>1. /\ DOMAIN messages' = 1..L + 1 /\ Len(messages') = L + 1 /\ messages'[L + 1] = x
      /\ \A n \in 1..L : messages'[n] = messages[n]
  BY RoomAppend
<1>2. L \in Nat /\ DOMAIN messages = 1..L /\ \A n \in 1..L : messages[n] \in RoomMessages
  BY DEF CardTypes
<1> HIDE DEF L
<1> SUFFICES ASSUME NEW n \in 1..L + 1, messages'[n].type # "ack",
                    \A m \in n..L + 1 : messages'[m].holds
             PROVE  LET e == messages'[n]
                        c == <<e.of, e.day>>
                    IN /\ e.type = "progress" => e.value <= progress'[c]
                       /\ e.type = "completed" =>
                            /\ c \in fulfilled'
                            /\ (\A m \in n + 1..L + 1 : messages'[m].type # "completed") =>
                                 e.value = streaks'[e.of]
  BY <1>1 DEF EventInv
<1>3. x.holds BY <1>1, <1>2
<1>4. CASE n = L + 1 BY <1>1, <1>3, <1>4
<1>5. CASE n \in 1..L
  <2> DEFINE e == messages[n]
             c == <<e.of, e.day>>
  <2>1. \A m \in n..L : messages[m].holds BY <1>1, <1>2, <1>5
  <2>2. messages'[n] = e BY <1>1, <1>5
  <2>3. /\ e.type = "progress" => e.value <= progress[c]
        /\ e.type = "completed" =>
             /\ c \in fulfilled
             /\ (\A m \in n + 1..L : messages[m].type # "completed") => e.value = streaks[e.of]
    BY <1>2, <1>5, <2>1, <2>2 DEF EventInv, L
  <2>4. e.value \in Int /\ c \in Contracts BY <1>2, <1>5, MessageParts
  <2>5. progress[c] \in Int BY <2>4 DEF CardTypes
  <2>6. e.type = "progress" => e.value <= progress'[c] BY <1>3, <2>3, <2>4, <2>5
  <2>7. e.type = "completed" => c \in fulfilled' BY <1>3, <2>3
  <2>8. ASSUME e.type = "completed", \A m \in n + 1..L + 1 : messages'[m].type # "completed"
        PROVE  e.value = streaks'[e.of]
    <3>1. \A m \in n + 1..L : messages[m].type # "completed" BY <1>1, <1>2, <1>5, <2>8
    <3>2. L + 1 \in n + 1..L + 1 BY <1>2, <1>5
    <3>3. x.type # "completed" BY <1>1, <2>8, <3>2
    <3> QED BY <1>3, <2>3, <2>8, <3>1, <3>3
  <2> QED BY <2>2, <2>6, <2>7, <2>8
<1>6. n = L + 1 \/ n \in 1..L BY <1>2
<1> QED BY <1>4, <1>5, <1>6

LEMMA EventGoes ==
  ASSUME CardTypes, EventInv, messages # <<>>, messages' = Tail(messages),
         UNCHANGED <<progress, fulfilled, streaks>>
  PROVE  EventInv'
<1> DEFINE L == Len(messages)
<1>1. /\ DOMAIN messages' = 1..L - 1 /\ Len(messages') = L - 1
      /\ \A n \in 1..L - 1 : messages'[n] = messages[n + 1]
      /\ L \in Nat /\ DOMAIN messages = 1..L
  BY RoomTail
<1> HIDE DEF L
<1> SUFFICES ASSUME NEW n \in 1..L - 1, messages'[n].type # "ack",
                    \A m \in n..L - 1 : messages'[m].holds
             PROVE  LET e == messages'[n]
                        c == <<e.of, e.day>>
                    IN /\ e.type = "progress" => e.value <= progress[c]
                       /\ e.type = "completed" =>
                            /\ c \in fulfilled
                            /\ (\A m \in n + 1..L - 1 : messages'[m].type # "completed") =>
                                 e.value = streaks[e.of]
  BY <1>1 DEF EventInv
<1>2. n + 1 \in 1..L /\ messages'[n] = messages[n + 1] BY <1>1
<1>3. \A m \in n + 1..L : messages[m].holds
  <2> SUFFICES ASSUME NEW m \in n + 1..L PROVE messages[m].holds OBVIOUS
  <2>1. m - 1 \in n..L - 1 /\ m - 1 \in 1..L - 1 /\ m - 1 + 1 = m BY <1>1
  <2> QED BY <1>1, <2>1
<1>4. ASSUME \A m \in n + 1..L - 1 : messages'[m].type # "completed",
             NEW m \in n + 1 + 1..L
      PROVE  messages[m].type # "completed"
  <2>1. m - 1 \in n + 1..L - 1 /\ m - 1 \in 1..L - 1 /\ m - 1 + 1 = m BY <1>1
  <2> QED BY <1>1, <1>4, <2>1
<1> QED BY <1>1, <1>2, <1>3, <1>4 DEF EventInv, L

\* What keeps the promise of a load: a step of the server that no request sees.
LEMMA LoadStands ==
  ASSUME LoadInv, UNCHANGED <<holder, inRoom, cardAsked, gets, misled, card, cardStreak>>,
         RoomJoined' => RoomJoined,
         RoomJoined => /\ CardGood => CardGood'
                    /\ \A g \in Begun : Reads(g) = holder /\ GetGood(g) => GetGood(g)'
  PROVE  LoadInv'
<1> SUFFICES ASSUME RoomJoined' PROVE LoadInv' BY DEF LoadInv
<1>1. RoomJoined OBVIOUS
<1>2. Begun' = Begun /\ \A g \in Gets : Reads(g)' = Reads(g) BY DEF Begun, Reads
<1>3. \A g \in Gets : Mends(g) => Mends(g)' BY <1>1, <1>2 DEF Mends
<1>4. misled' = misled /\ gets' = gets /\ holder' = holder OBVIOUS
<1>5. ~misled' => CardGood' \/ \E g \in Gets : Mends(g)' BY <1>1, <1>3, <1>4 DEF LoadInv
<1>6. ASSUME NEW g \in Begun', Reads(g)' = holder', ~gets'[g].overtaken
      PROVE  GetGood(g)' \/ \E f \in Gets : Mends(f)' /\ (gets'[f].step = "sent" \/ g \in gets'[f].after)
  <2>g. g \in Begun /\ Reads(g) = holder /\ ~gets[g].overtaken BY <1>2, <1>4, <1>6 DEF Begun
  <2>1. GetGood(g) \/ \E f \in Gets : Mends(f) /\ (gets[f].step = "sent" \/ g \in gets[f].after)
    BY <1>1, <2>g DEF LoadInv
  <2>2. GetGood(g) => GetGood(g)' BY <1>1, <2>g
  <2>3. ASSUME NEW f \in Gets, Mends(f), gets[f].step = "sent" \/ g \in gets[f].after
        PROVE  Mends(f)' /\ (gets'[f].step = "sent" \/ g \in gets'[f].after)
    BY <2>3, <1>3, <1>4
  <2> QED BY <2>1, <2>2, <2>3
<1> QED BY <1>5, <1>6 DEF LoadInv

\* While nothing of the account's contracts changes but their progress, and that only
\* upwards and never of one that has reached its target, what was read stays right.
LEMMA GetStaysGood ==
  ASSUME CardTypes, UNCHANGED <<holder, gets>>, NEW g \in Begun, Reads(g) = holder, GetGood(g),
         streaks'[holder] = streaks[holder],
         \A n \in DOMAIN messages : n \in DOMAIN messages' /\ messages'[n] = messages[n],
         \A c \in Contracts : c[1] = holder =>
           /\ progress[c] <= progress'[c] /\ progress'[c] \in Int
           /\ progress[c] = TARGET => progress'[c] = TARGET
           /\ c \in fulfilled' => c \in fulfilled
  PROVE  GetGood(g)'
<1>1. gets[g].step = "row" => gets[g].contract \in CardsRead /\ gets[g].contract.of = holder
  BY GetParts DEF CardTypes, Begun, Reads
<1> DEFINE k == gets[g].contract
           c == <<k.of, k.day>>
<1>2. gets[g].step = "row" => c \in Contracts /\ c[1] = holder /\ k.progress \in Int
                              /\ progress[c] \in Int
  BY <1>1, CardParts DEF CardTypes
<1>3. gets[g].step = "row" /\ NotAhead(k) => NotAhead(k)' BY <1>2 DEF NotAhead
<1>4. gets[g].step = "row" /\ c \in fulfilled' => c \in fulfilled BY <1>2
<1> QED BY <1>3, <1>4 DEF GetGood

LEMMA CardStaysGood ==
  ASSUME CardTypes, UNCHANGED <<holder, card, cardStreak>>, CardGood, holder # NoHolder,
         streaks'[holder] = streaks[holder],
         \A n \in DOMAIN messages : n \in DOMAIN messages' /\ messages'[n] = messages[n],
         \A c \in Contracts : c[1] = holder =>
           /\ progress[c] <= progress'[c] /\ progress'[c] \in Int
           /\ progress[c] = TARGET => progress'[c] = TARGET
           /\ c \in fulfilled' => c \in fulfilled
  PROVE  CardGood'
<1> DEFINE c == <<card.of, card.day>>
<1>1. card.of = holder => c \in Contracts /\ c[1] = holder /\ card.progress \in Int
                          /\ progress[c] \in Int
  BY CardParts, CardAssumption DEF CardTypes, NoCard
<1>2. card.of = holder /\ NotAhead(card) => NotAhead(card)' BY <1>1 DEF NotAhead
<1>3. card.of = holder /\ c \in fulfilled' => c \in fulfilled BY <1>1
<1> QED BY <1>2, <1>3 DEF CardGood, OfCard

LEMMA EventIs ==
  ASSUME NEW t \in {"ack", "progress", "completed"}, NEW c \in Contracts, NEW n \in Nat,
         NEW true \in BOOLEAN, NEW x,
         t = "progress" => n <= TARGET, t = "completed" => n <= MaxCardDays,
         x = Event(t, c, n, true) \/ x = [Event(t, c, n, true) EXCEPT !.missedBy = Begun]
  PROVE  /\ x \in RoomMessages /\ <<x.of, x.day>> = c /\ x.of = c[1] /\ x.value = n
         /\ x.holds = true /\ x.type = t
         /\ x = [Event(t, c, n, true) EXCEPT !.missedBy = Begun] => x.missedBy = Begun
<1>1. c[1] \in Cardholders /\ c[2] \in CardDays /\ <<c[1], c[2]>> = c BY DEF Contracts
<1>2. Begun \subseteq Gets BY DEF Begun
<1> DEFINE Like(m) == [type |-> t, of |-> c[1], day |-> c[2], value |-> n, holds |-> true,
                       missedBy |-> m]
<1>3. /\ Event(t, c, n, true) = Like({})
      /\ [Event(t, c, n, true) EXCEPT !.missedBy = Begun] = Like(Begun)
  BY DEF Event
<1>4. PICK m \in SUBSET Gets : x = Like(m) BY <1>2, <1>3
<1>5. x \in RoomMessages BY <1>1, <1>4 DEF RoomMessages
<1>6. <<x.of, x.day>> = c /\ x.of = c[1] /\ x.value = n /\ x.holds = true /\ x.type = t
  BY <1>1, <1>4
<1>7. x = [Event(t, c, n, true) EXCEPT !.missedBy = Begun] => x.missedBy = Begun BY <1>3
<1> QED BY <1>5, <1>6, <1>7

LEMMA ProgressedKept ==
  ASSUME CardTypes, CardInvs, NEW h \in Cardholders, Progressed(h)
  PROVE  CardTypes' /\ CardInvs'
<1> DEFINE c == <<h, utcDay>>
           x == [Event("progress", c, progress[c] + 1, TRUE) EXCEPT !.missedBy = Begun]
<1>1. c \in Contracts /\ progress[c] \in 0..TARGET /\ progress[c] + 1 \in 0..TARGET
      /\ progress[c] + 1 < TARGET /\ c \notin fulfilled
  BY CardAssumption DEF CardTypes, Progressed, Contracts
<1>2. progress' = [progress EXCEPT ![c] = progress[c] + 1] BY DEF Progressed
<1>3. progress' \in [Contracts -> 0..TARGET] /\ progress'[c] = progress[c] + 1
      /\ \A d \in Contracts : d # c => progress'[d] = progress[d]
  BY <1>1, <1>2 DEF CardTypes
<1>4. \A d \in Contracts : /\ progress[d] <= progress'[d] /\ progress'[d] \in Int
                           /\ progress[d] = TARGET => progress'[d] = TARGET
  <2> SUFFICES ASSUME NEW d \in Contracts
               PROVE  /\ progress[d] <= progress'[d] /\ progress'[d] \in Int
                      /\ progress[d] = TARGET => progress'[d] = TARGET
    OBVIOUS
  <2>1. progress[d] \in Int /\ TARGET \in Int BY CardAssumption DEF CardTypes
  <2>2. CASE d = c BY <2>1, <2>2, <1>1, <1>3
  <2>3. CASE d # c BY <2>1, <2>3, <1>3
  <2> QED BY <2>2, <2>3
<1>5. messages' = messages \/ (inRoom = h /\ messages' = Append(messages, x))
  <2>1. messages' \in {messages, ToRoom(h, Event("progress", c, progress'[c], TRUE))}
    BY DEF Progressed
  <2>2. progress'[c] = progress[c] + 1 BY <1>3
  <2>3. messages' = messages \/ messages' = ToRoom(h, Event("progress", c, progress[c] + 1, TRUE))
    BY <2>1, <2>2
  <2>4. ToRoom(h, Event("progress", c, progress[c] + 1, TRUE)) =
          IF inRoom = h THEN Append(messages, x) ELSE messages
    BY Zenon DEF ToRoom
  <2> HIDE DEF x
  <2> QED BY <2>3, <2>4
<1>6. x \in RoomMessages /\ <<x.of, x.day>> = c /\ x.value = progress[c] + 1 /\ x.holds
      /\ x.type = "progress" /\ x.of = h
  <2>1. c[1] = h OBVIOUS
  <2>2. /\ x \in RoomMessages /\ <<x.of, x.day>> = c /\ x.of = c[1] /\ x.value = progress[c] + 1
        /\ x.holds = TRUE /\ x.type = "progress"
    <3>1. PICK true \in BOOLEAN : true = TRUE OBVIOUS
    <3>2. x = [Event("progress", c, progress[c] + 1, true) EXCEPT !.missedBy = Begun] BY <3>1, Zenon
    <3>3. progress[c] + 1 \in Nat /\ progress[c] + 1 <= TARGET BY <1>1, CardAssumption
    <3> HIDE DEF x, c
    <3>4. /\ x \in RoomMessages /\ <<x.of, x.day>> = c /\ x.of = c[1] /\ x.value = progress[c] + 1
          /\ x.holds = true /\ x.type = "progress"
      BY <1>1, <3>2, <3>3, EventIs
    <3> QED BY <3>1, <3>4, Zenon
  <2> QED BY <2>1, <2>2
<1> HIDE DEF x
<1>u. UNCHANGED <<utcDay, drawn, fulfilled, streaks, holder, card, cardStreak, sockAs, inRoom,
                  cardAsked, gets, misled, hitches>> /\ Len(messages) < MaxRoom
  BY DEF Progressed
<1>7. messages' \in Seq(RoomMessages) /\ Len(messages') <= MaxRoom
      /\ \A n \in DOMAIN messages : n \in DOMAIN messages' /\ messages'[n] = messages[n]
  <2>1. CASE messages' = messages BY <2>1 DEF CardTypes
  <2>2. CASE messages' = Append(messages, x)
    <3>1. DOMAIN messages = 1..Len(messages) /\ Len(messages) \in Nat BY DEF CardTypes
    <3> QED BY <2>2, <3>1, <1>6, <1>u, RoomAppend
  <2> QED BY <1>5, <2>1, <2>2
<1>8. CardTypes' BY <1>3, <1>7, <1>u DEF CardTypes
<1>9. RoomInv'
  <2>1. \A n \in DOMAIN messages' : messages'[n].of = inRoom
    <3>1. CASE messages' = messages BY <3>1 DEF CardInvs, RoomInv
    <3>2. CASE inRoom = h /\ messages' = Append(messages, x)
      <4>1. DOMAIN messages' = 1..Len(messages) + 1 /\ messages'[Len(messages) + 1] = x
        BY <3>2, <1>6, <1>u, RoomAppend
      <4>2. DOMAIN messages = 1..Len(messages) /\ Len(messages) \in Nat BY DEF CardTypes
      <4> QED BY <3>2, <4>1, <4>2, <1>6, <1>7 DEF CardInvs, RoomInv
    <3> QED BY <1>5, <3>1, <3>2
  <2>2. \A d \in fulfilled : progress'[d] = TARGET /\ d[2] <= utcDay
    BY <1>4 DEF CardInvs, RoomInv, CardTypes
  <2>3. (inRoom = NoHolder /\ messages' = <<>>) \/ (inRoom = sockAs /\ inRoom \in Cardholders)
    BY <1>5, CardAssumption DEF CardInvs, RoomInv
  <2> QED BY <2>1, <2>2, <2>3, <1>u DEF CardInvs, RoomInv
<1>10. EventInv'
  <2>1. CASE messages' = messages
    <3>1. \A n \in DOMAIN messages : <<messages[n].of, messages[n].day>> \in Contracts
      BY MessageParts DEF CardTypes
    <3> QED BY <2>1, <3>1, <1>4, <1>u, EventsStand DEF CardInvs
  <2>2. CASE messages' = Append(messages, x)
    <3>1. \A d \in Contracts : progress[d] <= progress'[d] /\ progress'[d] \in Int BY <1>4
    <3>2. x.value <= progress'[<<x.of, x.day>>] BY <1>1, <1>3, <1>6
    <3> QED BY <2>2, <3>1, <3>2, <1>6, <1>u, EventComes DEF CardInvs
  <2> QED BY <1>5, <2>1, <2>2
<1>11. RoomJoined' => RoomJoined BY <1>7, <1>u DEF RoomJoined
<1>12. RoomJoined => /\ CardGood => CardGood'
                  /\ \A g \in Begun : Reads(g) = holder /\ GetGood(g) => GetGood(g)'
  <2>1. ASSUME RoomJoined, CardGood PROVE CardGood' BY <2>1, <1>4, <1>7, <1>u, CardStaysGood DEF RoomJoined
  <2>2. ASSUME NEW g \in Begun, Reads(g) = holder, GetGood(g) PROVE GetGood(g)'
    BY <2>2, <1>4, <1>7, <1>u, GetStaysGood
  <2> QED BY <2>1, <2>2
<1>13. LoadInv' BY <1>11, <1>12, <1>u, LoadStands DEF CardInvs
<1> QED BY <1>8, <1>9, <1>10, <1>13 DEF CardInvs

LEMMA CutKept ==
  ASSUME CardTypes, CardInvs, NEW h \in Cardholders, FulfilmentCut(h)
  PROVE  CardTypes' /\ CardInvs'
<1> DEFINE c == <<h, utcDay>>
<1>1. c \in Contracts /\ progress[c] \in 0..TARGET /\ TARGET \in 0..TARGET
  BY CardAssumption DEF CardTypes, FulfilmentCut, Contracts
<1>2. progress' = [progress EXCEPT ![c] = TARGET] BY DEF FulfilmentCut
<1>3. progress' \in [Contracts -> 0..TARGET] /\ progress'[c] = TARGET
      /\ \A d \in Contracts : d # c => progress'[d] = progress[d]
  BY <1>1, <1>2 DEF CardTypes
<1>4. \A d \in Contracts : /\ progress[d] <= progress'[d] /\ progress'[d] \in Int
                           /\ progress[d] = TARGET => progress'[d] = TARGET
  <2> SUFFICES ASSUME NEW d \in Contracts
               PROVE  /\ progress[d] <= progress'[d] /\ progress'[d] \in Int
                      /\ progress[d] = TARGET => progress'[d] = TARGET
    OBVIOUS
  <2>1. progress[d] \in 0..TARGET /\ TARGET \in Nat BY CardAssumption DEF CardTypes
  <2>2. CASE d = c BY <2>1, <2>2, <1>1, <1>3
  <2>3. CASE d # c BY <2>1, <2>3, <1>3
  <2> QED BY <2>2, <2>3
<1>u. UNCHANGED <<utcDay, drawn, fulfilled, streaks, holder, card, cardStreak, sockAs, inRoom,
                  messages, cardAsked, gets, misled>>
  BY DEF FulfilmentCut, cardSocket
<1>5. hitches' \in 0..MaxHitches BY CardAssumption DEF FulfilmentCut, Hitch, CardTypes
<1>6. CardTypes' BY <1>3, <1>5, <1>u DEF CardTypes
<1>7. RoomInv'
  <2>1. \A d \in fulfilled : progress'[d] = TARGET /\ d[2] <= utcDay
    BY <1>4 DEF CardInvs, RoomInv, CardTypes
  <2> QED BY <2>1, <1>u DEF CardInvs, RoomInv
<1>8. EventInv'
  <2>1. \A n \in DOMAIN messages : <<messages[n].of, messages[n].day>> \in Contracts
    BY MessageParts DEF CardTypes
  <2> QED BY <2>1, <1>4, <1>u, EventsStand DEF CardInvs
<1>9. RoomJoined' => RoomJoined BY <1>u DEF RoomJoined
<1>10. RoomJoined => /\ CardGood => CardGood'
                  /\ \A g \in Begun : Reads(g) = holder /\ GetGood(g) => GetGood(g)'
  <2>1. ASSUME RoomJoined, CardGood PROVE CardGood' BY <2>1, <1>4, <1>u, CardStaysGood DEF RoomJoined
  <2>2. ASSUME NEW g \in Begun, Reads(g) = holder, GetGood(g) PROVE GetGood(g)'
    BY <2>2, <1>4, <1>u, GetStaysGood
  <2> QED BY <2>1, <2>2
<1>11. LoadInv' BY <1>9, <1>10, <1>u, LoadStands DEF CardInvs
<1> QED BY <1>6, <1>7, <1>8, <1>11 DEF CardInvs

LEMMA MidnightKept == ASSUME CardTypes, CardInvs, CardMidnight PROVE CardTypes' /\ CardInvs'
<1>u. UNCHANGED <<drawn, progress, fulfilled, streaks, holder, card, cardStreak, sockAs, inRoom,
                  messages, cardAsked, gets, misled, hitches>>
  BY DEF CardMidnight, cardSocket
<1>1. utcDay \in Int /\ utcDay' = utcDay + 1 /\ utcDay' \in CardDays
  BY CardAssumption DEF CardTypes, CardMidnight, CardDays
<1>2. CardTypes' BY <1>u, <1>1 DEF CardTypes
<1>3. RoomInv'
  <2>1. \A c \in fulfilled : progress[c] = TARGET /\ c[2] <= utcDay' /\ c[2] # utcDay'
    <3> SUFFICES ASSUME NEW c \in fulfilled
                 PROVE  progress[c] = TARGET /\ c[2] <= utcDay' /\ c[2] # utcDay'
      OBVIOUS
    <3>1. c[2] \in Int BY DEF CardTypes, Contracts, CardDays
    <3>2. progress[c] = TARGET /\ c[2] <= utcDay BY DEF CardInvs, RoomInv
    <3> QED BY <3>1, <3>2, <1>1
  <2>2. \A h \in Cardholders : streaks[h] \in Int /\ streaks[h] < utcDay'
    <3>1. \A h \in Cardholders : streaks[h] <= utcDay BY DEF CardInvs, RoomInv
    <3>2. \A h \in Cardholders : streaks[h] \in Int BY CardAssumption DEF CardTypes
    <3> QED BY <1>1, <3>1, <3>2
  <2>3. \A h \in Cardholders : streaks[h] <= utcDay' BY <1>1, <2>2
  <2> QED BY <1>u, <2>1, <2>2, <2>3 DEF CardInvs, RoomInv
<1>4. EventInv' BY <1>u DEF CardInvs, EventInv
<1>5. LoadInv'
  <2>1. Begun' = Begun /\ RoomJoined' = RoomJoined /\ CardGood' = CardGood
        /\ \A g \in Gets : Reads(g)' = Reads(g) /\ GetGood(g)' = GetGood(g)
    BY <1>u DEF Begun, RoomJoined, CardGood, Reads, GetGood, NotAhead, OfCard
  <2>2. \A g \in Gets : Mends(g)' = Mends(g) BY <1>u, <2>1 DEF Mends
  <2>3. Begun \subseteq Gets BY DEF Begun
  <2> QED BY <1>u, <2>1, <2>2, <2>3 DEF CardInvs, LoadInv
<1> QED BY <1>2, <1>3, <1>4, <1>5 DEF CardInvs

LEMMA FulfilledKept ==
  ASSUME CardTypes, CardInvs, NEW h \in Cardholders, NEW ok \in BOOLEAN, Fulfilled(h, ok)
  PROVE  CardTypes' /\ CardInvs'
<1> DEFINE c == <<h, utcDay>>
           n0 == IF ok THEN streaks[h] + 1 ELSE 0
           x == [Event("completed", c, n0, ok) EXCEPT !.missedBy = Begun]
           L == Len(messages)
<1>1. c \in Contracts /\ c \notin fulfilled /\ progress[c] \in 0..TARGET /\ c[1] = h /\ c[2] = utcDay
  BY DEF CardTypes, Fulfilled, Contracts
<1>2. streaks[h] \in Nat /\ streaks[h] < utcDay /\ utcDay \in Nat /\ utcDay <= MaxCardDays
      /\ MaxCardDays \in Nat /\ TARGET \in Nat
  BY <1>1, CardAssumption DEF CardTypes, CardInvs, RoomInv, CardDays
<1>u. UNCHANGED <<utcDay, drawn, holder, card, cardStreak, sockAs, inRoom, cardAsked, gets, misled>>
      /\ L < MaxRoom /\ L \in Nat /\ DOMAIN messages = 1..L
  BY DEF Fulfilled, CardTypes
<1>3. PICK kept \in 0..TARGET : progress' = [progress EXCEPT ![c] = kept] /\ (ok => kept = TARGET)
  <2>1. 0..progress[c] \cup {TARGET} \subseteq 0..TARGET BY <1>1, <1>2
  <2> QED BY <1>2, <2>1 DEF Fulfilled
<1>4. progress' \in [Contracts -> 0..TARGET] /\ progress'[c] = kept
      /\ \A d \in Contracts : d # c => progress'[d] = progress[d]
  BY <1>1, <1>3 DEF CardTypes
<1>5a. ok => fulfilled' = fulfilled \cup {c} /\ streaks' = [streaks EXCEPT ![h] = streaks[h] + 1]
                /\ hitches' = hitches
  BY DEF Fulfilled
<1>5b. ~ok => fulfilled' = fulfilled /\ streaks' = streaks /\ hitches < MaxHitches
                /\ hitches' = hitches + 1
  BY DEF Fulfilled, Hitch
<1>5. hitches' \in 0..MaxHitches
  <2>1. hitches \in 0..MaxHitches /\ MaxHitches \in Nat BY CardAssumption DEF CardTypes
  <2> QED BY <2>1, <1>5a, <1>5b
<1>6a. ok => streaks'[h] = streaks[h] + 1 /\ c \in fulfilled'
  BY <1>5a DEF CardTypes
<1>6. streaks' \in [Cardholders -> 0..MaxCardDays] /\ fulfilled' \subseteq Contracts
      /\ (\A o \in Cardholders : o # h => streaks'[o] = streaks[o])
      /\ fulfilled \subseteq fulfilled' /\ fulfilled' \subseteq fulfilled \cup {c}
      /\ fulfilled \subseteq Contracts
  <2>1. streaks \in [Cardholders -> 0..MaxCardDays] /\ fulfilled \subseteq Contracts BY DEF CardTypes
  <2>2. streaks[h] + 1 \in 0..MaxCardDays BY <1>2
  <2>3. CASE ok BY <1>1, <2>1, <2>2, <2>3, <1>5a
  <2>4. CASE ~ok BY <1>1, <2>1, <2>4, <1>5b
  <2> QED BY <2>3, <2>4
<1>7. messages' = IF inRoom = h THEN Append(messages, x) ELSE messages
  <2>1. CASE ok
    <3>1. messages' = ToRoom(h, Event("completed", c, streaks[h] + 1, ok))
      <4>1. messages' = ToRoom(h, Event("completed", c, streaks'[h], TRUE)) BY <2>1 DEF Fulfilled
      <4>2. streaks'[h] = streaks[h] + 1 BY <2>1, <1>6a
      <4>3. ok = TRUE BY <2>1
      <4> QED BY <4>1, <4>2, <4>3, Zenon
    <3>2. n0 = streaks[h] + 1 BY <2>1
    <3> QED BY <3>1, <3>2 DEF ToRoom
  <2>2. CASE ~ok
    <3>1. messages' = ToRoom(h, Event("completed", c, 0, ok))
      <4>1. messages' = ToRoom(h, Event("completed", c, 0, FALSE)) BY <2>2 DEF Fulfilled
      <4>2. ok = FALSE BY <2>2
      <4> QED BY <4>1, <4>2, Zenon
    <3>2. n0 = 0 BY <2>2
    <3> QED BY <3>1, <3>2 DEF ToRoom
  <2> QED BY <2>1, <2>2
<1>8. /\ x \in RoomMessages /\ <<x.of, x.day>> = c /\ x.of = h /\ x.value = n0 /\ x.holds = ok
      /\ x.type = "completed" /\ x.missedBy = Begun
  <2>1. n0 \in Nat /\ n0 <= MaxCardDays BY <1>2
  <2>2. x = [Event("completed", c, n0, ok) EXCEPT !.missedBy = Begun] OBVIOUS
  <2> HIDE DEF x, n0, c
  <2> QED BY <1>1, <2>1, <2>2, EventIs
<1>9. n0 = IF ok THEN streaks[h] + 1 ELSE 0 OBVIOUS
<1> HIDE DEF x, n0, L
<1>10. inRoom = h => /\ messages' \in Seq(RoomMessages) /\ Len(messages') = L + 1 /\ L + 1 <= MaxRoom
                     /\ DOMAIN messages' = 1..L + 1 /\ messages'[L + 1] = x
                     /\ \A n \in 1..L : messages'[n] = messages[n]
  BY <1>7, <1>8, <1>u, RoomAppend DEF L
<1>11. \A n \in DOMAIN messages : n \in DOMAIN messages' /\ messages'[n] = messages[n]
  BY <1>7, <1>10, <1>u
<1>12. CardTypes'
  <2>1. messages' \in Seq(RoomMessages) /\ Len(messages') <= MaxRoom BY <1>7, <1>10 DEF CardTypes
  <2> QED BY <1>4, <1>5, <1>6, <1>u, <2>1 DEF CardTypes
<1>13. RoomInv'
  <2>1. (inRoom = NoHolder /\ messages' = <<>>) \/ (inRoom = sockAs /\ inRoom \in Cardholders)
    BY <1>7, CardAssumption DEF CardInvs, RoomInv
  <2>2. \A n \in DOMAIN messages' : messages'[n].of = inRoom
    <3>1. \A n \in DOMAIN messages : messages[n].of = inRoom BY DEF CardInvs, RoomInv
    <3>2. CASE inRoom = h
      <4>1. \A n \in 1..L + 1 : n \in 1..L \/ n = L + 1 BY <1>u
      <4> QED BY <1>8, <1>10, <1>u, <3>1, <3>2, <4>1
    <3>3. CASE inRoom # h BY <1>7, <3>1, <3>3
    <3> QED BY <3>2, <3>3
  <2>3. \A d \in fulfilled' : progress'[d] = TARGET /\ d[2] <= utcDay
    <3> SUFFICES ASSUME NEW d \in fulfilled' PROVE progress'[d] = TARGET /\ d[2] <= utcDay OBVIOUS
    <3>1. CASE d = c
      <4>1. ok BY <1>1, <1>5b, <3>1
      <4> QED BY <1>1, <1>2, <1>3, <1>4, <3>1, <4>1
    <3>2. CASE d # c
      <4>1. d \in fulfilled /\ d \in Contracts BY <1>6, <3>2
      <4> QED BY <1>4, <3>2, <4>1 DEF CardInvs, RoomInv
    <3> QED BY <3>1, <3>2
  <2>4. \A o \in Cardholders : /\ streaks'[o] <= utcDay
                               /\ <<o, utcDay>> \notin fulfilled' => streaks'[o] < utcDay
    <3> SUFFICES ASSUME NEW o \in Cardholders
                 PROVE  /\ streaks'[o] <= utcDay
                        /\ <<o, utcDay>> \notin fulfilled' => streaks'[o] < utcDay
      OBVIOUS
    <3>1. CASE o # h BY <1>6, <3>1 DEF CardInvs, RoomInv
    <3>2. CASE o = h /\ ok
      <4>1. <<o, utcDay>> \in fulfilled' BY <1>6a, <3>2
      <4>2. streaks'[h] = streaks[h] + 1 BY <1>6a, <3>2
      <4> QED BY <1>2, <3>2, <4>1, <4>2
    <3>3. CASE o = h /\ ~ok BY <1>5b, <3>3 DEF CardInvs, RoomInv
    <3> QED BY <3>1, <3>2, <3>3
  <2> QED BY <2>1, <2>2, <2>3, <2>4, <1>u DEF RoomInv
<1>14. \A d \in Contracts : (ok \/ d[1] # h) => progress[d] <= progress'[d] /\ progress'[d] \in Int
  <2> SUFFICES ASSUME NEW d \in Contracts, ok \/ d[1] # h
               PROVE  progress[d] <= progress'[d] /\ progress'[d] \in Int
    OBVIOUS
  <2>1. progress[d] \in 0..TARGET BY DEF CardTypes
  <2>2. CASE d = c BY <1>1, <1>2, <1>3, <1>4, <2>1, <2>2
  <2>3. CASE d # c BY <1>4, <2>1, <2>3
  <2> QED BY <2>2, <2>3
<1>15. EventInv'
  <2>1. CASE inRoom = h
    <3>1. ok => /\ \A d \in Contracts : progress[d] <= progress'[d] /\ progress'[d] \in Int
                /\ fulfilled \subseteq fulfilled'
      BY <1>6, <1>14
    <3>2. ok => c \in fulfilled' /\ x.value = streaks'[x.of] BY <1>6a, <1>8, <1>9
    <3>3. messages' = Append(messages, x) /\ L < MaxRoom BY <1>7, <1>u, <2>1
    <3> QED BY <1>8, <3>1, <3>2, <3>3, EventComes DEF CardInvs, L
  <2>2. CASE inRoom # h
    <3> SUFFICES ASSUME NEW n \in DOMAIN messages
                 PROVE  LET d == <<messages[n].of, messages[n].day>> IN
                        /\ progress[d] <= progress'[d] /\ progress'[d] \in Int
                        /\ d \in fulfilled => d \in fulfilled'
                        /\ streaks'[messages[n].of] = streaks[messages[n].of]
      BY <1>7, <2>2, EventsStand DEF CardInvs
    <3>1. messages[n] \in RoomMessages /\ messages[n].of = inRoom BY DEF CardTypes, CardInvs, RoomInv
    <3>2. <<messages[n].of, messages[n].day>> \in Contracts /\ messages[n].of \in Cardholders
      BY <3>1, MessageParts
    <3> QED BY <1>6, <1>14, <2>2, <3>1, <3>2
  <2> QED BY <2>1, <2>2
<1>16. RoomJoined' => RoomJoined BY <1>11, <1>u DEF RoomJoined
<1>17. RoomJoined => /\ CardGood => CardGood'
                  /\ \A g \in Begun : Reads(g) = holder /\ GetGood(g) => GetGood(g)'
  <2> SUFFICES ASSUME RoomJoined
               PROVE  /\ CardGood => CardGood'
                      /\ \A g \in Begun : Reads(g) = holder /\ GetGood(g) => GetGood(g)'
    OBVIOUS
  <2>h. holder \in Cardholders /\ holder # NoHolder /\ inRoom = holder BY DEF RoomJoined, CardTypes
  <2>1. CASE h # holder
    <3>1. streaks'[holder] = streaks[holder] BY <1>6, <2>1, <2>h
    <3>2. \A d \in Contracts : d[1] = holder =>
            /\ progress[d] <= progress'[d] /\ progress'[d] \in Int
            /\ progress[d] = TARGET => progress'[d] = TARGET
            /\ d \in fulfilled' => d \in fulfilled
      BY <1>1, <1>4, <1>6, <1>14, <2>1
    <3>3. CardGood => CardGood' BY <1>11, <1>u, <2>h, <3>1, <3>2, CardStaysGood
    <3>4. ASSUME NEW g \in Begun, Reads(g) = holder, GetGood(g) PROVE GetGood(g)'
      BY <1>11, <1>u, <3>1, <3>2, <3>4, GetStaysGood
    <3> QED BY <3>3, <3>4
  <2>2. CASE h = holder /\ ~ok
    <3>1. L + 1 \in DOMAIN messages' /\ messages'[L + 1] = x /\ ~x.holds /\ x.type # "ack"
          /\ x.missedBy = Begun
      BY <1>8, <1>10, <1>u, <2>2, <2>h
    <3> QED BY <3>1 DEF CardGood, GetGood
  <2>3. CASE h = holder /\ ok
    <3>1. L + 1 \in DOMAIN messages' /\ messages'[L + 1] = x /\ x.type = "completed"
          /\ x.missedBy = Begun
      BY <1>8, <1>10, <1>u, <2>3, <2>h
    <3>2. \A k \in CardsRead : NotAhead(k) => (k.completed => progress'[<<k.of, k.day>>] = TARGET)
                                              /\ k.progress <= progress'[<<k.of, k.day>>]
      <4> SUFFICES ASSUME NEW k \in CardsRead, NotAhead(k)
                   PROVE  (k.completed => progress'[<<k.of, k.day>>] = TARGET)
                          /\ k.progress <= progress'[<<k.of, k.day>>]
        OBVIOUS
      <4> DEFINE d == <<k.of, k.day>>
      <4>1. d \in Contracts /\ k.progress \in Int /\ progress[d] \in Int BY CardParts DEF CardTypes
      <4>2. progress[d] <= progress'[d] /\ progress'[d] \in Int BY <1>14, <2>3, <4>1
      <4>3. k.completed => progress'[d] = TARGET BY <1>3, <1>4, <2>3, <4>1 DEF NotAhead
      <4>4. k.progress <= progress[d] BY DEF NotAhead
      <4> QED BY <4>1, <4>2, <4>3, <4>4
    <3>3. \A n \in DOMAIN messages : n \in DOMAIN messages' /\ messages'[n] = messages[n] BY <1>11
    <3>4. card.of = holder => card \in CardsRead BY <2>h, CardAssumption DEF CardTypes, NoCard
    <3>5. CardGood => CardGood'
      BY <1>u, <3>1, <3>2, <3>3, <3>4 DEF CardGood, NotAhead, OfCard
    <3>6. ASSUME NEW g \in Begun, GetGood(g) PROVE GetGood(g)'
      <4>1. gets[g].step = "row" => gets[g].contract \in CardsRead BY GetParts DEF CardTypes, Begun
      <4>2. gets[g].step = "row" /\ NotAhead(gets[g].contract) => NotAhead(gets[g].contract)'
        BY <1>u, <3>2, <4>1 DEF NotAhead
      <4> QED BY <1>u, <3>1, <3>3, <3>6, <4>2 DEF GetGood
    <3> QED BY <3>5, <3>6
  <2> QED BY <2>1, <2>2, <2>3
<1>18. LoadInv' BY <1>16, <1>17, <1>u, LoadStands DEF CardInvs
<1> QED BY <1>12, <1>13, <1>15, <1>18 DEF CardInvs

LEMMA RoomStands ==
  ASSUME RoomInv, EventInv, UNCHANGED <<utcDay, progress, fulfilled, streaks, sockAs, inRoom, messages>>
  PROVE  RoomInv' /\ EventInv'
<1>1. RoomInv' BY DEF RoomInv
<1>2. EventInv' BY DEF EventInv
<1> QED BY <1>1, <1>2

LEMMA SameGet ==
  ASSUME NEW g \in Gets, gets'[g] = gets[g], UNCHANGED <<messages, streaks, holder, fulfilled, progress>>
  PROVE  /\ Reads(g)' = Reads(g) /\ (GetGood(g)' <=> GetGood(g)) /\ (Mends(g)' <=> Mends(g))
         /\ g \in Begun' <=> g \in Begun
<1>1. Reads(g)' = Reads(g) BY DEF Reads
<1>2. GetGood(g)' <=> GetGood(g) BY DEF GetGood, NotAhead
<1>3. g \in Begun' <=> g \in Begun BY DEF Begun
<1> QED BY <1>1, <1>2, <1>3 DEF Mends

LEMMA UserReadKept ==
  ASSUME CardTypes, CardInvs, NEW g \in Gets, UserRead(g) PROVE CardTypes' /\ CardInvs'
<1>u. UNCHANGED <<utcDay, drawn, progress, fulfilled, streaks, holder, card, cardStreak, sockAs,
                  inRoom, messages, cardAsked, misled, hitches>>
  BY DEF UserRead, cardRows, cardSocket
<1> DEFINE y == [step |-> "user", of |-> gets[g].of, day |-> utcDay, streak |-> streaks[gets[g].of],
                 overtaken |-> FALSE, after |-> Begun]
<1>1. gets[g].step = "sent" /\ gets[g] \in CardGets /\ gets \in [Gets -> CardGets]
  BY DEF UserRead, CardTypes
<1>2. gets[g].of \in Cardholders BY <1>1 DEF CardGets, NoGet
<1>3. y \in CardGets
  <2>1. streaks[gets[g].of] \in 0..MaxCardDays /\ utcDay \in CardDays BY <1>2 DEF CardTypes
  <2>2. Begun \subseteq Gets BY DEF Begun
  <2> QED BY <1>2, <2>1, <2>2 DEF CardGets
<1>4. gets' = [gets EXCEPT ![g] = y] BY DEF UserRead
<1>5. /\ y.step = "user" /\ y.of = gets[g].of /\ y.streak = streaks[gets[g].of] /\ ~y.overtaken
      /\ y.after = Begun
  OBVIOUS
<1> HIDE DEF y
<1>6. gets' \in [Gets -> CardGets] /\ gets'[g] = y /\ \A f \in Gets : f # g => gets'[f] = gets[f]
  BY <1>1, <1>3, <1>4
<1>7. CardTypes' BY <1>6, <1>u DEF CardTypes
<1>8. LoadInv'
  <2> SUFFICES ASSUME RoomJoined' PROVE LoadInv' BY DEF LoadInv
  <2>1. RoomJoined BY <1>u DEF RoomJoined
  <2>2. \A f \in Gets : f # g => /\ Reads(f)' = Reads(f) /\ (GetGood(f)' <=> GetGood(f))
                                 /\ (Mends(f)' <=> Mends(f)) /\ (f \in Begun' <=> f \in Begun)
    BY <1>6, <1>u, SameGet
  <2>3. Reads(g)' = gets[g].of BY <1>5, <1>6 DEF Reads
  <2>4. gets[g].of = holder => GetGood(g)' BY <1>5, <1>6, <1>u DEF GetGood
  <2>5. Mends(g) => Mends(g)'
    <3>1. Mends(g) => gets[g].of = holder BY <1>1 DEF Mends, Begun
    <3>2. g \in Begun' BY <1>5, <1>6 DEF Begun
    <3> QED BY <2>3, <2>4, <3>1, <3>2, <1>u DEF Mends
  <2>6. \A f \in Gets : Mends(f) => Mends(f)' BY <2>2, <2>5
  <2>7. CardGood' <=> CardGood BY <1>u DEF CardGood, NotAhead, OfCard
  <2>8. ~misled' => CardGood' \/ \E f \in Gets : Mends(f)'
    BY <2>1, <2>6, <2>7, <1>u DEF CardInvs, LoadInv
  <2>9. ASSUME NEW e \in Begun', Reads(e)' = holder', ~gets'[e].overtaken
        PROVE  GetGood(e)' \/ \E f \in Gets : Mends(f)' /\ (gets'[f].step = "sent" \/ e \in gets'[f].after)
    <3>1. CASE e = g BY <2>3, <2>4, <2>9, <3>1, <1>u
    <3>2. CASE e # g
      <4>1. e \in Gets /\ e \in Begun /\ Reads(e) = holder /\ ~gets[e].overtaken
        BY <2>2, <2>9, <3>2, <1>6, <1>u DEF Begun
      <4>2. GetGood(e) \/ \E f \in Gets : Mends(f) /\ (gets[f].step = "sent" \/ e \in gets[f].after)
        BY <2>1, <4>1 DEF CardInvs, LoadInv
      <4>3. ASSUME NEW f \in Gets, Mends(f), gets[f].step = "sent" \/ e \in gets[f].after
            PROVE  Mends(f)' /\ (gets'[f].step = "sent" \/ e \in gets'[f].after)
        <5>1. CASE f = g BY <1>5, <1>6, <2>5, <4>1, <4>3, <5>1
        <5>2. CASE f # g BY <1>6, <2>6, <4>3, <5>2
        <5> QED BY <5>1, <5>2
      <4> QED BY <2>2, <3>2, <4>1, <4>2, <4>3
    <3> QED BY <3>1, <3>2
  <2> QED BY <2>8, <2>9 DEF LoadInv
<1>9. RoomInv' /\ EventInv' BY <1>u, RoomStands DEF CardInvs
<1> QED BY <1>7, <1>8, <1>9 DEF CardInvs

LEMMA RowReadKept ==
  ASSUME CardTypes, CardInvs, NEW g \in Gets, RowRead(g) PROVE CardTypes' /\ CardInvs'
<1>u. UNCHANGED <<utcDay, progress, fulfilled, streaks, holder, card, cardStreak, sockAs, inRoom,
                  messages, cardAsked, misled, hitches>>
  BY DEF RowRead, cardSocket
<1> DEFINE c == <<gets[g].of, gets[g].day>>
           k == [of |-> gets[g].of, day |-> gets[g].day, progress |-> progress[c],
                 completed |-> c \in fulfilled]
           y == [step |-> "row", streak |-> gets[g].streak, overtaken |-> gets[g].overtaken,
                 after |-> gets[g].after, contract |-> k]
<1>1. gets[g].step = "user" /\ gets[g] \in CardGets /\ gets \in [Gets -> CardGets]
  BY DEF RowRead, CardTypes
<1>2. gets[g].of \in Cardholders /\ gets[g].day \in CardDays /\ c \in Contracts
      /\ gets[g].streak \in 0..MaxCardDays /\ gets[g].overtaken \in BOOLEAN /\ gets[g].after \subseteq Gets
  BY <1>1, GetParts DEF Contracts
<1>3. k \in CardsRead
  <2>1. progress[c] \in 0..TARGET BY <1>2 DEF CardTypes
  <2> QED BY <1>2, <2>1 DEF CardsRead
<1>k. k.of = gets[g].of /\ <<k.of, k.day>> = c /\ k.progress = progress[c] /\ (k.completed <=> c \in fulfilled)
  OBVIOUS
<1>4. drawn' = drawn \cup {c} /\ gets' = [gets EXCEPT ![g] = y] BY DEF RowRead
<1> HIDE DEF k
<1>5. y \in CardGets BY <1>2, <1>3 DEF CardGets
<1>6. /\ y.step = "row" /\ y.streak = gets[g].streak /\ y.overtaken = gets[g].overtaken
      /\ y.after = gets[g].after /\ y.contract = k
  OBVIOUS
<1> HIDE DEF y
<1>7. gets' \in [Gets -> CardGets] /\ gets'[g] = y /\ \A f \in Gets : f # g => gets'[f] = gets[f]
  BY <1>1, <1>4, <1>5
<1>8. CardTypes' BY <1>2, <1>4, <1>7, <1>u DEF CardTypes
<1>9. Reads(g)' = Reads(g) BY <1>1, <1>6, <1>7, <1>k DEF Reads
<1>10. GetGood(g) => GetGood(g)'
  <2>1. (k.completed => progress'[<<k.of, k.day>>] = TARGET) /\ k.progress <= progress'[<<k.of, k.day>>]
    <3>1. c \in fulfilled => progress[c] = TARGET BY DEF CardInvs, RoomInv
    <3>2. progress[c] \in Int BY <1>2 DEF CardTypes
    <3> QED BY <1>k, <1>u, <3>1, <3>2
  <2>2. NotAhead(gets[g].contract)' BY <2>1, <1>6, <1>7 DEF NotAhead
  <2>3. <<k.of, k.day>> \in fulfilled => k.completed BY <1>k
  <2> QED BY <2>2, <2>3, <1>6, <1>7, <1>u DEF GetGood
<1>11. LoadInv'
  <2> SUFFICES ASSUME RoomJoined' PROVE LoadInv' BY DEF LoadInv
  <2>1. RoomJoined BY <1>u DEF RoomJoined
  <2>2. \A f \in Gets : f # g => /\ Reads(f)' = Reads(f) /\ (GetGood(f)' <=> GetGood(f))
                                 /\ (Mends(f)' <=> Mends(f)) /\ (f \in Begun' <=> f \in Begun)
    BY <1>7, <1>u, SameGet
  <2>3. g \in Begun /\ g \in Begun' BY <1>1, <1>6, <1>7 DEF Begun
  <2>4. Mends(g) => Mends(g)' BY <1>1, <1>6, <1>7, <1>9, <1>10, <1>u, <2>3 DEF Mends
  <2>5. \A f \in Gets : Mends(f) => Mends(f)' BY <2>2, <2>4
  <2>6. CardGood' <=> CardGood BY <1>u DEF CardGood, NotAhead, OfCard
  <2>7. ~misled' => CardGood' \/ \E f \in Gets : Mends(f)'
    BY <2>1, <2>5, <2>6, <1>u DEF CardInvs, LoadInv
  <2>8. ASSUME NEW e \in Begun', Reads(e)' = holder', ~gets'[e].overtaken
        PROVE  GetGood(e)' \/ \E f \in Gets : Mends(f)' /\ (gets'[f].step = "sent" \/ e \in gets'[f].after)
    <3>1. e \in Gets /\ e \in Begun /\ Reads(e) = holder /\ ~gets[e].overtaken
      BY <2>2, <2>3, <2>8, <1>6, <1>7, <1>9, <1>u DEF Begun
    <3>2. GetGood(e) \/ \E f \in Gets : Mends(f) /\ (gets[f].step = "sent" \/ e \in gets[f].after)
      BY <2>1, <3>1 DEF CardInvs, LoadInv
    <3>3. GetGood(e) => GetGood(e)' BY <1>10, <2>2, <3>1
    <3>4. ASSUME NEW f \in Gets, Mends(f), gets[f].step = "sent" \/ e \in gets[f].after
          PROVE  Mends(f)' /\ (gets'[f].step = "sent" \/ e \in gets'[f].after)
      BY <1>1, <1>6, <1>7, <2>5, <3>4
    <3> QED BY <3>2, <3>3, <3>4
  <2> QED BY <2>7, <2>8 DEF LoadInv
<1>12. RoomInv' /\ EventInv' BY <1>u, RoomStands DEF CardInvs
<1> QED BY <1>8, <1>11, <1>12 DEF CardInvs

LEMMA GetFailsKept ==
  ASSUME CardTypes, CardInvs, NEW g \in Gets, GetFails(g) PROVE CardTypes' /\ CardInvs'
<1>u. UNCHANGED <<utcDay, drawn, progress, fulfilled, streaks, holder, card, cardStreak, sockAs,
                  inRoom, messages, cardAsked>> /\ misled' = TRUE
  BY DEF GetFails, cardRows, cardSocket
<1>1. gets' = [f \in Gets |-> IF f = g THEN NoGet
                              ELSE IF f \in Begun THEN [gets[f] EXCEPT !.overtaken = TRUE]
                              ELSE gets[f]]
  BY DEF GetFails
<1>2. \A f \in Begun : [gets[f] EXCEPT !.overtaken = TRUE] \in CardGets
                       /\ [gets[f] EXCEPT !.overtaken = TRUE].overtaken
  BY GetOvertaken DEF CardTypes, Begun
<1>3. gets' \in [Gets -> CardGets]
  <2>1. \A f \in Gets : gets[f] \in CardGets BY DEF CardTypes
  <2>2. NoGet \in CardGets BY DEF CardGets
  <2> QED BY <1>1, <1>2, <2>1, <2>2
<1>4. hitches' \in 0..MaxHitches BY CardAssumption DEF GetFails, Hitch, CardTypes
<1>5. CardTypes' BY <1>3, <1>4, <1>u DEF CardTypes
<1>6. \A e \in Begun' : gets'[e].overtaken
  <2> SUFFICES ASSUME NEW e \in Begun' PROVE gets'[e].overtaken OBVIOUS
  <2>1. e \in Gets /\ gets'[e].step \in {"user", "row"} BY DEF Begun
  <2>2. e # g BY <1>1, <2>1 DEF NoGet
  <2>3. e \in Begun BY <1>1, <2>1, <2>2 DEF Begun
  <2> QED BY <1>1, <1>2, <2>1, <2>2, <2>3
<1>7. LoadInv' BY <1>6, <1>u DEF LoadInv
<1>8. RoomInv' /\ EventInv' BY <1>u, RoomStands DEF CardInvs
<1> QED BY <1>5, <1>7, <1>8 DEF CardInvs

LEMMA CardLoadedKept ==
  ASSUME CardTypes, CardInvs, NEW g \in Gets, CardLoaded(g) PROVE CardTypes' /\ CardInvs'
<1>u. UNCHANGED <<utcDay, drawn, progress, fulfilled, streaks, holder, sockAs, inRoom, messages,
                  cardAsked, hitches>>
  BY DEF CardLoaded, cardRows, cardSocket
<1> DEFINE Late(f) == f \in Begun /\ f \in gets[g].after
<1>1. /\ card' = gets[g].contract /\ cardStreak' = gets[g].streak
      /\ misled' <=> gets[g].overtaken \/ card'.of # holder
      /\ gets' = [f \in Gets |-> IF f = g THEN NoGet
                                 ELSE IF Late(f) THEN [gets[f] EXCEPT !.overtaken = TRUE] ELSE gets[f]]
  BY DEF CardLoaded
<1>2. gets[g].step = "row" /\ gets[g] \in CardGets /\ g \in Begun
  BY DEF CardLoaded, CardTypes, Begun
<1>3. gets[g].contract \in CardsRead /\ gets[g].streak \in 0..MaxCardDays
      /\ gets[g].overtaken \in BOOLEAN /\ Reads(g) = card'.of
  BY <1>1, <1>2, GetParts DEF Reads
<1>4. \A f \in Begun : LET y == [gets[f] EXCEPT !.overtaken = TRUE] IN
        /\ y \in CardGets /\ y.step = gets[f].step /\ y.streak = gets[f].streak /\ y.overtaken
        /\ y.after = gets[f].after
        /\ gets[f].step = "user" => y.of = gets[f].of
        /\ gets[f].step = "row" => y.contract = gets[f].contract
  BY GetOvertaken DEF CardTypes, Begun
<1>5. gets' \in [Gets -> CardGets]
  <2>1. \A f \in Gets : gets[f] \in CardGets BY DEF CardTypes
  <2>2. NoGet \in CardGets BY DEF CardGets
  <2>3. \A f \in Gets : Late(f) => [gets[f] EXCEPT !.overtaken = TRUE] \in CardGets BY <1>4
  <2> HIDE DEF Late
  <2> QED BY <1>1, <2>1, <2>2, <2>3
<1>6. misled' \in BOOLEAN BY DEF CardLoaded
<1>7. CardTypes' BY <1>1, <1>3, <1>5, <1>6, <1>u DEF CardTypes
<1>8. \A f \in Gets : f # g /\ ~Late(f) => gets'[f] = gets[f] BY <1>1
<1>9. \A f \in Gets : f # g /\ Late(f) =>
        /\ gets'[f].step = gets[f].step /\ gets'[f].overtaken /\ gets'[f].after = gets[f].after
        /\ Reads(f)' = Reads(f)
  <2> SUFFICES ASSUME NEW f \in Gets, f # g, Late(f)
               PROVE  /\ gets'[f].step = gets[f].step /\ gets'[f].overtaken
                      /\ gets'[f].after = gets[f].after /\ Reads(f)' = Reads(f)
    OBVIOUS
  <2>1. gets'[f] = [gets[f] EXCEPT !.overtaken = TRUE] BY <1>1
  <2>2. gets[f].step \in {"user", "row"} BY DEF Begun
  <2> QED BY <1>4, <2>1, <2>2 DEF Reads
<1>10. ASSUME NEW f \in Gets, f # g, Mends(f)
       PROVE  Mends(f)' /\ gets'[f].step = gets[f].step
              /\ (gets[f].step # "sent" => gets'[f].after = gets[f].after)
  <2>1. CASE Late(f)
    <3>1. gets[f].step \in {"user", "row"} BY <2>1 DEF Begun
    <3>2. f \in Begun' BY <1>9, <1>10, <2>1, <3>1 DEF Begun
    <3>3. Reads(f) = holder BY <1>10, <3>1 DEF Mends
    <3>4. Reads(f)' = holder' /\ gets'[f].overtaken BY <1>9, <1>10, <1>u, <2>1, <3>3
    <3>5. Mends(f)' BY <3>2, <3>4 DEF Mends
    <3> QED BY <1>9, <1>10, <2>1, <3>5
  <2>2. CASE ~Late(f) BY <1>8, <1>10, <1>u, <2>2, SameGet
  <2> QED BY <2>1, <2>2
<1>11. LoadInv'
  <2> SUFFICES ASSUME RoomJoined' PROVE LoadInv' BY DEF LoadInv
  <2>1. RoomJoined BY <1>u DEF RoomJoined
  <2>2. ASSUME ~misled' PROVE CardGood' \/ \E f \in Gets : Mends(f)'
    <3>1. ~gets[g].overtaken /\ Reads(g) = holder BY <1>1, <1>3, <2>2
    <3>2. GetGood(g) \/ \E f \in Gets : Mends(f) /\ (gets[f].step = "sent" \/ g \in gets[f].after)
      BY <1>2, <2>1, <3>1 DEF CardInvs, LoadInv
    <3>3. ASSUME GetGood(g) PROVE CardGood'
      <4>0. \A n \in DOMAIN messages : messages[n].type # "ack" BY <2>1 DEF RoomJoined
      <4>1. CASE \E n \in DOMAIN messages : g \in messages[n].missedBy /\ ~messages[n].holds
        BY <1>u, <4>0, <4>1 DEF CardGood
      <4>2. CASE ~\E n \in DOMAIN messages : g \in messages[n].missedBy /\ ~messages[n].holds
        <5>1. NotAhead(card)' BY <1>1, <1>2, <1>u, <3>3, <4>2 DEF GetGood, NotAhead
        <5>2. card'.of = holder' BY <1>3, <1>u, <3>1
        <5> QED BY <1>1, <1>2, <1>u, <3>3, <4>2, <5>1, <5>2 DEF GetGood, CardGood
      <4> QED BY <4>1, <4>2
    <3>4. ASSUME NEW f \in Gets, Mends(f), gets[f].step = "sent" \/ g \in gets[f].after
          PROVE  CardGood' \/ \E e \in Gets : Mends(e)'
      <4>1. CASE f = g
        <5>1. GetGood(g) BY <1>2, <3>1, <3>4, <4>1 DEF Mends
        <5> QED BY <3>3, <5>1
      <4>2. CASE f # g BY <1>10, <3>4, <4>2
      <4> QED BY <4>1, <4>2
    <3> QED BY <3>2, <3>3, <3>4
  <2>3. ASSUME NEW e \in Begun', Reads(e)' = holder', ~gets'[e].overtaken
        PROVE  GetGood(e)' \/ \E f \in Gets : Mends(f)' /\ (gets'[f].step = "sent" \/ e \in gets'[f].after)
    <3>1. e \in Gets /\ e # g /\ ~Late(e)
      <4>1. e \in Gets /\ gets'[e].step \in {"user", "row"} BY <2>3 DEF Begun
      <4>2. e # g BY <1>1, <4>1 DEF NoGet
      <4> QED BY <1>9, <2>3, <4>1, <4>2
    <3>2. e \in Begun /\ Reads(e) = holder /\ ~gets[e].overtaken /\ (GetGood(e)' <=> GetGood(e))
      BY <1>8, <1>u, <2>3, <3>1, SameGet
    <3>3. GetGood(e) \/ \E f \in Gets : Mends(f) /\ (gets[f].step = "sent" \/ e \in gets[f].after)
      BY <2>1, <3>2 DEF CardInvs, LoadInv
    <3>4. ASSUME NEW f \in Gets, Mends(f), gets[f].step = "sent" \/ e \in gets[f].after
          PROVE  Mends(f)' /\ (gets'[f].step = "sent" \/ e \in gets'[f].after)
      <4>1. f # g BY <1>2, <3>1, <3>2, <3>4
      <4> QED BY <1>10, <3>4, <4>1
    <3> QED BY <3>2, <3>3, <3>4
  <2> QED BY <2>2, <2>3 DEF LoadInv
<1>12. RoomInv' /\ EventInv' BY <1>u, RoomStands DEF CardInvs
<1> QED BY <1>7, <1>11, <1>12 DEF CardInvs

\* A load sends a request of the account that is shown.
LEMMA LoadSends ==
  ASSUME CardTypes, Load, holder' \in Cardholders \cup {NoHolder}
  PROVE  /\ gets' \in [Gets -> CardGets]
         /\ holder' = NoHolder => gets' = gets
         /\ holder' # NoHolder => \E g \in Gets :
              /\ gets[g] = NoGet /\ gets'[g].step = "sent" /\ gets'[g].of = holder'
              /\ \A f \in Gets : f # g => gets'[f] = gets[f]
<1>1. CASE holder' = NoHolder BY <1>1 DEF Load, CardTypes
<1>2. CASE holder' # NoHolder
  <2>1. PICK g \in Gets : gets[g] = NoGet /\ gets' = [gets EXCEPT ![g] = [step |-> "sent", of |-> holder']]
    BY <1>2 DEF Load
  <2> DEFINE y == [step |-> "sent", of |-> holder']
  <2>2. y \in CardGets BY <1>2 DEF CardGets
  <2>3. y.step = "sent" /\ y.of = holder' OBVIOUS
  <2> HIDE DEF y
  <2>4. gets' \in [Gets -> CardGets] /\ gets'[g] = y /\ \A f \in Gets : f # g => gets'[f] = gets[f]
    BY <2>1, <2>2 DEF CardTypes, y
  <2> QED BY <1>2, <2>1, <2>3, <2>4
<1> QED BY <1>1, <1>2

LEMMA HolderKept ==
  ASSUME CardTypes, CardInvs, NEW h \in Cardholders \cup {NoHolder}, HolderChanges(h)
  PROVE  CardTypes' /\ CardInvs'
<1>u. UNCHANGED <<utcDay, drawn, progress, fulfilled, streaks, card, cardStreak, sockAs, inRoom,
                  messages, misled>> /\ cardAsked' = FALSE /\ holder' = h
  BY DEF HolderChanges, cardRows
<1>1. gets' \in [Gets -> CardGets]
  <2>1. CASE holder = NoHolder BY <2>1, <1>u, LoadSends DEF HolderChanges
  <2>2. CASE holder # NoHolder BY <2>2 DEF HolderChanges, CardTypes
  <2> QED BY <2>1, <2>2
<1>2. hitches' \in 0..MaxHitches BY CardAssumption DEF HolderChanges, Hitch, CardTypes
<1>3. CardTypes' BY <1>1, <1>2, <1>u DEF CardTypes
<1>4. LoadInv' BY <1>u DEF LoadInv, RoomJoined
<1>5. RoomInv' /\ EventInv' BY <1>u, RoomStands DEF CardInvs
<1> QED BY <1>3, <1>4, <1>5 DEF CardInvs

LEMMA SocketKept ==
  ASSUME CardTypes, CardInvs, SocketRestarts PROVE CardTypes' /\ CardInvs'
<1>u. UNCHANGED <<utcDay, drawn, progress, fulfilled, streaks, holder, card, cardStreak, gets, misled>>
      /\ cardAsked' = FALSE /\ sockAs' = holder /\ inRoom' = NoHolder /\ messages' = <<>>
  BY DEF SocketRestarts, cardRows
<1>1. hitches' \in 0..MaxHitches BY CardAssumption DEF SocketRestarts, Hitch, CardTypes
<1>2. messages' \in Seq(RoomMessages) /\ Len(messages') = 0 /\ DOMAIN messages' = {} BY <1>u
<1>3. CardTypes'
  <2>1. Len(messages') <= MaxRoom BY <1>2, CardAssumption
  <2> HIDE DEF CardInvs
  <2> QED BY <1>1, <1>2, <1>u, <2>1 DEF CardTypes
<1>4. LoadInv' BY <1>u DEF LoadInv, RoomJoined
<1>5. EventInv' BY <1>2 DEF EventInv
<1>6. RoomInv' BY <1>2, <1>u DEF RoomInv, CardInvs
<1> QED BY <1>3, <1>4, <1>5, <1>6 DEF CardInvs

LEMMA RoomAskedKept ==
  ASSUME CardTypes, CardInvs, RoomAsked PROVE CardTypes' /\ CardInvs'
<1>u. UNCHANGED <<utcDay, drawn, progress, fulfilled, streaks, holder, card, cardStreak, sockAs,
                  gets, misled, hitches>>
      /\ cardAsked' = TRUE /\ holder # NoHolder /\ Len(messages) < MaxRoom
  BY DEF RoomAsked, cardRows
<1>1. CASE sockAs # holder
  <2>1. inRoom' = inRoom /\ messages' = messages BY <1>1 DEF RoomAsked
  <2>2. CardTypes' BY <1>u, <2>1 DEF CardTypes
  <2>3. inRoom # holder BY <1>1, <1>u DEF CardInvs, RoomInv
  <2>4. LoadInv' BY <1>u, <2>1, <2>3 DEF LoadInv, RoomJoined
  <2>5. RoomInv' /\ EventInv' BY <1>u, <2>1, RoomStands DEF CardInvs
  <2> QED BY <2>2, <2>4, <2>5 DEF CardInvs
<1>2. CASE sockAs = holder
  <2> DEFINE c == <<holder, utcDay>>
             L == Len(messages)
  <2>1. c \in Contracts /\ c[1] = holder /\ holder \in Cardholders
    BY <1>u DEF CardTypes, Contracts
  <2>2. PICK x : x = Event("ack", c, 0, TRUE) OBVIOUS
  <2>3. x \in RoomMessages /\ x.of = holder /\ x.type = "ack" /\ x.holds = TRUE
    <3>1. PICK true \in BOOLEAN : true = TRUE OBVIOUS
    <3>2. x = Event("ack", c, 0, true) BY <2>2, <3>1, Zenon
    <3> HIDE DEF c
    <3>3. x \in RoomMessages /\ x.of = c[1] /\ x.type = "ack" /\ x.holds = true
      BY <2>1, <3>2, EventIs
    <3> QED BY <2>1, <3>1, <3>3, Zenon
  <2>4. inRoom' = holder /\ messages' = Append(messages, x) BY <1>2, <2>2 DEF RoomAsked
  <2>5. /\ messages' \in Seq(RoomMessages) /\ Len(messages') = L + 1 /\ Len(messages') <= MaxRoom
        /\ DOMAIN messages' = 1..L + 1 /\ messages'[L + 1] = x
        /\ \A n \in 1..L : messages'[n] = messages[n]
    BY <2>3, <2>4, <1>u, RoomAppend
  <2>6. L \in Nat /\ DOMAIN messages = 1..L BY DEF CardTypes
  <2> HIDE DEF L
  <2>7. CardTypes' BY <1>u, <2>1, <2>4, <2>5 DEF CardTypes
  <2>8. \A n \in DOMAIN messages' : messages'[n].of = holder
    <3>1. \A n \in DOMAIN messages : messages[n].of = inRoom /\ inRoom = holder
      BY <1>2, <2>6 DEF CardInvs, RoomInv
    <3>2. \A n \in 1..L + 1 : n \in 1..L \/ n = L + 1 BY <2>6
    <3> QED BY <2>3, <2>5, <2>6, <3>1, <3>2
  <2>9. RoomInv' BY <1>u, <1>2, <2>1, <2>4, <2>8 DEF CardInvs, RoomInv
  <2>10. \A d \in Contracts : progress[d] <= progress'[d] /\ progress'[d] \in Int
    <3>1. \A d \in Contracts : progress[d] \in Int BY DEF CardTypes
    <3> QED BY <1>u, <3>1
  <2>11. EventInv' BY <1>u, <2>3, <2>4, <2>10, EventComes DEF CardInvs
  <2>12. LoadInv'
    <3>1. L + 1 \in DOMAIN messages' BY <2>5, <2>6
    <3> QED BY <2>3, <2>5, <3>1 DEF LoadInv, RoomJoined
  <2> QED BY <2>7, <2>9, <2>11, <2>12 DEF CardInvs
<1> QED BY <1>1, <1>2

LEMMA AckKept ==
  ASSUME CardTypes, CardInvs, MessageApplied, Head(messages).type = "ack"
  PROVE  CardTypes' /\ CardInvs'
<1>u. UNCHANGED <<utcDay, drawn, progress, fulfilled, streaks, holder, card, cardStreak, sockAs,
                  inRoom, cardAsked, misled, hitches>>
      /\ messages # <<>> /\ messages' = Tail(messages) /\ Load
  BY DEF MessageApplied, cardRows, AckReconciles
<1>0. holder' \in Cardholders \cup {NoHolder} BY <1>u DEF CardTypes
<1>1. gets' \in [Gets -> CardGets] BY <1>0, <1>u, LoadSends
<1>2. messages' \in Seq(RoomMessages) /\ Len(messages') <= MaxRoom BY <1>u, RoomTail
<1>3. CardTypes' BY <1>1, <1>2, <1>u DEF CardTypes
<1>4. EventInv' BY <1>u, EventGoes DEF CardInvs
<1>5. RoomInv'
  <2>1. \A n \in DOMAIN messages' : messages'[n].of = inRoom
    BY <1>u, RoomTail DEF CardInvs, RoomInv
  <2>2. inRoom = sockAs /\ inRoom \in Cardholders BY <1>u DEF CardInvs, RoomInv
  <2> QED BY <2>1, <2>2, <1>u DEF CardInvs, RoomInv
<1>6. LoadInv'
  <2> SUFFICES ASSUME RoomJoined' PROVE LoadInv' BY DEF LoadInv
  <2>1. holder' # NoHolder BY DEF RoomJoined
  <2>2. PICK g \in Gets : gets'[g].step = "sent" /\ gets'[g].of = holder'
    BY <1>0, <1>u, <2>1, LoadSends
  <2>3. Mends(g)' BY <2>2 DEF Mends
  <2> QED BY <2>2, <2>3 DEF LoadInv
<1> QED BY <1>3, <1>4, <1>5, <1>6 DEF CardInvs

LEMMA EventKept ==
  ASSUME CardTypes, CardInvs, MessageApplied, Head(messages).type # "ack"
  PROVE  CardTypes' /\ CardInvs'
<1> DEFINE e == Head(messages)
           Miss(g) == g \in e.missedBy /\ g \in Begun
           L == Len(messages)
<1>u. UNCHANGED <<utcDay, drawn, progress, fulfilled, streaks, holder, sockAs, inRoom, cardAsked, hitches>>
      /\ messages # <<>> /\ messages' = Tail(messages)
  BY DEF MessageApplied, cardRows
<1>1. holder = NoHolder => UNCHANGED <<card, cardStreak, gets, misled>> BY DEF MessageApplied
<1>2. holder # NoHolder =>
        /\ IF e.type = "progress" THEN SetProgress(e) ELSE MarkCompleted(e)
        /\ gets' = [g \in Gets |-> IF Miss(g) THEN [gets[g] EXCEPT !.overtaken = TRUE] ELSE gets[g]]
        /\ misled' = (misled \/ ~e.holds \/ ~OfCard(e))
  BY DEF MessageApplied
<1>3. /\ messages' \in Seq(RoomMessages) /\ Len(messages') = L - 1 /\ Len(messages') <= MaxRoom
      /\ DOMAIN messages' = 1..L - 1 /\ \A n \in 1..L - 1 : messages'[n] = messages[n + 1]
      /\ e = messages[1] /\ e \in RoomMessages /\ L \in Nat /\ DOMAIN messages = 1..L
      /\ 1 \in DOMAIN messages /\ \A n \in 1..L - 1 : n + 1 \in DOMAIN messages
  BY <1>u, RoomTail
<1>4. e.type \in {"progress", "completed"} /\ e.value \in Int /\ e.holds \in BOOLEAN
      /\ (e.type = "progress" => e.value \in 0..TARGET)
      /\ (e.type = "completed" => e.value \in 0..MaxCardDays)
  BY <1>3, MessageParts
<1>o. OfCard(e) <=> e.of = card.of /\ e.day = card.day BY DEF OfCard
<1> HIDE DEF e, L
<1>5. /\ card' = NoCard \/ card' \in CardsRead
      /\ cardStreak' \in 0..MaxCardDays /\ card'.of = card.of /\ card'.day = card.day
  <2>1. CASE holder = NoHolder BY <1>1, <2>1 DEF CardTypes
  <2>2. CASE holder # NoHolder /\ e.type = "progress"
    <3>1. card' = (IF card = NoCard THEN card ELSE [card EXCEPT !.progress = e.value])
          /\ cardStreak' = cardStreak
      BY <1>2, <2>2 DEF SetProgress
    <3> QED BY <1>4, <2>2, <3>1 DEF CardTypes, CardsRead
  <2>3. CASE holder # NoHolder /\ e.type # "progress"
    <3>1. card' = (IF card = NoCard THEN card ELSE [card EXCEPT !.completed = TRUE])
          /\ cardStreak' = e.value
      BY <1>2, <2>3 DEF MarkCompleted
    <3> QED BY <1>4, <2>3, <3>1 DEF CardTypes, CardsRead
  <2> QED BY <2>1, <2>2, <2>3
<1>6. \A g \in Gets : Miss(g) => LET y == [gets[g] EXCEPT !.overtaken = TRUE] IN
        /\ y \in CardGets /\ y.step = gets[g].step /\ y.overtaken /\ y.after = gets[g].after
        /\ gets[g].step = "user" => y.of = gets[g].of
        /\ gets[g].step = "row" => y.contract = gets[g].contract
  BY GetOvertaken DEF CardTypes, Begun
<1>7. gets' \in [Gets -> CardGets]
  <2>1. \A f \in Gets : gets[f] \in CardGets BY DEF CardTypes
  <2>2. CASE holder = NoHolder BY <1>1, <2>2 DEF CardTypes
  <2>3. CASE holder # NoHolder
    <3>1. gets' = [g \in Gets |-> IF Miss(g) THEN [gets[g] EXCEPT !.overtaken = TRUE] ELSE gets[g]]
      BY <1>2, <2>3
    <3>2. \A f \in Gets : Miss(f) => [gets[f] EXCEPT !.overtaken = TRUE] \in CardGets BY <1>6
    <3> HIDE DEF Miss
    <3> QED BY <2>1, <3>1, <3>2
  <2> QED BY <2>2, <2>3
<1>8. misled' \in BOOLEAN
  <2>1. CASE holder = NoHolder BY <1>1, <2>1 DEF CardTypes
  <2>2. CASE holder # NoHolder BY <1>2, <2>2
  <2> QED BY <2>1, <2>2
<1>9. CardTypes' BY <1>3, <1>5, <1>7, <1>8, <1>u DEF CardTypes
<1>10. EventInv' BY <1>u, EventGoes DEF CardInvs
<1>11. RoomInv'
  <2>1. \A n \in DOMAIN messages' : messages'[n].of = inRoom
    BY <1>3 DEF CardInvs, RoomInv
  <2>2. inRoom = sockAs /\ inRoom \in Cardholders BY <1>u DEF CardInvs, RoomInv
  <2> QED BY <2>1, <2>2, <1>u DEF CardInvs, RoomInv
<1>12. LoadInv'
  <2> SUFFICES ASSUME RoomJoined' PROVE LoadInv' BY DEF LoadInv
  <2>h. holder # NoHolder BY <1>u DEF RoomJoined
  <2>0. \A n \in DOMAIN messages : n = 1 \/ (n - 1 \in DOMAIN messages' /\ messages'[n - 1] = messages[n])
    <3> SUFFICES ASSUME NEW n \in 1..L, n # 1
                 PROVE  n - 1 \in 1..L - 1 /\ messages'[n - 1] = messages[n]
      BY <1>3
    <3>1. n - 1 \in 1..L - 1 /\ n - 1 + 1 = n BY <1>3
    <3> QED BY <1>3, <3>1
  <2>1. RoomJoined
    <3>1. \A n \in DOMAIN messages : messages[n].type # "ack"
      <4> SUFFICES ASSUME NEW n \in DOMAIN messages PROVE messages[n].type # "ack" OBVIOUS
      <4>1. \A m \in DOMAIN messages' : messages'[m].type # "ack" BY DEF RoomJoined
      <4> QED BY <1>3, <1>4, <2>0, <4>1
    <3> QED BY <1>u, <3>1 DEF RoomJoined
  <2>2. \A g \in Gets : ~Miss(g) => gets'[g] = gets[g] BY <1>2, <2>h
  <2>3. \A g \in Gets : Miss(g) =>
          /\ gets'[g].step = gets[g].step /\ gets'[g].overtaken /\ gets'[g].after = gets[g].after
          /\ Reads(g)' = Reads(g) /\ gets[g].step \in {"user", "row"}
    <3> SUFFICES ASSUME NEW g \in Gets, Miss(g)
                 PROVE  /\ gets'[g].step = gets[g].step /\ gets'[g].overtaken
                        /\ gets'[g].after = gets[g].after /\ Reads(g)' = Reads(g)
                        /\ gets[g].step \in {"user", "row"}
      OBVIOUS
    <3>1. gets'[g] = [gets[g] EXCEPT !.overtaken = TRUE] BY <1>2, <2>h
    <3>2. gets[g].step \in {"user", "row"} BY DEF Begun
    <3> QED BY <1>6, <3>1, <3>2 DEF Reads
  <2>4. ASSUME NEW g \in Begun, ~Miss(g), GetGood(g) PROVE GetGood(g)'
    <3>1. gets'[g] = gets[g] /\ g \notin e.missedBy BY <2>2, <2>4 DEF Begun
    <3>2. \A n \in DOMAIN messages : g \in messages[n].missedBy =>
             n - 1 \in DOMAIN messages' /\ messages'[n - 1] = messages[n]
      BY <1>3, <2>0, <3>1
    <3> QED BY <1>u, <2>4, <3>1, <3>2 DEF GetGood, NotAhead
  <2>5. ASSUME NEW f \in Gets, Mends(f)
        PROVE  Mends(f)' /\ gets'[f].step = gets[f].step
               /\ (gets[f].step # "sent" => gets'[f].after = gets[f].after)
    <3>1. CASE Miss(f)
      <4>1. f \in Begun' BY <2>3, <3>1 DEF Begun
      <4>2. Reads(f) = holder BY <2>3, <2>5, <3>1 DEF Mends
      <4> QED BY <1>u, <2>3, <3>1, <4>1, <4>2 DEF Mends
    <3>2. CASE ~Miss(f)
      <4>1. gets'[f] = gets[f] BY <2>2, <3>2
      <4>2. Reads(f)' = Reads(f) /\ (f \in Begun' <=> f \in Begun) BY <4>1 DEF Reads, Begun
      <4>3. f \in Begun /\ GetGood(f) => GetGood(f)' BY <2>4, <3>2
      <4> QED BY <1>u, <2>5, <4>1, <4>2, <4>3 DEF Mends
    <3> QED BY <3>1, <3>2
  <2>6. ASSUME CardGood, ~misled' PROVE CardGood'
    <3>1. e.holds /\ e.of = card.of /\ e.day = card.day BY <1>2, <1>o, <2>6, <2>h
    <3>2. CASE \E n \in DOMAIN messages : messages[n].type # "ack" /\ (~messages[n].holds \/ ~OfCard(messages[n]))
      <4>1. PICK n \in DOMAIN messages :
              messages[n].type # "ack" /\ (~messages[n].holds \/ ~OfCard(messages[n]))
        BY <3>2
      <4>2. n # 1 BY <1>3, <3>1, <4>1 DEF OfCard
      <4>3. n - 1 \in DOMAIN messages' /\ messages'[n - 1] = messages[n] BY <2>0, <4>2
      <4> QED BY <1>5, <4>1, <4>3 DEF CardGood, OfCard
    <3>3. CASE ~\E n \in DOMAIN messages : messages[n].type # "ack" /\ (~messages[n].holds \/ ~OfCard(messages[n]))
      <4>1. \A n \in 1..L : messages[n].holds BY <1>3, <2>1, <3>3 DEF RoomJoined
      <4>2. /\ card.of = holder /\ NotAhead(card)
            /\ \/ \E n \in DOMAIN messages : messages[n].type = "completed"
               \/ /\ cardStreak = streaks[holder]
                  /\ <<card.of, card.day>> \in fulfilled => card.completed
        BY <2>6, <3>3 DEF CardGood
      <4>3. card # NoCard /\ card \in CardsRead BY <4>2, <2>h DEF CardTypes, NoCard
      <4>c. <<card.of, card.day>> \in Contracts /\ progress[<<card.of, card.day>>] \in Int
            /\ card.progress \in Int
        BY <4>3, CardParts DEF CardTypes
      <4>4. /\ e.type = "progress" => e.value <= progress[<<e.of, e.day>>]
            /\ e.type = "completed" =>
                 /\ <<e.of, e.day>> \in fulfilled
                 /\ (\A m \in 1 + 1..L : messages[m].type # "completed") => e.value = streaks[e.of]
        <5>1. messages[1].type # "ack" /\ \A m \in 1..Len(messages) : messages[m].holds
          BY <1>3, <1>4, <4>1 DEF L
        <5> QED BY <1>3, <5>1 DEF CardInvs, EventInv, L
      <4>5. card'.of = holder' BY <1>5, <1>u, <4>2
      <4>6. CASE e.type = "progress"
        <5>1. card' = [card EXCEPT !.progress = e.value] /\ cardStreak' = cardStreak
          BY <1>2, <2>h, <4>3, <4>6 DEF SetProgress
        <5>2. card'.progress = e.value /\ card'.completed = card.completed
          BY <4>3, <5>1 DEF CardsRead
        <5>3. NotAhead(card)' BY <1>5, <1>u, <3>1, <4>2, <4>4, <4>6, <5>2 DEF NotAhead
        <5>4. \A n \in DOMAIN messages : messages[n].type = "completed" =>
                \E m \in DOMAIN messages' : messages'[m].type = "completed"
          BY <1>3, <2>0, <4>6
        <5> QED BY <1>5, <1>u, <4>2, <4>5, <5>1, <5>2, <5>3, <5>4 DEF CardGood
      <4>7. CASE e.type = "completed"
        <5>1. card' = [card EXCEPT !.completed = TRUE] /\ cardStreak' = e.value
          BY <1>2, <2>h, <4>3, <4>7 DEF MarkCompleted
        <5>2. card'.progress = card.progress /\ card'.completed = TRUE
          BY <4>3, <5>1 DEF CardsRead
        <5>3. progress[<<card.of, card.day>>] = TARGET BY <3>1, <4>4, <4>7 DEF CardInvs, RoomInv
        <5>4. NotAhead(card)' BY <1>5, <1>u, <4>2, <5>2, <5>3 DEF NotAhead
        <5>5. (\A m \in 2..L : messages[m].type # "completed") =>
                cardStreak' = streaks'[holder']
          BY <1>u, <3>1, <4>2, <4>4, <4>7, <5>1
        <5>6. (\E m \in 2..L : messages[m].type = "completed") =>
                \E m \in DOMAIN messages' : messages'[m].type = "completed"
          <6>1. \A m \in 2..L : m \in DOMAIN messages /\ m # 1 BY <1>3
          <6> QED BY <2>0, <6>1
        <5>7. card'.completed BY <5>2
        <5> QED BY <4>5, <5>4, <5>5, <5>6, <5>7 DEF CardGood
      <4> QED BY <1>4, <4>6, <4>7
    <3> QED BY <3>2, <3>3
  <2>7. ~misled' => CardGood' \/ \E f \in Gets : Mends(f)'
    <3>1. ~misled' => ~misled BY <1>2, <2>h
    <3> QED BY <2>1, <2>5, <2>6, <3>1 DEF CardInvs, LoadInv
  <2>8. ASSUME NEW g \in Begun', Reads(g)' = holder', ~gets'[g].overtaken
        PROVE  GetGood(g)' \/ \E f \in Gets : Mends(f)' /\ (gets'[f].step = "sent" \/ g \in gets'[f].after)
    <3>0. g \in Gets BY DEF Begun
    <3>1. ~Miss(g) BY <2>3, <2>8, <3>0
    <3>2. gets'[g] = gets[g] BY <2>2, <3>0, <3>1
    <3>3. g \in Begun /\ Reads(g) = holder /\ ~gets[g].overtaken
      BY <1>u, <2>8, <3>0, <3>2 DEF Begun, Reads
    <3>4. GetGood(g) \/ \E f \in Gets : Mends(f) /\ (gets[f].step = "sent" \/ g \in gets[f].after)
      BY <2>1, <3>3 DEF CardInvs, LoadInv
    <3>5. GetGood(g) => GetGood(g)' BY <2>4, <3>1, <3>3
    <3>6. ASSUME NEW f \in Gets, Mends(f), gets[f].step = "sent" \/ g \in gets[f].after
          PROVE  Mends(f)' /\ (gets'[f].step = "sent" \/ g \in gets'[f].after)
      BY <2>5, <3>6
    <3> QED BY <3>4, <3>5, <3>6
  <2> QED BY <2>7, <2>8 DEF LoadInv
<1> QED BY <1>9, <1>10, <1>11, <1>12 DEF CardInvs

LEMMA CardStep == ASSUME CardTypes, CardInvs, [CardNext]_cardVars PROVE CardTypes' /\ CardInvs'
<1>1. ASSUME NEW h \in Cardholders, Progressed(h) PROVE CardTypes' /\ CardInvs'
  BY <1>1, ProgressedKept
<1>2. ASSUME NEW h \in Cardholders, FulfilmentCut(h) PROVE CardTypes' /\ CardInvs'
  BY <1>2, CutKept
<1>3. ASSUME NEW h \in Cardholders, NEW ok \in BOOLEAN, Fulfilled(h, ok) PROVE CardTypes' /\ CardInvs'
  BY <1>3, FulfilledKept
<1>4. ASSUME NEW h \in Cardholders \cup {NoHolder}, HolderChanges(h) PROVE CardTypes' /\ CardInvs'
  BY <1>4, HolderKept
<1>5. ASSUME NEW g \in Gets, UserRead(g) PROVE CardTypes' /\ CardInvs' BY <1>5, UserReadKept
<1>6. ASSUME NEW g \in Gets, RowRead(g) PROVE CardTypes' /\ CardInvs' BY <1>6, RowReadKept
<1>7. ASSUME NEW g \in Gets, CardLoaded(g) PROVE CardTypes' /\ CardInvs' BY <1>7, CardLoadedKept
<1>8. ASSUME NEW g \in Gets, GetFails(g) PROVE CardTypes' /\ CardInvs' BY <1>8, GetFailsKept
<1>9. CASE CardMidnight BY <1>9, MidnightKept
<1>10. CASE SocketRestarts BY <1>10, SocketKept
<1>11. CASE RoomAsked BY <1>11, RoomAskedKept
<1>12. CASE MessageApplied BY <1>12, AckKept, EventKept
<1>13. CASE UNCHANGED cardVars
  <2>u. UNCHANGED <<utcDay, drawn, progress, fulfilled, streaks, holder, card, cardStreak, sockAs,
                    inRoom, messages, cardAsked, gets, misled, hitches>>
    BY <1>13 DEF cardVars, cardRows, cardSocket
  <2>1. CardTypes' BY <2>u DEF CardTypes
  <2>2. RoomInv' /\ EventInv' BY <2>u, RoomStands DEF CardInvs
  <2>3. \A g \in Gets : GetGood(g)' <=> GetGood(g) BY <2>u DEF GetGood, NotAhead
  <2>4. Begun' = Begun /\ \A g \in Gets : Reads(g)' = Reads(g) BY <2>u DEF Begun, Reads
  <2>5. \A g \in Gets : Mends(g)' <=> Mends(g) BY <2>u, <2>3, <2>4 DEF Mends
  <2>6. CardGood' <=> CardGood BY <2>u DEF CardGood, NotAhead, OfCard
  <2>7. RoomJoined' <=> RoomJoined BY <2>u DEF RoomJoined
  <2>8. Begun \subseteq Gets BY DEF Begun
  <2>9. LoadInv' BY <2>u, <2>3, <2>4, <2>5, <2>6, <2>7, <2>8 DEF LoadInv, CardInvs
  <2> QED BY <2>1, <2>2, <2>9 DEF CardInvs
<1> QED BY <1>1, <1>2, <1>3, <1>4, <1>5, <1>6, <1>7, <1>8, <1>9, <1>10, <1>11, <1>12, <1>13 DEF CardNext

LEMMA CardAtRestIsTrue == ASSUME CardTypes, CardInvs PROVE CardIsTrue
<1> SUFFICES ASSUME CardAtRest, ~misled
             PROVE  /\ card.of = holder /\ cardStreak = streaks[holder]
                    /\ LET c == <<holder, utcDay>> IN
                         card.day = utcDay => /\ c \in fulfilled => ShowsComplete
                                              /\ ShowsComplete => progress[c] = TARGET
                                              /\ card.progress <= progress[c]
  BY DEF CardIsTrue
<1>1. DOMAIN messages = {} /\ holder # NoHolder BY DEF CardAtRest
<1>2. RoomJoined BY <1>1 DEF CardAtRest, RoomJoined
<1>3. \A g \in Gets : ~Mends(g) BY DEF Mends, Begun, CardAtRest, NoGet
<1>4. CardGood BY <1>2, <1>3 DEF CardInvs, LoadInv
<1>5. /\ card.of = holder /\ cardStreak = streaks[holder] /\ NotAhead(card)
      /\ <<card.of, card.day>> \in fulfilled => card.completed
  BY <1>1, <1>4 DEF CardGood
<1>6. card \in CardsRead /\ card # NoCard BY <1>1, <1>5 DEF CardTypes, NoCard
<1>7. <<card.of, card.day>> \in Contracts /\ card.progress \in Int BY <1>6, CardParts
<1>8. progress[<<card.of, card.day>>] \in 0..TARGET /\ TARGET \in Int
  BY <1>7, CardAssumption DEF CardTypes
<1>9. ShowsComplete => progress[<<card.of, card.day>>] = TARGET
  BY <1>5, <1>7, <1>8 DEF ShowsComplete, BarIsFull, NotAhead
<1>10. <<card.of, card.day>> \in fulfilled => ShowsComplete BY <1>5, <1>6 DEF ShowsComplete
<1>11. card.progress <= progress[<<card.of, card.day>>] BY <1>5 DEF NotAhead
<1> QED BY <1>5, <1>9, <1>10, <1>11

LEMMA CardTypesOK == ASSUME CardTypes, CardInvs PROVE CardTypeOK
<1>1. card.of \in Cardholders \cup {NoHolder} /\ card.day \in CardDays \cup {0}
      /\ card.progress \in 0..TARGET /\ card.completed \in BOOLEAN
  <2>1. CASE card = NoCard BY <2>1, CardAssumption DEF NoCard
  <2>2. CASE card \in CardsRead BY <2>2, CardParts
  <2> QED BY <2>1, <2>2 DEF CardTypes
<1>2. inRoom \in Cardholders \cup {NoHolder} BY DEF CardInvs, RoomInv
<1> QED BY <1>1, <1>2 DEF CardTypes, CardTypeOK

\* In every behaviour of the card, for any number of accounts, requests under way and days:
\* when nothing is on its way to a page in its room, the card it shows is true.
THEOREM CardStaysTrue == CardSpec => [](CardTypeOK /\ CardIsTrue)
<1>1. CardInit => CardTypes /\ CardInvs BY CardStart
<1>2. CardTypes /\ CardInvs /\ [CardNext]_cardVars => CardTypes' /\ CardInvs' BY CardStep
<1>3. CardTypes /\ CardInvs => CardTypeOK /\ CardIsTrue BY CardAtRestIsTrue, CardTypesOK
<1> QED BY <1>1, <1>2, <1>3, PTL DEF CardSpec

-----------------------------------------------------------------------------
(* The page as a whole. *)

\* A step of the page is a step, or none, of each of its parts.
LEMMA PartsStep ==
  ASSUME [ClientNext]_clientVars
  PROVE  /\ [SessionNext]_sessionVars /\ [WorldFeedNext]_worldFeedVars
         /\ [AgentFeedNext]_agentFeedVars /\ [TxFlowNext]_txFlowVars /\ [ClockNext]_clockVars
         /\ [SurveysNext]_surveyVars /\ [PanelNext]_panelVars /\ [WorldViewNext]_viewVars
         /\ [AgentViewNext]_figureVars /\ [ShellNext]_shellVars /\ [CardNext]_cardVars
         /\ [RankNext]_rankVars
<1>1. CASE UNCHANGED clientVars BY <1>1 DEF clientVars
<1>2. CASE ClientNext BY <1>2 DEF ClientNext, Others
<1> QED BY <1>1, <1>2

\* What each part keeps on its own it keeps in the page, whichever of them moves.
THEOREM ClientStaysSound ==
  ClientSpec => [](/\ LoginIsHonest /\ SocketFollowsSession /\ RailIsTrue /\ OneMoveAtATime
                   /\ PaidFlowIsSafe /\ SurveysAreKept /\ WorldIsDrawn
                   /\ PageWakes /\ CardIsTrue)
<1>1. ClientInit => /\ SessionInit /\ WorldFeedInit /\ AgentFeedInit /\ TxFlowInit /\ ClockInit
                    /\ SurveysInit /\ PanelInit /\ WorldViewInit /\ AgentViewInit /\ CardInit
                    /\ ShellInit
  BY DEF ClientInit
<1>2. [ClientNext]_clientVars =>
        /\ [SessionNext]_sessionVars /\ [WorldFeedNext]_worldFeedVars
        /\ [AgentFeedNext]_agentFeedVars /\ [TxFlowNext]_txFlowVars /\ [ClockNext]_clockVars
        /\ [SurveysNext]_surveyVars /\ [PanelNext]_panelVars /\ [WorldViewNext]_viewVars
        /\ [AgentViewNext]_figureVars /\ [CardNext]_cardVars /\ [ShellNext]_shellVars
  BY PartsStep
<1>3. ClientSpec => /\ SessionSpec /\ WorldFeedSpec /\ AgentFeedSpec /\ TxFlowSpec /\ ClockSpec
                    /\ SurveysSpec /\ PanelSpec /\ WorldViewSpec /\ AgentViewSpec /\ CardSpec
  BY <1>1, <1>2, PTL DEF ClientSpec, SessionSpec, WorldFeedSpec, AgentFeedSpec, TxFlowSpec,
       ClockSpec, SurveysSpec, PanelSpec, WorldViewSpec, AgentViewSpec, CardSpec
<1>4. ListedVeinPays /\ OneFanfare /\ GoldenHourOnce /\ CountdownIsRight => RailIsTrue
  BY DEF RailIsTrue
<1>5. PhoneNeverHigh /\ PictureIsRight /\ LandIsPartitioned /\ ChoiceIsKept
      /\ DrawnOnce /\ ShakeIsUndone /\ JuiceIsDrawn /\ PanelIsCoherent => WorldIsDrawn
  BY DEF WorldIsDrawn
<1>6. ClientSpec => []PageWakes
  <2>1. ShellInit => BootInv /\ SoundInv BY ShellStart
  <2>2. (BootInv /\ SoundInv) /\ [ShellNext]_shellVars => (BootInv /\ SoundInv)'
    BY BootStep, SoundStep
  <2>3. BootInv /\ SoundInv => PageWakes
    BY BarFollows DEF PageWakes, BootInv, SoundInv, ConfigAskedOnce
  <2> QED BY <1>1, <1>2, <2>1, <2>2, <2>3, PTL DEF ClientSpec
<1> QED BY <1>3, <1>4, <1>5, <1>6, LoginStaysHonest, SocketStaysWithSession, FeedStaysTrue, ClockStaysRight,
       MovesStayOne, PaidFlowStaysSafe, SurveysStayKept, PanelStaysCoherent, PictureStaysRight,
       FiguresStayDrawn, CardStaysTrue, PTL

\* The hexes, the agents and the panel stay drawn as the stores say while every other part
\* of the page moves: no device's grade, chunk, figure, shake or hover gets out of step.
THEOREM WorldStaysDrawn == ClientSpec => []WorldIsDrawn
<1>1. ClientInit => PanelInit /\ WorldViewInit /\ AgentViewInit
  BY DEF ClientInit
<1>2. [ClientNext]_clientVars =>
        [PanelNext]_panelVars /\ [WorldViewNext]_viewVars /\ [AgentViewNext]_figureVars
  BY PartsStep
<1>3. ClientSpec => PanelSpec /\ WorldViewSpec /\ AgentViewSpec
  BY <1>1, <1>2, PTL DEF ClientSpec, PanelSpec, WorldViewSpec, AgentViewSpec
<1>4. PhoneNeverHigh /\ PictureIsRight /\ LandIsPartitioned /\ ChoiceIsKept
      /\ DrawnOnce /\ ShakeIsUndone /\ JuiceIsDrawn /\ PanelIsCoherent => WorldIsDrawn
  BY DEF WorldIsDrawn
<1> QED BY <1>3, <1>4, PanelStaysCoherent, PictureStaysRight, FiguresStayDrawn, PTL

\* The page never turns back or away under the user, whichever part moves.
THEOREM ClientHoldsStill == ClientSpec => PageHoldsStill
<1>1. ClientInit => AgentFeedInit /\ PanelInit BY DEF ClientInit
<1>2. [ClientNext]_clientVars => [AgentFeedNext]_agentFeedVars /\ [PanelNext]_panelVars BY PartsStep
<1>3. ClientSpec => AgentFeedSpec /\ PanelSpec
  BY <1>1, <1>2, PTL DEF ClientSpec, AgentFeedSpec, PanelSpec
<1> QED BY <1>3, AnchorOnlyGrows, PanelStandsStill DEF PageHoldsStill

-----------------------------------------------------------------------------
(* Session: types. *)

LoginSteps == {"idle", "nonce", "sign", "verify", "test", "probe"}

StoreTypes ==
  /\ shown \in Account /\ stale \in BOOLEAN /\ adminFlag \in BOOLEAN
  /\ authenticating \in BOOLEAN /\ authError \in BOOLEAN /\ notice \in BOOLEAN
LoginTypes ==
  /\ loginPc \in [Logins -> LoginSteps]
  /\ loginAs \in [Logins -> Account] /\ probeSaw \in [Logins -> Account]
  /\ nonce \in [Wallets -> Logins \cup {0}] /\ testsLeft \subseteq TestWallets
BrowserTypes ==
  /\ wallet \in Account /\ restore \in Account \cup {"none"} /\ calls \subseteq Account
  /\ logout \in {"none", "sent", "disconnecting"} /\ dashboard \in BOOLEAN
  /\ cookie \in Account /\ keepsCookies \in BOOLEAN
SocketTypes ==
  /\ link \in {"hello", "up"} /\ ident \in Account /\ room \in Account /\ asked \in Account
  /\ listening \in BOOLEAN
SessionTypes ==
  StoreTypes /\ LoginTypes /\ BrowserTypes /\ SocketTypes /\ surprises \in 0..MaxSurprises

LEMMA SessionTypesSay == SessionTypes <=> SessionTypeOK
BY DEF SessionTypes, StoreTypes, LoginTypes, BrowserTypes, SocketTypes, SessionTypeOK, LoginSteps

LEMMA Accounts == /\ NoWallet \in Account /\ Wallets \subseteq Account /\ TestWallets \subseteq Account
BY DEF Account

LEMMA SurpriseCounts ==
  ASSUME surprises \in 0..MaxSurprises, Surprise \/ UNCHANGED surprises
  PROVE  surprises' \in 0..MaxSurprises
BY SessionAssumption DEF Surprise

LEMMA AdminIsBoolean == ASSUME NEW w PROVE IsAdmin(w) \in BOOLEAN
BY DEF IsAdmin

LEMMA SessionBeginsTyped ==
  ASSUME SessionTypes, NEW f \in Logins, NEW w \in Account, SessionBegins(f, w, w)
  PROVE  /\ StoreTypes' /\ cookie' \in Account /\ calls' \subseteq Account
         /\ loginPc' \in [Logins -> LoginSteps] /\ loginAs' \in [Logins -> Account]
         /\ probeSaw' \in [Logins -> Account] /\ asked' \in Account /\ listening' \in BOOLEAN
<1>1. cookie' \in Account
  BY DEF SessionBegins, SessionTypes, BrowserTypes
<1>2. calls' \subseteq Account
  BY <1>1 DEF SessionBegins, SessionTypes, BrowserTypes
<1>3. StoreTypes'
  <2>1. adminFlag' \in BOOLEAN
    BY AdminIsBoolean DEF SessionBegins
  <2> QED BY <2>1 DEF SessionBegins, SetSession, StoreTypes
<1>4. loginPc' \in [Logins -> LoginSteps] /\ loginAs' \in [Logins -> Account]
  BY DEF SessionBegins, SessionTypes, LoginTypes, LoginSteps
<1>5. probeSaw' \in [Logins -> Account]
  BY <1>1 DEF SessionBegins, SessionTypes, LoginTypes
<1>6. asked' \in Account /\ listening' \in BOOLEAN
  BY Accounts DEF SessionBegins
<1> QED BY <1>1, <1>2, <1>3, <1>4, <1>5, <1>6

LEMMA SessionTypeStart == ASSUME SessionInit PROVE SessionTypes
<1>1. StoreTypes BY Accounts DEF SessionInit, StoreTypes
<1>2. LoginTypes BY Accounts DEF SessionInit, LoginTypes, LoginSteps
<1>3. keepsCookies \in BOOLEAN
  BY DEF SessionInit, Kept
<1>4. BrowserTypes BY <1>3, Accounts DEF SessionInit, BrowserTypes
<1>5. SocketTypes BY Accounts DEF SessionInit, SocketTypes
<1>6. surprises \in 0..MaxSurprises BY SessionAssumption DEF SessionInit
<1> QED BY <1>1, <1>2, <1>4, <1>5, <1>6 DEF SessionTypes

\* The end of a login in an error.
LEMMA LoginFailsTyped ==
  ASSUME SessionTypes, NEW f \in Logins, LoginFails(f)
  PROVE  /\ StoreTypes'
         /\ loginPc' \in [Logins -> LoginSteps] /\ loginAs' \in [Logins -> Account]
         /\ probeSaw' \in [Logins -> Account]
<1>1. StoreTypes'
  BY DEF LoginFails, SessionTypes, StoreTypes
<1>2. loginPc' \in [Logins -> LoginSteps]
  BY DEF LoginFails, EndLogin, SessionTypes, LoginTypes, LoginSteps
<1>3. loginAs' \in [Logins -> Account] /\ probeSaw' \in [Logins -> Account]
  BY Accounts DEF LoginFails, EndLogin, SessionTypes, LoginTypes
<1> QED BY <1>1, <1>2, <1>3

LEMMA LoginTypesStep ==
  ASSUME SessionTypes, Login
  PROVE  SessionTypes'
<1>0. PICK f \in Logins : \/ NonceArrives(f) \/ SignMessage(f) \/ VerifyAnswered(f) \/ TestAnswered(f)
                          \/ LoginBreaks(f) \/ \E reached \in BOOLEAN : ProbeAnswered(f, reached)
  BY DEF Login
<1> USE DEF SessionTypes, StoreTypes, LoginTypes, BrowserTypes, SocketTypes, LoginSteps
<1>1. CASE NonceArrives(f)
  <2>1. nonce' \in [Wallets -> Logins \cup {0}] BY <1>1 DEF NonceArrives
  <2>2. loginPc' \in [Logins -> LoginSteps] BY <1>1 DEF NonceArrives
  <2>3. StoreTypes' /\ SocketTypes' BY <1>1 DEF NonceArrives, store, socket
  <2>4. BrowserTypes' /\ UNCHANGED <<loginAs, probeSaw, testsLeft, surprises>>
    BY <1>1 DEF NonceArrives
  <2> QED BY <2>1, <2>2, <2>3, <2>4
<1>2. CASE SignMessage(f)
  BY <1>2 DEF SignMessage, store, socket
<1>3. CASE VerifyAnswered(f)
  <2>1. CASE nonce[loginAs[f]] = f
    <3>1. SessionBegins(f, loginAs[f], loginAs[f]) /\ nonce' = [nonce EXCEPT ![loginAs[f]] = 0]
      BY <1>3, <2>1 DEF VerifyAnswered, Verified
    <3>2. loginAs[f] \in Account /\ nonce' \in [Wallets -> Logins \cup {0}]
      BY <3>1
    <3> HIDE DEF SessionTypes, StoreTypes
    <3>3. /\ StoreTypes' /\ cookie' \in Account /\ calls' \subseteq Account
          /\ loginPc' \in [Logins -> LoginSteps] /\ loginAs' \in [Logins -> Account]
          /\ probeSaw' \in [Logins -> Account] /\ asked' \in Account /\ listening' \in BOOLEAN
      BY <3>1, <3>2, SessionBeginsTyped
    <3>4. UNCHANGED <<wallet, testsLeft, restore, logout, keepsCookies, link, ident, room,
                      dashboard, surprises>>
      BY <1>3 DEF VerifyAnswered
    <3> QED BY <3>2, <3>3, <3>4 DEF SessionTypes
  <2>2. CASE nonce[loginAs[f]] # f
    <3>1. LoginFails(f) /\ UNCHANGED <<nonce, cookie, calls, asked, listening>>
      BY <1>3, <2>2 DEF VerifyAnswered
    <3>2. UNCHANGED <<wallet, testsLeft, restore, logout, keepsCookies, link, ident, room,
                      dashboard, surprises>>
      BY <1>3 DEF VerifyAnswered
    <3> HIDE DEF StoreTypes, LoginSteps
    <3>3. /\ StoreTypes'
          /\ loginPc' \in [Logins -> LoginSteps] /\ loginAs' \in [Logins -> Account]
          /\ probeSaw' \in [Logins -> Account]
      BY <3>1, LoginFailsTyped
    <3> QED BY <3>1, <3>2, <3>3
  <2> QED BY <2>1, <2>2
<1>4. CASE TestAnswered(f)
  <2>1. PICK w \in testsLeft : testsLeft' = testsLeft \ {w} /\ SessionBegins(f, w, w)
    BY <1>4 DEF TestAnswered
  <2>2. w \in Account /\ testsLeft' \subseteq TestWallets
    BY <2>1, Accounts
  <2> HIDE DEF SessionTypes, StoreTypes
  <2>3. /\ StoreTypes' /\ cookie' \in Account /\ calls' \subseteq Account
        /\ loginPc' \in [Logins -> LoginSteps] /\ loginAs' \in [Logins -> Account]
        /\ probeSaw' \in [Logins -> Account] /\ asked' \in Account /\ listening' \in BOOLEAN
    BY <2>1, <2>2, SessionBeginsTyped
  <2>4. UNCHANGED <<wallet, nonce, restore, logout, keepsCookies, link, ident, room, dashboard,
                    surprises>>
    BY <1>4 DEF TestAnswered
  <2> QED BY <2>2, <2>3, <2>4 DEF SessionTypes
<1>5. CASE LoginBreaks(f)
  <2>1. nonce' \in [Wallets -> Logins \cup {0}]
    BY <1>5 DEF LoginBreaks
  <2>2. surprises' \in 0..MaxSurprises
    BY <1>5, SurpriseCounts DEF LoginBreaks
  <2>3. BrowserTypes' /\ SocketTypes' /\ testsLeft' = testsLeft
    BY <1>5 DEF LoginBreaks, socket
  <2> HIDE DEF StoreTypes, LoginSteps
  <2>4. /\ StoreTypes'
        /\ loginPc' \in [Logins -> LoginSteps] /\ loginAs' \in [Logins -> Account]
        /\ probeSaw' \in [Logins -> Account]
    BY <1>5, LoginFailsTyped DEF LoginBreaks
  <2> QED BY <2>1, <2>2, <2>3, <2>4
<1>6. ASSUME NEW reached \in BOOLEAN, ProbeAnswered(f, reached) PROVE SessionTypes'
  <2>1. surprises' \in 0..MaxSurprises
    BY <1>6, SurpriseCounts DEF ProbeAnswered
  <2>2. CASE reached /\ Confirmed(probeSaw[f])
    BY <1>6, <2>1, <2>2, Accounts DEF ProbeAnswered, EndLogin, ReconnectSocket, Handshake, IsAdmin
  <2>3. CASE ~(reached /\ Confirmed(probeSaw[f]))
    BY <1>6, <2>1, <2>3, Accounts DEF ProbeAnswered, EndLogin, Cleared
  <2> QED BY <2>2, <2>3
<1> QED BY <1>0, <1>1, <1>2, <1>3, <1>4, <1>5, <1>6

LEMMA SessionTypesStep == ASSUME SessionTypes, [SessionNext]_sessionVars PROVE SessionTypes'
<1>1. CASE Login BY <1>1, LoginTypesStep
<1> USE DEF SessionTypes, StoreTypes, LoginTypes, BrowserTypes, SocketTypes, LoginSteps
<1>0. CASE UNCHANGED sessionVars BY <1>0 DEF sessionVars, store, logins, socket
<1>2. CASE AutoLogin
  <2>1. PICK f \in Logins : /\ loginPc' = [loginPc EXCEPT ![f] = "nonce"]
                            /\ loginAs' = [loginAs EXCEPT ![f] = wallet]
    BY <1>2 DEF AutoLogin
  <2>2. loginPc' \in [Logins -> LoginSteps] /\ loginAs' \in [Logins -> Account]
    BY <2>1
  <2>3. StoreTypes' /\ SocketTypes' BY <1>2 DEF AutoLogin, socket
  <2>4. BrowserTypes' /\ UNCHANGED <<probeSaw, nonce, testsLeft, surprises>> BY <1>2 DEF AutoLogin
  <2> QED BY <2>2, <2>3, <2>4
<1>3. CASE PlayTestMode BY <1>3, Accounts, SurpriseCounts DEF PlayTestMode, socket
<1>4. ASSUME NEW w \in Wallets, NonceExpires(w) PROVE SessionTypes'
  BY <1>4, SurpriseCounts DEF NonceExpires, store, socket
<1>5. ASSUME NEW w \in Wallets, UseWallet(w) PROVE SessionTypes'
  BY <1>5, Accounts, SurpriseCounts DEF UseWallet, store, logins, socket
<1>6. CASE NoticeSwitch BY <1>6, Accounts DEF NoticeSwitch, Cleared, logins
<1>7. CASE CallApi BY <1>7, SurpriseCounts DEF CallApi, store, logins, socket
<1>8. ASSUME NEW c \in calls, CallAnswered(c) PROVE SessionTypes'
  <2>1. CASE Refused(c) /\ shown # NoWallet
    BY <1>8, <2>1, Accounts DEF CallAnswered, Cleared, logins
  <2>2. CASE ~(Refused(c) /\ shown # NoWallet)
    <3>1. UNCHANGED <<store, asked, logins, surprises>>
      BY <1>8, <2>2 DEF CallAnswered
    <3>2. BrowserTypes' /\ UNCHANGED <<link, ident, room, listening>>
      BY <1>8 DEF CallAnswered
    <3> QED BY <3>1, <3>2 DEF store, logins
  <2> QED BY <2>1, <2>2
<1>9. CASE DismissNotice
  <2>1. StoreTypes' /\ LoginTypes' BY <1>9 DEF DismissNotice, logins
  <2>2. BrowserTypes' /\ SocketTypes' /\ surprises' = surprises BY <1>9 DEF DismissNotice, socket
  <2> QED BY <2>1, <2>2
<1>10. CASE Reload BY <1>10, Accounts, SurpriseCounts DEF Reload, Handshake
<1>11. ASSUME NEW reached \in BOOLEAN, RestoreAnswered(reached) PROVE SessionTypes'
  <2>1. surprises' \in 0..MaxSurprises
    BY <1>11, SurpriseCounts DEF RestoreAnswered
  <2>2. CASE reached /\ Confirmed(restore)
    BY <1>11, <2>1, <2>2, Accounts DEF RestoreAnswered, ReconnectSocket, Handshake, IsAdmin, logins
  <2>3. CASE ~(reached /\ Confirmed(restore))
    BY <1>11, <2>1, <2>3, Accounts DEF RestoreAnswered, Cleared, logins
  <2> QED BY <2>2, <2>3
<1>12. CASE RestoreDropped
  <2>1. adminFlag' \in BOOLEAN
    BY <1>12, AdminIsBoolean DEF RestoreDropped
  <2>2. surprises' \in 0..MaxSurprises
    BY <1>12, SurpriseCounts DEF RestoreDropped
  <2> QED BY <1>12, <2>1, <2>2 DEF RestoreDropped, logins, socket
<1>13. CASE Logout BY <1>13, SurpriseCounts DEF Logout, store, logins, socket
<1>14. ASSUME NEW reached \in BOOLEAN, LogoutAnswered(reached) PROVE SessionTypes'
  <2>1. surprises' \in 0..MaxSurprises
    BY <1>14, SurpriseCounts DEF LogoutAnswered
  <2> QED BY <1>14, <2>1, Accounts DEF LogoutAnswered, Cleared, logins
<1>15. CASE WalletDisconnected
  BY <1>15, Accounts DEF WalletDisconnected, ReconnectSocket, Handshake, store, logins
<1>16. CASE SessionExpires BY <1>16, Accounts, SurpriseCounts DEF SessionExpires, logins, socket
<1>17. CASE CookieDropped
  BY <1>17, Accounts, SurpriseCounts DEF CookieDropped, store, logins, socket
<1>18. CASE Connected BY <1>18, Accounts DEF Connected, store, logins
<1>19. CASE Subscribe BY <1>19, Accounts DEF Subscribe, store, logins
<1>20. CASE LinkDrops BY <1>20, Accounts, SurpriseCounts DEF LinkDrops, Handshake, store, logins
<1>21. CASE OpenDashboard BY <1>21, SurpriseCounts DEF OpenDashboard, store, logins, socket
<1>22. CASE CloseDashboard BY <1>22 DEF CloseDashboard, store, logins
<1> QED BY <1>0, <1>1, <1>2, <1>3, <1>4, <1>5, <1>6, <1>7, <1>8, <1>9, <1>10, <1>11, <1>12, <1>13,
       <1>14, <1>15, <1>16, <1>17, <1>18, <1>19, <1>20, <1>21, <1>22 DEF SessionNext

-----------------------------------------------------------------------------
(* AgentFeed: types. *)

Telling == [Agents -> Status \cup {"same"}]

WorldTypes ==
  /\ status \in [Agents -> Status] /\ cooling \in [Agents -> BOOLEAN] /\ online \in BOOLEAN
  /\ feed \in Seq(Telling) /\ Len(feed) <= MaxFeed
ListTypes ==
  /\ list \in [Agents -> Status \cup {"absent"}]
  /\ \A snap \in answers : snap.status \in [Agents -> Status]
ButtonTypes ==
  /\ busy \in [Agents -> {"no", "rescue", "repair"}] /\ \A x \in cardAnswers : x.agent \in Agents
  /\ turns \in 0..MaxTurns
\* A relocation under way leaves room for itself.
MoveBounds ==
  /\ submitting \in BOOLEAN
  /\ \A a \in Agents : moved[a] <= MaxMoves
  /\ \A a \in moves : moved[a] < MaxMoves
AgentTypes == WorldTypes /\ ListTypes /\ ButtonTypes

LEMMA EmitTyped ==
  ASSUME WorldTypes, NEW e \in Telling, Emit(e), Len(feed) < MaxFeed
  PROVE  feed' \in Seq(Telling) /\ Len(feed') <= MaxFeed
<1>1. CASE online
  <2>1. feed' = Append(feed, e) BY <1>1 DEF Emit
  <2>2. feed \in Seq(Telling) /\ MaxFeed \in Nat BY AgentFeedAssumption DEF WorldTypes
  <2> QED BY <2>1, <2>2
<1>2. CASE ~online
  BY <1>2 DEF Emit, WorldTypes
<1> QED BY <1>1, <1>2

LEMMA OnlyTyped == ASSUME NEW a \in Agents, NEW s \in Status PROVE Only(a, s) \in Telling
BY DEF Only, Telling

LEMMA TurnCounts ==
  ASSUME turns \in 0..MaxTurns, Turn \/ UNCHANGED turns
  PROVE  turns' \in 0..MaxTurns
BY AgentFeedAssumption DEF Turn

LEMMA UpdatedTyped ==
  ASSUME ListTypes, NEW a \in Agents, NEW s \in Status \cup {"same"}
  PROVE  Updated(a, s) \in Status \cup {"absent"}
BY DEF ListTypes, Updated

LEMMA FeedTail ==
  ASSUME NEW S, NEW s \in Seq(S), s # <<>>
  PROVE  Tail(s) \in Seq(S) /\ Len(Tail(s)) <= Len(s) /\ Head(s) \in S
OBVIOUS

LEMMA AgentTypeStart == ASSUME AgentFeedInit PROVE AgentTypes /\ MoveBounds
<1>1. WorldTypes
  <2>1. MaxFeed \in Nat /\ Len(feed) = 0 /\ feed \in Seq(Telling)
    BY AgentFeedAssumption DEF AgentFeedInit
  <2> QED BY <2>1 DEF AgentFeedInit, WorldTypes, Status
<1>2. ListTypes BY DEF AgentFeedInit, ListTypes
<1>3. ButtonTypes BY AgentFeedAssumption DEF AgentFeedInit, ButtonTypes
<1>4. MoveBounds
  <2>1. submitting \in BOOLEAN BY DEF AgentFeedInit
  <2>2. moves = {} /\ \A a \in Agents : moved[a] = 0 BY DEF AgentFeedInit
  <2>3. MaxMoves \in Nat BY AgentFeedAssumption
  <2> QED BY <2>1, <2>2, <2>3 DEF MoveBounds
<1> QED BY <1>1, <1>2, <1>3, <1>4 DEF AgentTypes

\* What the simulation and the server do.
LEMMA WorldTypesStep ==
  ASSUME AgentTypes, NEW a \in Agents,
         StatusTurns(a) \/ CooldownPasses(a) \/ MoveIsHandled(a) \/ CardIsHandled(a)
  PROVE  AgentTypes'
<1> USE DEF AgentTypes
<1>1. CASE StatusTurns(a)
  <2>1. PICK s \in Status : status' = [status EXCEPT ![a] = s] /\ Emit(Only(a, s))
    <3>1. status[a] \in Status BY DEF WorldTypes
    <3> QED BY <1>1, <3>1 DEF StatusTurns, Status
  <2>2. feed' \in Seq(Telling) /\ Len(feed') <= MaxFeed
    BY <1>1, <2>1, EmitTyped, OnlyTyped DEF StatusTurns
  <2>3. UNCHANGED <<cooling, online, list, answers, busy, cardAnswers>>
    BY <1>1 DEF StatusTurns, requests, cards
  <2>4. turns' \in 0..MaxTurns
    BY <1>1, TurnCounts DEF StatusTurns, ButtonTypes
  <2> QED BY <2>1, <2>2, <2>3, <2>4 DEF WorldTypes, ListTypes, ButtonTypes
<1>2. CASE CooldownPasses(a)
  BY <1>2 DEF CooldownPasses, requests, cards, WorldTypes, ListTypes, ButtonTypes
<1>3. CASE MoveIsHandled(a)
  <2>1. PICK ok, heard \in BOOLEAN : MoveHandled(a, ok, heard)
    BY <1>3 DEF MoveIsHandled
  <2>2. UNCHANGED <<online, list, answers, busy, cardAnswers, turns>> /\ Len(feed) < MaxFeed
    BY <2>1 DEF MoveHandled, requests, cards
  <2>3. CASE UNCHANGED <<status, cooling, feed>>
    BY <2>2, <2>3 DEF WorldTypes, ListTypes, ButtonTypes
  <2>4. CASE /\ status' = [status EXCEPT ![a] = "MINING"] /\ cooling' = [cooling EXCEPT ![a] = TRUE]
             /\ Emit(Only(a, "MINING"))
    <3>1. feed' \in Seq(Telling) /\ Len(feed') <= MaxFeed
      <4>1. "MINING" \in Status BY DEF Status
      <4> QED BY <2>2, <2>4, <4>1, EmitTyped, OnlyTyped
    <3> QED BY <2>2, <2>4, <3>1 DEF WorldTypes, ListTypes, ButtonTypes, Status
  <2> QED BY <2>1, <2>3, <2>4 DEF MoveHandled, simulation
<1>4. CASE CardIsHandled(a)
  <2>1. PICK ok, heard \in BOOLEAN : CardHandled(a, ok, heard)
    BY <1>4 DEF CardIsHandled
  <2>2. /\ UNCHANGED <<cooling, online, list, answers, busy, turns>> /\ Len(feed) < MaxFeed
        /\ \E done : cardAnswers' = cardAnswers \cup {[agent |-> a, ok |-> done]}
    BY <2>1 DEF CardHandled, requests
  <2>3. ButtonTypes' /\ ListTypes'
    BY <2>2 DEF ButtonTypes, ListTypes
  <2>4. CASE UNCHANGED <<status, feed>>
    BY <2>2, <2>3, <2>4 DEF WorldTypes
  <2>5. CASE status' = [status EXCEPT ![a] = "MINING"] /\ Emit(Only(a, "MINING"))
    <3>1. feed' \in Seq(Telling) /\ Len(feed') <= MaxFeed
      <4>1. "MINING" \in Status BY DEF Status
      <4> QED BY <2>2, <2>5, <4>1, EmitTyped, OnlyTyped
    <3> QED BY <2>2, <2>3, <2>5, <3>1 DEF WorldTypes, Status
  <2>6. UNCHANGED <<status, feed>> \/ (status' = [status EXCEPT ![a] = "MINING"] /\ Emit(Only(a, "MINING")))
    BY <2>1 DEF CardHandled
  <2> QED BY <2>4, <2>5, <2>6
<1> QED BY <1>1, <1>2, <1>3, <1>4

\* What the page does, and what reaches it.
LEMMA PageTypesStep ==
  ASSUME AgentTypes, AnchorInv, MoveInv,
         \/ \E a \in Agents : BeginRelocation(a) \/ PressCard(a)
         \/ AgentsRead \/ AgentsLost \/ AgentsLoaded \/ EventApplied
         \/ FeedDrops \/ FeedReturns \/ Escape \/ PickHex \/ MoveAnswered \/ CardAnswered
  PROVE  AgentTypes'
<1> USE DEF AgentTypes
<1>1. ASSUME NEW a \in Agents, BeginRelocation(a) PROVE AgentTypes'
  BY <1>1 DEF BeginRelocation, simulation, requests, cards, WorldTypes, ListTypes, ButtonTypes
<1>2. ASSUME NEW a \in Agents, PressCard(a) PROVE AgentTypes'
  <2>1. turns' \in 0..MaxTurns BY <1>2, TurnCounts DEF PressCard, ButtonTypes
  <2> QED BY <1>2, <2>1 DEF PressCard, simulation, requests, WorldTypes, ListTypes, ButtonTypes
<1>3. CASE AgentsRead
  BY <1>3 DEF AgentsRead, simulation, cards, WorldTypes, ListTypes, ButtonTypes
<1>4. CASE AgentsLost
  <2>1. turns' \in 0..MaxTurns BY <1>4, TurnCounts DEF AgentsLost, ButtonTypes
  <2> QED BY <1>4, <2>1 DEF AgentsLost, simulation, cards, WorldTypes, ListTypes, ButtonTypes
<1>5. CASE AgentsLoaded
  <2>1. PICK snap \in answers : answers' = answers \ {snap} /\ list' = snap.status
    BY <1>5 DEF AgentsLoaded
  <2>2. ListTypes' BY <2>1 DEF ListTypes
  <2> QED BY <1>5, <2>2 DEF AgentsLoaded, simulation, cards, WorldTypes, ButtonTypes
<1>6. CASE EventApplied
  <2>1. feed' \in Seq(Telling) /\ Len(feed') <= MaxFeed /\ Head(feed) \in Telling
    <3>1. Tail(feed) \in Seq(Telling) /\ Len(Tail(feed)) <= Len(feed) /\ Head(feed) \in Telling
      BY <1>6, FeedTail DEF EventApplied, WorldTypes
    <3>2. Len(Tail(feed)) \in Nat /\ Len(feed) \in Nat /\ Len(feed) <= MaxFeed /\ MaxFeed \in Nat
      BY <3>1, AgentFeedAssumption DEF WorldTypes
    <3> QED BY <1>6, <3>1, <3>2 DEF EventApplied
  <2>2. \A a \in Agents : Updated(a, Head(feed)[a]) \in Status \cup {"absent"}
    BY <2>1, UpdatedTyped DEF Telling
  <2>3. list' \in [Agents -> Status \cup {"absent"}]
    BY <1>6, <2>2 DEF EventApplied
  <2> QED BY <1>6, <2>1, <2>3 DEF EventApplied, simulation, requests, cards, WorldTypes, ListTypes,
            ButtonTypes
<1>7. CASE FeedDrops
  <2>1. turns' \in 0..MaxTurns BY <1>7, TurnCounts DEF FeedDrops, ButtonTypes
  <2>2. feed' = <<>> /\ feed' \in Seq(Telling) /\ Len(feed') = 0 /\ MaxFeed \in Nat
    BY <1>7, AgentFeedAssumption DEF FeedDrops
  <2>3. Len(feed') <= MaxFeed
    BY <2>2
  <2>4. UNCHANGED <<status, cooling, list, answers, busy, cardAnswers>> /\ online' = FALSE
    BY <1>7 DEF FeedDrops, simulation, requests, cards
  <2> QED BY <2>1, <2>2, <2>3, <2>4 DEF WorldTypes, ListTypes, ButtonTypes
<1>8. CASE FeedReturns
  BY <1>8 DEF FeedReturns, simulation, cards, WorldTypes, ListTypes, ButtonTypes
<1>9. CASE Escape
  BY <1>9 DEF Escape, simulation, requests, cards, WorldTypes, ListTypes, ButtonTypes
<1>10. CASE PickHex
  <2>1. turns' \in 0..MaxTurns BY <1>10, TurnCounts DEF PickHex, ButtonTypes
  <2>2. active \in Agents BY <1>10 DEF PickHex, MoveInv
  <2>3. Updated(active, "RELOCATING") \in Status \cup {"absent"}
    BY <2>2, UpdatedTyped DEF Status
  <2>4. ListTypes' BY <1>10, <2>2, <2>3 DEF PickHex, requests, ListTypes
  <2> QED BY <1>10, <2>1, <2>4 DEF PickHex, simulation, cards, WorldTypes, ButtonTypes
<1>11. CASE MoveAnswered
  <2>1. PICK x \in moveAnswers : list' = [list EXCEPT ![x.agent] = Updated(x.agent, "MINING")]
    BY <1>11 DEF MoveAnswered
  <2>2. Updated(x.agent, "MINING") \in Status \cup {"absent"}
    BY UpdatedTyped DEF AnchorInv, Status
  <2>3. ListTypes' BY <1>11, <2>1, <2>2 DEF MoveAnswered, requests, ListTypes
  <2> QED BY <1>11, <2>3 DEF MoveAnswered, simulation, cards, WorldTypes, ButtonTypes
<1>12. CASE CardAnswered
  <2>1. PICK x \in cardAnswers :
          /\ cardAnswers' = cardAnswers \ {x} /\ busy' = [busy EXCEPT ![x.agent] = "no"]
          /\ list' \in {list, [list EXCEPT ![x.agent] = Updated(x.agent, "MINING")]}
    BY <1>12 DEF CardAnswered
  <2>2. Updated(x.agent, "MINING") \in Status \cup {"absent"}
    BY UpdatedTyped DEF ButtonTypes, Status
  <2>3. ListTypes'
    <3>1. UNCHANGED answers
      BY <1>12 DEF CardAnswered, requests
    <3>2. CASE list' = list
      BY <3>1, <3>2 DEF ListTypes
    <3>3. CASE list' = [list EXCEPT ![x.agent] = Updated(x.agent, "MINING")]
      BY <2>2, <3>1, <3>3 DEF ListTypes
    <3> QED BY <2>1, <3>2, <3>3
  <2>4. ButtonTypes' BY <1>12, <2>1 DEF CardAnswered, ButtonTypes
  <2> QED BY <1>12, <2>3, <2>4 DEF CardAnswered, simulation, WorldTypes
<1> QED BY <1>1, <1>2, <1>3, <1>4, <1>5, <1>6, <1>7, <1>8, <1>9, <1>10, <1>11, <1>12

LEMMA MoveBoundsStep ==
  ASSUME MoveBounds, MoveInv, AnchorInv, [AgentFeedNext]_agentFeedVars
  PROVE  MoveBounds'
<1>1. CASE PickHex
  <2>1. UNCHANGED moved /\ moves' = moves \cup {active} /\ moved[active] < MaxMoves
        /\ submitting' = TRUE
    BY <1>1 DEF PickHex, simulation
  <2> QED BY <2>1 DEF MoveBounds
<1>2. ASSUME NEW a \in Agents, MoveIsHandled(a) PROVE MoveBounds'
  <2>1. PICK ok, heard \in BOOLEAN : MoveHandled(a, ok, heard)
    BY <1>2 DEF MoveIsHandled
  <2>2. a \in moves /\ moves = {a} /\ moves' = {} /\ UNCHANGED submitting
    BY <2>1 DEF MoveHandled, MoveInv, NoMove, MoveSent, MoveReplied
  <2>3. moved' = moved \/ moved' = [moved EXCEPT ![a] = @ + 1]
    BY <2>1 DEF MoveHandled, simulation
  <2>4. moved \in [Agents -> Nat] /\ moved[a] < MaxMoves /\ MaxMoves \in Nat
    BY <2>2, AgentFeedAssumption DEF MoveBounds, AnchorInv
  <2> QED BY <2>2, <2>3, <2>4 DEF MoveBounds
<1>3. ASSUME NEW a \in Agents,
             StatusTurns(a) \/ CooldownPasses(a) \/ BeginRelocation(a) \/ PressCard(a)
             \/ CardIsHandled(a)
      PROVE  UNCHANGED <<moved, moves>> /\ submitting' \in {submitting, FALSE}
  BY <1>3 DEF StatusTurns, CooldownPasses, BeginRelocation, PressCard, CardIsHandled, CardHandled,
       simulation, relocation
<1>4. ASSUME MiningUpdate \/ AgentsRead \/ AgentsLost \/ AgentsLoaded \/ EventApplied \/ FeedDrops
             \/ FeedReturns \/ Escape \/ MoveAnswered \/ CardAnswered \/ UNCHANGED agentFeedVars
      PROVE  UNCHANGED <<moved, moves>> /\ submitting' \in {submitting, FALSE}
  BY <1>4 DEF MiningUpdate, AgentsRead, AgentsLost, AgentsLoaded, EventApplied, FeedDrops,
       FeedReturns, Escape, MoveAnswered, CardAnswered, CancelRelocation, agentFeedVars, simulation,
       relocation
<1>5. ASSUME UNCHANGED <<moved, moves>>, submitting' \in {submitting, FALSE} PROVE MoveBounds'
  BY <1>5 DEF MoveBounds
<1> QED BY <1>1, <1>2, <1>3, <1>4, <1>5 DEF AgentFeedNext

LEMMA AgentTypesAlways == AgentFeedSpec => []AgentFeedTypeOK
<1> DEFINE Inv == MoveInv /\ AnchorInv /\ AgentTypes /\ MoveBounds
<1>1. AgentFeedInit => Inv
  BY FeedStart, AgentTypeStart
<1>2. AgentTypes /\ MoveInv /\ AnchorInv /\ [AgentFeedNext]_agentFeedVars => AgentTypes'
  <2> SUFFICES ASSUME AgentTypes, MoveInv, AnchorInv, [AgentFeedNext]_agentFeedVars
               PROVE  AgentTypes'
    OBVIOUS
  <2>1. CASE UNCHANGED agentFeedVars
    BY <2>1 DEF agentFeedVars, simulation, requests, cards, AgentTypes, WorldTypes, ListTypes,
         ButtonTypes
  <2>2. CASE AgentFeedNext
    <3>1. ASSUME NEW a \in Agents, StatusTurns(a) \/ CooldownPasses(a) \/ MoveIsHandled(a)
                                   \/ CardIsHandled(a)
          PROVE  AgentTypes'
      BY <3>1, WorldTypesStep
    <3>2. CASE MiningUpdate
      <4> DEFINE e == [b \in Agents |-> IF status[b] = "TRAPPED" THEN "same" ELSE status[b]]
      <4>1. e \in Telling BY DEF Telling, AgentTypes, WorldTypes
      <4>2. UNCHANGED <<status, cooling, online, list, answers, busy, cardAnswers, turns>>
            /\ Emit(e) /\ Len(feed) < MaxFeed
        BY <3>2 DEF MiningUpdate, simulation, requests, cards
      <4> HIDE DEF e
      <4>3. feed' \in Seq(Telling) /\ Len(feed') <= MaxFeed
        BY <4>1, <4>2, EmitTyped DEF AgentTypes
      <4> QED BY <4>2, <4>3 DEF AgentTypes, WorldTypes, ListTypes, ButtonTypes
    <3> QED BY <2>2, <3>1, <3>2, PageTypesStep DEF AgentFeedNext
  <2> QED BY <2>1, <2>2
<1>3. Inv /\ [AgentFeedNext]_agentFeedVars => Inv'
  BY <1>2, FeedStep, MoveBoundsStep
<1>4. Inv => AgentFeedTypeOK
  <2> SUFFICES ASSUME Inv PROVE AgentFeedTypeOK
    OBVIOUS
  <2>1. \A a \in Agents : moved[a] \in 0..MaxMoves
    BY AgentFeedAssumption DEF MoveBounds, AnchorInv
  <2>2. moved \in [Agents -> 0..MaxMoves] /\ anchor \in [Agents -> Nat]
    BY <2>1 DEF AnchorInv
  <2>3. active \in Agents \cup {NoAgent} /\ moves \subseteq Agents
    BY DEF MoveInv, NoMove, MoveSent, MoveReplied
  <2>4. submitting \in BOOLEAN
    BY DEF MoveBounds
  <2> QED BY <2>2, <2>3, <2>4 DEF AgentTypes, WorldTypes, ListTypes, ButtonTypes, AgentFeedTypeOK
<1> QED BY <1>1, <1>3, <1>4, PTL DEF AgentFeedSpec

-----------------------------------------------------------------------------
(* Surveys: types. *)

\* A reveal is recorded, listed and shown only for a hex that the check found.
SeedInv ==
  /\ surveyRows \subseteq Surveyors \X Seeded /\ unwritten \subseteq Surveyors \X Seeded
  /\ surveys \subseteq Seeded
  /\ \A c \in Places :
       surveyCalls[c].step \in {"passed", "recorded", "revealed"} => surveyCalls[c].hex \in Seeded
  /\ \A l \in Loads : lists[l].step = "read" => lists[l].rows \subseteq Seeded

\* Of the calls and the lists it is enough to look at what is new.
LEMMA SeedStands ==
  ASSUME SeedInv, UNCHANGED <<surveyRows, unwritten>>,
         \A c \in Places : \/ surveyCalls'[c].step \notin {"passed", "recorded", "revealed"}
                           \/ surveyCalls'[c].hex \in Seeded
                           \/ \E d \in Places : surveyCalls'[c] = surveyCalls[d],
         \A l \in Loads : \/ lists'[l].step # "read" \/ lists'[l] = lists[l]
                          \/ lists'[l].rows \subseteq Seeded,
         surveys' \subseteq Seeded
  PROVE  SeedInv'
  BY DEF SeedInv

LEMMA SeedStep == ASSUME CallTypes, SeedInv, [SurveysNext]_surveyVars PROVE SeedInv'
<1> USE DEF surveyStore, surveyPage
<1>0. surveys \subseteq Seeded
  BY DEF SeedInv
<1>1. ASSUME NEW c \in Places, SurveyChecked(c) PROVE SeedInv'
  <2>1. surveyCalls[c].step # "none" /\ UNCHANGED <<surveyRows, unwritten, lists, surveys>>
    BY <1>1 DEF SurveyChecked
  <2>2. PICK s \in {"passed", "cold", "failed"} :
          /\ surveyCalls' = [surveyCalls EXCEPT ![c].step = s]
          /\ s = "passed" => surveyCalls[c].hex \in Seeded
    BY <1>1 DEF SurveyChecked, HexSnapshot
  <2>3. /\ surveyCalls'[c].step = s /\ surveyCalls'[c].hex = surveyCalls[c].hex
        /\ \A d \in Places : d # c => surveyCalls'[d] = surveyCalls[d]
    BY <2>1, <2>2, CallGoes
  <2> QED BY <1>0, <2>1, <2>2, <2>3, SeedStands
<1>2. ASSUME NEW c \in Places, SurveyFails(c) PROVE SeedInv'
  <2>1. /\ surveyCalls[c].step # "none" /\ UNCHANGED <<surveyRows, unwritten, lists, surveys>>
        /\ surveyCalls' = [surveyCalls EXCEPT ![c].step = "failed"]
    BY <1>2 DEF SurveyFails
  <2>2. /\ surveyCalls'[c].step = "failed"
        /\ \A d \in Places : d # c => surveyCalls'[d] = surveyCalls[d]
    BY <2>1, CallGoes
  <2> QED BY <1>0, <2>1, <2>2, SeedStands
<1>3. ASSUME NEW c \in Places, NEW ok \in BOOLEAN, SurveyRecorded(c, ok) PROVE SeedInv'
  <2>1. /\ surveyCalls[c].step = "passed" /\ UNCHANGED <<lists, surveys>>
        /\ surveyCalls' = [surveyCalls EXCEPT ![c].step = "recorded"]
        /\ RecordSurvey(surveyCalls[c], ok)
    BY <1>3 DEF SurveyRecorded
  <2>2. /\ surveyCalls[c] \in CallsMade /\ surveyCalls'[c].hex = surveyCalls[c].hex
        /\ \A d \in Places : d # c => surveyCalls'[d] = surveyCalls[d]
    BY <2>1, CallGoes
  <2>3. <<surveyCalls[c].by, surveyCalls[c].hex>> \in Surveyors \X Seeded
    BY <2>1, <2>2 DEF SeedInv, CallsMade
  <2>4. surveyRows' \subseteq Surveyors \X Seeded /\ unwritten' \subseteq Surveyors \X Seeded
    BY <2>1, <2>3 DEF RecordSurvey, SeedInv
  <2>5. \A d \in Places :
          surveyCalls'[d].step \in {"passed", "recorded", "revealed"} => surveyCalls'[d].hex \in Seeded
    BY <2>1, <2>2 DEF SeedInv
  <2> QED BY <2>1, <2>4, <2>5 DEF SeedInv
<1>4. ASSUME NEW c \in Places, SurveyArmed(c) PROVE SeedInv'
  <2>1. /\ surveyCalls[c].step = "recorded" /\ UNCHANGED <<surveyRows, unwritten, lists, surveys>>
        /\ surveyCalls' = [surveyCalls EXCEPT ![c].step = "revealed"]
    BY <1>4 DEF SurveyArmed
  <2>2. surveyCalls'[c].hex = surveyCalls[c].hex
        /\ \A d \in Places : d # c => surveyCalls'[d] = surveyCalls[d]
    BY <2>1, CallGoes
  <2>3. surveyCalls[c].hex \in Seeded
    BY <2>1 DEF SeedInv
  <2> QED BY <1>0, <2>1, <2>2, <2>3, SeedStands
<1>5. ASSUME NEW a \in Surveyors \cup {NoSurveyor}, CooldownEnds(a) \/ VisitorChanges(a) PROVE SeedInv'
  BY <1>0, <1>5, SeedStands DEF CooldownEnds, VisitorChanges
<1>6. ASSUME NEW h \in Prospects, SubmitSurvey(h) \/ SurveyElsewhere(h) PROVE SeedInv'
  <2>1. \E c \in Places : surveyCalls' = [surveyCalls EXCEPT ![c] = Call(h)]
    BY <1>6 DEF SubmitSurvey, SurveyElsewhere, Places
  <2>2. Call(h).step = "sent"
    BY DEF Call
  <2>3. \A c \in Places : surveyCalls'[c].step \notin {"passed", "recorded", "revealed"}
                          \/ surveyCalls'[c] = surveyCalls[c]
    BY <2>1, <2>2 DEF CallTypes
  <2>4. UNCHANGED <<surveyRows, unwritten, lists, surveys>>
    BY <1>6 DEF SubmitSurvey, SurveyElsewhere
  <2> QED BY <1>0, <2>3, <2>4, SeedStands
<1>7. CASE SurveyAnswered \/ AnsweredElsewhere \/ SurveyCut
  <2>1. \A c \in Places : surveyCalls'[c].step \notin {"passed", "recorded", "revealed"}
                          \/ \E d \in Places : surveyCalls'[c] = surveyCalls[d]
    BY <1>7, NoCallIsNone DEF SurveyAnswered, AnsweredElsewhere, SurveyCut, CallTypes, Places
  <2>2. surveys' \subseteq Seeded
    <3>1. "page" \in Places BY DEF Places
    <3> QED BY <1>0, <1>7, <3>1 DEF SurveyAnswered, AnsweredElsewhere, SurveyCut, AddSurvey, SeedInv
  <2>3. UNCHANGED <<surveyRows, unwritten, lists>>
    BY <1>7 DEF SurveyAnswered, AnsweredElsewhere, SurveyCut
  <2> QED BY <2>1, <2>2, <2>3, SeedStands
<1>8. ASSUME NEW l \in Loads,
             LoadStarts(l) \/ SurveysRead(l) \/ SurveysLoaded(l) \/ LoadFails(l)
      PROVE  SeedInv'
  <2>1. \A m \in Loads : lists'[m].step # "read" \/ lists'[m] = lists[m] \/ lists'[m].rows \subseteq Seeded
    <3>1. CASE LoadStarts(l) \/ SurveysLoaded(l) \/ LoadFails(l)
      BY <3>1, NoCallIsNone DEF LoadStarts, SurveysLoaded, LoadFails, CallTypes
    <3>2. CASE SurveysRead(l)
      <4>1. lists' = [lists EXCEPT ![l] = [step |-> "read", rows |-> UserSurveys(lists[l].by)]]
        BY <3>2 DEF SurveysRead
      <4>2. UserSurveys(lists[l].by) \subseteq Seeded
        BY DEF UserSurveys
      <4> QED BY <4>1, <4>2 DEF CallTypes
    <3> QED BY <1>8, <3>1, <3>2
  <2>2. surveys' \subseteq Seeded
    BY <1>0, <1>8 DEF LoadStarts, SurveysRead, SurveysLoaded, LoadFails, SetSurveys, SeedInv
  <2>3. UNCHANGED <<surveyRows, unwritten, surveyCalls>>
    BY <1>8 DEF LoadStarts, SurveysRead, SurveysLoaded, LoadFails
  <2> QED BY <2>1, <2>2, <2>3, SeedStands
<1>9. CASE UNCHANGED surveyVars
  BY <1>0, <1>9, SeedStands DEF surveyVars
<1>10. DOMAIN surveyCalls = Places
  BY DEF CallTypes
<1> QED BY <1>1, <1>2, <1>3, <1>4, <1>5, <1>6, <1>7, <1>8, <1>9, <1>10 DEF SurveysNext

LEMMA SurveyTypesAlways == SurveysSpec => []SurveysTypeOK
<1> DEFINE Inv == CallTypes /\ CooldownInv /\ SeedInv
<1>1. SurveysInit => Inv
  <2>1. SurveysInit => SeedInv
    BY NoCallIsNone DEF SurveysInit, SeedInv, Places
  <2> QED BY <2>1, SurveyStart
<1>2. Inv /\ [SurveysNext]_surveyVars => Inv'
  BY CallTypesStep, CooldownStep, SeedStep
<1>3. Inv => SurveysTypeOK
  BY DEF CallTypes, CooldownInv, SeedInv, SurveysTypeOK
<1> HIDE DEF Inv
<1> QED BY <1>1, <1>2, <1>3, PTL DEF SurveysSpec

-----------------------------------------------------------------------------
(* HexPanel: types. *)

PanelHexes ==
  /\ lastKey \in Tiles \cup {Null} /\ hoveredHex \in Tiles \cup {Null}
  /\ pinnedHex \in Tiles \cup {Null} /\ surveyed \subseteq Tiles
PanelFlags ==
  /\ pointer \in {"map", "panel", "away"}
  /\ showTimer \in BOOLEAN /\ hideTimer \in BOOLEAN /\ tipShown \in BOOLEAN
  /\ frozen \in BOOLEAN /\ orphaned \in BOOLEAN /\ panelRect \in BOOLEAN /\ moveMode \in BOOLEAN

LEMMA PanelTypeStart == ASSUME PanelInit PROVE PanelHexes /\ PanelFlags
<1>1. PanelHexes BY DEF PanelInit, PanelHexes
<1>2. PanelFlags BY DEF PanelInit, PanelFlags
<1> QED BY <1>1, <1>2

LEMMA PanelHexesStep == ASSUME PanelHexes, [PanelNext]_panelVars PROVE PanelHexes'
<1> USE DEF PanelHexes
<1>1. ASSUME NEW h \in Tiles \cup {Beyond}, NEW inCorridor \in BOOLEAN, PointerMoves(h, inCorridor)
      PROVE  PanelHexes'
  <2>1. Hover(h, inCorridor) /\ UNCHANGED <<pinnedHex, surveyed>>
    BY <1>1 DEF PointerMoves
  <2> QED BY <2>1 DEF Hover, HideTooltip, HasHex, hover
<1>2. ASSUME NEW h \in Tiles \cup {Beyond}, GroundClicked(h) PROVE PanelHexes'
  BY <1>2 DEF GroundClicked, PinHex, HasHex, hover
<1>3. CASE ShowFires
  BY <1>3 DEF ShowFires
<1>4. CASE PointerLeaves
  BY <1>4 DEF PointerLeaves, HideTooltip, hover
<1>5. CASE HideFires
  BY <1>5 DEF HideFires, HideTooltip
<1>6. CASE PointerEnters \/ PointerExits \/ PanelMeasured \/ UNCHANGED panelVars
  BY <1>6 DEF PointerEnters, PointerExits, PanelMeasured, hover, panelVars
<1>7. CASE UnpinPressed \/ MoveModeToggles
  BY <1>7 DEF UnpinPressed, Unpin, MoveModeToggles
<1>8. CASE HexSurveyed
  <2>1. TooltipHex \in Tiles BY <1>8 DEF HexSurveyed, TooltipHex
  <2> QED BY <1>8, <2>1 DEF HexSurveyed, hover
<1> QED BY <1>1, <1>2, <1>3, <1>4, <1>5, <1>6, <1>7, <1>8 DEF PanelNext

LEMMA PanelFlagsStep == ASSUME PanelFlags, PanelInv, PanelInv', [PanelNext]_panelVars PROVE PanelFlags'
<1> SUFFICES pointer' \in {"map", "panel", "away"} /\ panelRect' \in BOOLEAN /\ moveMode' \in BOOLEAN
  BY DEF PanelFlags, PanelInv
<1> USE DEF PanelFlags
<1>1. ASSUME NEW h \in Tiles \cup {Beyond}, NEW inCorridor \in BOOLEAN, PointerMoves(h, inCorridor)
      PROVE  pointer' \in {"map", "panel", "away"} /\ UNCHANGED <<panelRect, moveMode>>
  BY <1>1 DEF PointerMoves
<1>2. ASSUME NEW h \in Tiles \cup {Beyond}, GroundClicked(h)
      PROVE  UNCHANGED <<pointer, panelRect, moveMode>>
  BY <1>2 DEF GroundClicked
<1>3. CASE ShowFires \/ PointerLeaves \/ PointerEnters \/ PointerExits \/ HexSurveyed \/ UNCHANGED panelVars
  <2>1. UNCHANGED <<panelRect, moveMode>>
    BY <1>3 DEF ShowFires, PointerLeaves, PointerEnters, PointerExits, HexSurveyed, panelVars
  <2>2. pointer' \in {"map", "panel", "away"}
    BY <1>3 DEF ShowFires, PointerLeaves, PointerEnters, PointerExits, HexSurveyed, panelVars
  <2> QED BY <2>1, <2>2
<1>4. CASE HideFires \/ UnpinPressed \/ MoveModeToggles
  <2>1. pointer' = "map" \/ pointer' = pointer
    BY <1>4 DEF HideFires, UnpinPressed, MoveModeToggles, Uncovered
  <2>2. panelRect' = panelRect /\ moveMode' \in BOOLEAN
    BY <1>4 DEF HideFires, UnpinPressed, MoveModeToggles
  <2> QED BY <2>1, <2>2
<1>5. CASE PanelMeasured
  <2>1. UNCHANGED <<pointer, moveMode>> BY <1>5 DEF PanelMeasured
  <2>2. panelRect' \in BOOLEAN BY <1>5 DEF PanelMeasured
  <2> QED BY <2>1, <2>2
<1> QED BY <1>1, <1>2, <1>3, <1>4, <1>5 DEF PanelNext

LEMMA PanelTypesAlways == PanelSpec => []PanelTypeOK
<1>1. PanelInit => PanelInv /\ PanelHexes /\ PanelFlags
  BY PanelStart, PanelTypeStart
<1>2. (PanelInv /\ PanelHexes /\ PanelFlags) /\ [PanelNext]_panelVars
        => (PanelInv /\ PanelHexes /\ PanelFlags)'
  BY PanelStep, PanelHexesStep, PanelFlagsStep
<1>3. PanelHexes /\ PanelFlags => PanelTypeOK
  BY DEF PanelHexes, PanelFlags, PanelTypeOK
<1> QED BY <1>1, <1>2, <1>3, PTL DEF PanelSpec

-----------------------------------------------------------------------------
(* RankPanel: types. *)

FetchStates ==
  {NoFetch} \cup [step : {"sent"}, of : Viewers \cup {NoViewer}]
    \cup [step : {"top"}, of : Viewers \cup {NoViewer}, inTop : BOOLEAN]
    \cup [step : {"read"}, marked : Viewers \cup {NoViewer}, rank : Viewers \cup {NoViewer}]
RankTypes ==
  /\ place \in [Viewers -> {"top", "below", "none"}]
  /\ viewer \in Viewers \cup {NoViewer} /\ marked \in Viewers \cup {NoViewer}
  /\ below \in Viewers \cup {NoViewer}
  /\ rankOpen \in BOOLEAN /\ rankLoading \in BOOLEAN /\ rankError \in BOOLEAN
FetchTypes == fetches \in [Fetches -> FetchStates]

LEMMA RankTypeStart == ASSUME RankInit PROVE RankTypes /\ FetchTypes
<1>1. RankTypes BY DEF RankInit, RankTypes
<1>2. FetchTypes BY DEF RankInit, FetchTypes, FetchStates
<1> QED BY <1>1, <1>2

LEMMA FetchStep ==
  ASSUME RankTypes, FetchTypes, NEW f \in Fetches,
         TopRead(f) \/ RankRead(f) \/ BoardApplied(f) \/ BoardFails(f)
  PROVE  RankTypes' /\ FetchTypes'
<1>0. fetches[f] \in FetchStates BY DEF FetchTypes
<1>1. CASE TopRead(f)
  <2>1. fetches[f].step = "sent" /\ UNCHANGED <<place, viewer, rankPanel>> BY <1>1 DEF TopRead
  <2>2. fetches[f].of \in Viewers \cup {NoViewer} BY <1>0, <2>1 DEF FetchStates, NoFetch
  <2>3. [step |-> "top", of |-> fetches[f].of,
         inTop |-> fetches[f].of # NoViewer /\ place[fetches[f].of] = "top"] \in FetchStates
    BY <2>2 DEF FetchStates
  <2>4. FetchTypes' BY <1>1, <2>3 DEF TopRead, FetchTypes
  <2> QED BY <2>1, <2>4 DEF RankTypes, rankPanel
<1>2. CASE RankRead(f)
  <2>1. fetches[f].step = "top" /\ UNCHANGED <<place, viewer, rankPanel>> BY <1>2 DEF RankRead
  <2>2. fetches[f].of \in Viewers \cup {NoViewer} BY <1>0, <2>1 DEF FetchStates, NoFetch
  <2> DEFINE ranked == fetches[f].of # NoViewer /\ place[fetches[f].of] # "none"
             next == [step |-> "read",
                      marked |-> IF ranked /\ fetches[f].inTop THEN fetches[f].of ELSE NoViewer,
                      rank |-> IF ranked THEN fetches[f].of ELSE NoViewer]
  <2>3. next \in FetchStates BY <2>2 DEF FetchStates
  <2>4. fetches' = [fetches EXCEPT ![f] = next] BY <1>2 DEF RankRead
  <2> HIDE DEF next
  <2>5. FetchTypes' BY <2>3, <2>4 DEF FetchTypes
  <2> QED BY <2>1, <2>5 DEF RankTypes, rankPanel
<1>3. CASE BoardApplied(f)
  <2>1. fetches[f].step = "read" /\ fetches' = [fetches EXCEPT ![f] = NoFetch] BY <1>3 DEF BoardApplied
  <2>2. fetches[f].marked \in Viewers \cup {NoViewer} /\ fetches[f].rank \in Viewers \cup {NoViewer}
    BY <1>0, <2>1 DEF FetchStates, NoFetch
  <2>3. FetchTypes' BY <2>1 DEF FetchTypes, FetchStates
  <2> QED BY <1>3, <2>2, <2>3 DEF BoardApplied, RankTypes
<1>4. CASE BoardFails(f)
  <2>1. FetchTypes' BY <1>4 DEF BoardFails, FetchTypes, FetchStates
  <2> QED BY <1>4, <2>1 DEF BoardFails, RankTypes
<1> QED BY <1>1, <1>2, <1>3, <1>4

LEMMA RankTypesStep == ASSUME RankTypes, FetchTypes, [RankNext]_rankVars PROVE RankTypes' /\ FetchTypes'
<1>1. ASSUME NEW v \in Viewers, PlaceChanges(v) PROVE RankTypes' /\ FetchTypes'
  <2>1. RankTypes' BY <1>1 DEF PlaceChanges, RankTypes, rankPanel
  <2>2. FetchTypes' BY <1>1 DEF PlaceChanges, FetchTypes
  <2> QED BY <2>1, <2>2
<1>2. CASE ViewerChanges
  <2>1. RankTypes' BY <1>2 DEF ViewerChanges, RankTypes, rankPanel
  <2>2. FetchTypes' BY <1>2 DEF ViewerChanges, FetchTypes
  <2> QED BY <2>1, <2>2
<1>3. [step |-> "sent", of |-> viewer] \in FetchStates /\ NoFetch \in FetchStates
  BY DEF RankTypes, FetchStates
<1>4. CASE PanelToggled
  <2>1. rankOpen' \in BOOLEAN BY <1>4 DEF PanelToggled
  <2>2. RankTypes' BY <1>4, <2>1 DEF PanelToggled, RankTypes
  <2>3. FetchTypes' BY <1>4, <1>3 DEF PanelToggled, FetchTypes
  <2> QED BY <2>2, <2>3
<1>5. CASE IntervalFires
  <2>1. RankTypes' BY <1>5 DEF IntervalFires, RankTypes, rankPanel
  <2>2. FetchTypes' BY <1>5, <1>3 DEF IntervalFires, FetchTypes
  <2> QED BY <2>1, <2>2
<1>6. CASE UNCHANGED rankVars
  BY <1>6 DEF rankVars, rankPanel, RankTypes, FetchTypes
<1> QED BY <1>1, <1>2, <1>4, <1>5, <1>6, FetchStep DEF RankNext

-----------------------------------------------------------------------------
(* PageShell: types. *)

\* One listener while the effect is on; each of its runs calls loadConfig at most once.
EffectInv ==
  /\ effect \in {"none", "on", "off", "again"} /\ awaiting \in Nat
  /\ clickListeners = (IF effect \in {"on", "again"} THEN 1 ELSE 0)
  /\ awaiting <= (IF effect = "none" THEN 0 ELSE IF effect = "again" THEN 2 ELSE 1)
ScreenTypes ==
  /\ startScreen \in {"none", "up", "leaving", "gone"}
  /\ minElapsed \in BOOLEAN /\ socketUp \in BOOLEAN
AudioTypes ==
  /\ audioCtx \in {"none", "suspended", "running"} /\ gain \in {"none", "open", "shut"}
  /\ unlocked \in BOOLEAN /\ unlocking \in Nat

LEMMA ShellTypeStart == ASSUME ShellInit PROVE EffectInv /\ ScreenTypes /\ AudioTypes
<1>1. EffectInv BY DEF ShellInit, EffectInv
<1>2. ScreenTypes BY DEF ShellInit, ScreenTypes
<1>3. AudioTypes BY DEF ShellInit, AudioTypes
<1> QED BY <1>1, <1>2, <1>3

LEMMA EffectStep == ASSUME EffectInv, [ShellNext]_shellVars PROVE EffectInv'
<1>1. CASE EffectRuns
  <2>1. awaiting' = awaiting \/ awaiting' = awaiting + 1
    BY <1>1 DEF EffectRuns, LoadConfig, configVars
  <2>2. CASE effect = "none"
    <3>1. effect' = "on" /\ clickListeners' = 1 /\ awaiting = 0
      BY <1>1, <2>2 DEF EffectRuns, InstallUiClickSound, EffectInv
    <3> QED BY <2>1, <3>1 DEF EffectInv
  <2>3. CASE effect = "off"
    <3>1. effect' = "again" /\ clickListeners' = 1 /\ awaiting <= 1
      BY <1>1, <2>3 DEF EffectRuns, InstallUiClickSound, EffectInv
    <3> QED BY <2>1, <3>1 DEF EffectInv
  <2> QED BY <1>1, <2>2, <2>3 DEF EffectRuns
<1>2. CASE EffectCleans
  BY <1>2 DEF EffectCleans, configVars, EffectInv
<1>3. ASSUME NEW to \in {"default", "server"}, ConfigAnswered(to) PROVE EffectInv'
  BY <1>3 DEF ConfigAnswered, boot, EffectInv
<1>4. CASE SocketConnects \/ SocketFails \/ WorldSeen \/ UNCHANGED shellVars
  BY <1>4 DEF SocketConnects, SocketFails, WorldSeen, shellVars, boot, configVars, EffectInv
<1>5. CASE \/ SystemTurnsSound \/ ToggleMuted \/ MinElapses \/ Dismiss \/ Fades
           \/ LayoutChanges \/ \E ok \in BOOLEAN : ResumeSettles(ok)
  <2>1. UNCHANGED <<boot, configVars>>
    BY <1>5 DEF SystemTurnsSound, ToggleMuted, MinElapses, Dismiss, Fades, LayoutChanges,
                ResumeSettles
  <2> QED BY <2>1 DEF boot, configVars, EffectInv
<1> QED BY <1>1, <1>2, <1>3, <1>4, <1>5 DEF ShellNext

LEMMA ScreenTypesStep == ASSUME ScreenTypes, [ShellNext]_shellVars PROVE ScreenTypes'
<1> USE DEF ScreenTypes
<1>1. CASE EffectRuns \/ EffectCleans \/ SocketConnects \/ SocketFails \/ WorldSeen \/ UNCHANGED shellVars
  BY <1>1 DEF EffectRuns, EffectCleans, SocketConnects, SocketFails, WorldSeen, shellVars, boot,
              screenVars
<1>2. CASE \E to \in {"default", "server"} : ConfigAnswered(to)
  BY <1>2 DEF ConfigAnswered, boot, screenVars
<1>3. CASE SystemTurnsSound \/ ToggleMuted \/ \E ok \in BOOLEAN : ResumeSettles(ok)
  BY <1>3 DEF SystemTurnsSound, ToggleMuted, ResumeSettles, boot, screenVars
<1>4. CASE MinElapses \/ Dismiss \/ Fades \/ LayoutChanges
  BY <1>4 DEF MinElapses, Dismiss, Fades, LayoutChanges, boot
<1> QED BY <1>1, <1>2, <1>3, <1>4 DEF ShellNext

LEMMA AudioTypesStep == ASSUME AudioTypes, [ShellNext]_shellVars PROVE AudioTypes'
<1> USE DEF AudioTypes, ApplyGains
<1>1. CASE Dismiss
  <2>1. audioCtx' \in {"none", "suspended", "running"} BY <1>1 DEF Dismiss, Unlock
  <2>2. gain' \in {"none", "open", "shut"} BY <1>1 DEF Dismiss, Unlock
  <2>3. unlocking' \in Nat BY <1>1 DEF Dismiss, Unlock
  <2>4. unlocked' \in BOOLEAN BY <1>1 DEF Dismiss, Unlock
  <2> QED BY <2>1, <2>2, <2>3, <2>4
<1>2. ASSUME NEW ok \in BOOLEAN, ResumeSettles(ok) PROVE AudioTypes'
  <2>1. audioCtx' \in {"none", "suspended", "running"} BY <1>2 DEF ResumeSettles
  <2>2. gain' \in {"none", "open", "shut"} BY <1>2 DEF ResumeSettles
  <2>3. unlocking' \in Nat BY <1>2 DEF ResumeSettles
  <2>4. unlocked' \in BOOLEAN BY <1>2 DEF ResumeSettles
  <2> QED BY <2>1, <2>2, <2>3, <2>4
<1>3. CASE SystemTurnsSound
  BY <1>3 DEF SystemTurnsSound
<1>4. CASE ToggleMuted
  BY <1>4 DEF ToggleMuted
<1>5. CASE \/ EffectRuns \/ EffectCleans \/ SocketConnects \/ SocketFails \/ WorldSeen
           \/ MinElapses \/ Fades \/ LayoutChanges \/ UNCHANGED shellVars
           \/ \E to \in {"default", "server"} : ConfigAnswered(to)
  <2>1. UNCHANGED audioVars
    BY <1>5 DEF EffectRuns, EffectCleans, SocketConnects, SocketFails, WorldSeen, MinElapses, Fades,
                LayoutChanges, shellVars, ConfigAnswered
  <2> QED BY <2>1 DEF audioVars
<1> QED BY <1>1, <1>2, <1>3, <1>4, <1>5 DEF ShellNext

ShellTypeInv == BootInv /\ SoundInv /\ EffectInv /\ ScreenTypes /\ AudioTypes

LEMMA ShellTypeInvStep == ASSUME ShellTypeInv, [ShellNext]_shellVars PROVE ShellTypeInv'
BY BootStep, SoundStep, EffectStep, ScreenTypesStep, AudioTypesStep DEF ShellTypeInv

LEMMA ShellTypesSay == ASSUME ShellTypeInv PROVE ShellTypeOK
<1>1. awaiting \in 0..2 /\ clickListeners \in 0..1
  BY DEF ShellTypeInv, EffectInv
<1>2. loaded \in BOOLEAN /\ readiness \subseteq Signals /\ running \in BOOLEAN /\ muted \in BOOLEAN
  BY DEF ShellTypeInv, BootInv, SoundInv
<1> QED BY <1>1, <1>2 DEF ShellTypeInv, ScreenTypes, AudioTypes, ShellTypeOK

-----------------------------------------------------------------------------
(* TxFlow: types. *)

HookTypes ==
  /\ txStatus \in Resting \cup Working
  /\ requesting \in BOOLEAN /\ flowError \in BOOLEAN /\ attempt \in Tries
  /\ failed \in [Flows -> SUBSET Tries]

LEMMA HookStart == ASSUME TxFlowInit PROVE HookTypes
<1>1. txStatus = "idle" /\ requesting = FALSE /\ flowError = FALSE /\ attempt = 0
      /\ failed = [f \in Flows |-> {}]
  BY DEF TxFlowInit
<1> QED BY <1>1, TriesAre DEF HookTypes, Resting

LEMMA NextTry ==
  ASSUME TxInv, NEW f \in Flows, try[f] # MAX_RETRIES - 1 PROVE try[f] + 1 \in Tries
  BY TxFlowAssumption DEF TxInv, TxTypes, Tries

LEMMA HookStep == ASSUME TxInv, HookTypes, [TxFlowNext]_txFlowVars PROVE HookTypes'
<1> USE DEF HookTypes, Resting, Working
<1>1. ASSUME NEW f \in Flows, PressDeploy(f) \/ PressClaim(f) PROVE HookTypes'
  <2>1. flowError' = FALSE /\ attempt' = 0 /\ txStatus' \in {"idle", "building"} /\ failed' = failed
    BY <1>1 DEF PressDeploy, PressClaim, Starts, chain
  <2>2. requesting' = TRUE \/ requesting' = requesting
    BY <1>1 DEF PressDeploy, PressClaim
  <2> QED BY <2>1, <2>2, TriesAre
<1>2. ASSUME NEW f \in Flows, NEW ok \in BOOLEAN, DeployRequested(f, ok) PROVE HookTypes'
  <2>1. requesting' = FALSE /\ failed' = failed
    BY <1>2 DEF DeployRequested, chain
  <2>2. flowError' = TRUE \/ flowError' = flowError
    BY <1>2 DEF DeployRequested
  <2>3. UNCHANGED <<txStatus, attempt>> \/ (txStatus' = "signing" /\ attempt' = 0)
    BY <1>2 DEF DeployRequested, StartsTry
  <2> QED BY <2>1, <2>2, <2>3, TriesAre
<1>3. ASSUME NEW f \in Flows, NEW ok \in BOOLEAN, ClaimBuilt(f, ok) PROVE HookTypes'
  <2>1. UNCHANGED <<requesting, flowError, failed>>
    BY <1>3 DEF ClaimBuilt, chain
  <2>2. (txStatus' = "error" /\ attempt' = attempt) \/ (txStatus' = "signing" /\ attempt' = 0)
    BY <1>3 DEF ClaimBuilt, StartsTry, Breaks
  <2> QED BY <2>1, <2>2, TriesAre
<1>4. ASSUME NEW f \in Flows, NEW agrees \in BOOLEAN, Signed(f, agrees) PROVE HookTypes'
  BY <1>4 DEF Signed, Breaks, chain
<1>5. ASSUME NEW f \in Flows, NEW taken \in BOOLEAN, NEW answered \in BOOLEAN,
             Submitted(f, taken, answered)
      PROVE  HookTypes'
  BY <1>5 DEF Submitted
<1>6. ASSUME NEW f \in Flows, Lands(f) PROVE HookTypes'
  <2>1. PICK n \in onWay[f] : failed' = failed \/ failed' = [failed EXCEPT ![f] = @ \cup {n}]
    BY <1>6 DEF Lands
  <2>2. n \in Tries
    BY DEF TxInv, TxTypes
  <2>3. UNCHANGED hook
    BY <1>6 DEF Lands
  <2> QED BY <2>1, <2>2, <2>3 DEF hook
<1>7. ASSUME NEW f \in Flows, HeightPasses(f) PROVE HookTypes'
  BY <1>7 DEF HeightPasses, hook
<1>8. ASSUME NEW f \in Flows, NEW ok \in BOOLEAN, Polled(f, ok) PROVE HookTypes'
  BY <1>8 DEF Polled, chain
<1>9. ASSUME NEW f \in Flows, NEW ok \in BOOLEAN, Recovers(f, ok) PROVE HookTypes'
  <2>1. UNCHANGED <<requesting, flowError, failed>>
    BY <1>9 DEF Recovers, chain
  <2>2. \/ txStatus' = "error" /\ attempt' = attempt
        \/ try[f] # MAX_RETRIES - 1 /\ txStatus' = "signing" /\ attempt' = try[f] + 1
    BY <1>9 DEF Recovers, StartsTry, Breaks
  <2> QED BY <2>1, <2>2, NextTry
<1>10. ASSUME NEW f \in Flows, NEW ok \in BOOLEAN, ClaimConfirmed(f, ok) PROVE HookTypes'
  BY <1>10 DEF ClaimConfirmed, chain
<1>11. ASSUME NEW f \in Flows, NEW ok \in BOOLEAN, DeployConfirmed(f, ok) PROVE HookTypes'
  BY <1>11 DEF DeployConfirmed, chain
<1>12. CASE Render \/ CloseToast \/ UNCHANGED txFlowVars
  BY <1>12 DEF Render, CloseToast, txFlowVars, chain, hook
<1> QED BY <1>1, <1>2, <1>3, <1>4, <1>5, <1>6, <1>7, <1>8, <1>9, <1>10, <1>11, <1>12
        DEF TxFlowNext, TxAnswer

\* A deploy lets go of its toast in two ways, each once for a flow: when the next press
\* resets the send, and when it succeeds with a signature that another press took away.
Left      == sticky \ {activeToastId}
Pressed   == {f \in Flows : stage[f] # "none"}
Delivered == {f \in Flows : stage[f] \in {"server", "done"}}
LetsGo    == IF txStatus \in {"idle", "success"} /\ activeToastId # 0 THEN 1 ELSE 0
LeftInv ==
  /\ sticky \subseteq ToastIds /\ activeToastId \in ToastIds \cup {0}
  /\ kind = "claim" => Left = {}
  /\ IsFiniteSet(sticky)
  /\ kind # "claim" => Cardinality(Left) + LetsGo <= Cardinality(Pressed) + Cardinality(Delivered)

LEMMA FlowCounts ==
  /\ IsFiniteSet(Pressed) /\ IsFiniteSet(Delivered)
  /\ Cardinality(Pressed) \in Nat /\ Cardinality(Delivered) \in Nat
  /\ Cardinality(Pressed) <= Cardinality(Flows) /\ Cardinality(Delivered) <= Cardinality(Flows)
  /\ Cardinality(Flows) \in Nat
<1>1. IsFiniteSet(Flows) BY TxFlowAssumption
<1>2. Pressed \subseteq Flows /\ Delivered \subseteq Flows BY DEF Pressed, Delivered
<1>3. IsFiniteSet(Pressed) /\ Cardinality(Pressed) <= Cardinality(Flows) BY <1>1, <1>2, FS_Subset
<1>4. IsFiniteSet(Delivered) /\ Cardinality(Delivered) <= Cardinality(Flows) BY <1>1, <1>2, FS_Subset
<1>5. Cardinality(Pressed) \in Nat BY <1>3, FS_CardinalityType
<1>6. Cardinality(Delivered) \in Nat BY <1>4, FS_CardinalityType
<1>7. Cardinality(Flows) \in Nat BY <1>1, FS_CardinalityType
<1> QED BY <1>3, <1>4, <1>5, <1>6, <1>7

\* There is always an id for another toast.
LEMMA FreshIsNew == ASSUME LeftInv PROVE Fresh \in ToastIds /\ Fresh \notin sticky \cup {activeToastId}
<1>1. IsFiniteSet(Left) /\ Cardinality(Left) <= Cardinality(sticky)
  BY FS_Subset DEF Left, LeftInv
<1>2. Cardinality(Left) \in Nat
  BY <1>1, FS_CardinalityType
<1>3. Cardinality(Left) <= 2 * Cardinality(Flows)
  <2>1. CASE kind = "claim"
    <3>1. Cardinality(Left) = 0 BY <2>1, FS_EmptySet DEF LeftInv
    <3> QED BY <3>1, FlowCounts
  <2>2. CASE kind # "claim"
    <3>1. Cardinality(Left) + LetsGo <= Cardinality(Pressed) + Cardinality(Delivered)
      BY <2>2 DEF LeftInv
    <3>2. LetsGo \in 0..1 BY DEF LetsGo
    <3> QED BY <1>2, <3>1, <3>2, FlowCounts
  <2> QED BY <2>1, <2>2
<1> DEFINE All == Left \cup {activeToastId}
<1>4. IsFiniteSet(All) /\ (Cardinality(All) = Cardinality(Left) \/ Cardinality(All) = Cardinality(Left) + 1)
  <2>1. IsFiniteSet(All) BY <1>1, FS_AddElement
  <2>2. Cardinality(All) = IF activeToastId \in Left THEN Cardinality(Left) ELSE Cardinality(Left) + 1
    BY <1>1, FS_AddElement
  <2> QED BY <2>1, <2>2
<1>5. ASSUME ToastIds \subseteq All PROVE FALSE
  <2>1. Cardinality(ToastIds) <= Cardinality(All) /\ IsFiniteSet(ToastIds) BY <1>4, <1>5, FS_Subset
  <2>2. Cardinality(ToastIds) \in Nat BY <2>1, FS_CardinalityType
  <2>3. Cardinality(ToastIds) > 2 * Cardinality(Flows) + 1 BY TxFlowAssumption
  <2>4. Cardinality(Flows) \in Nat BY FlowCounts
  <2> HIDE DEF All
  <2> QED BY <1>2, <1>3, <1>4, <2>1, <2>2, <2>3, <2>4
<1>6. \E id \in ToastIds : id \notin sticky \cup {activeToastId}
  BY <1>5 DEF Left
<1> QED BY <1>6 DEF Fresh

\* A step that keeps the toasts, or lets one go, while the flows go on.
LEMMA LeftStands ==
  ASSUME LeftInv, kind # "claim", kind' = kind, sticky' \subseteq sticky, activeToastId' = activeToastId,
         Pressed \subseteq Pressed', Delivered \subseteq Delivered',
         txStatus' \notin {"idle", "success"} \/ txStatus' = txStatus
  PROVE  LeftInv'
<1>1. IsFiniteSet(sticky') /\ sticky' \subseteq ToastIds /\ activeToastId' \in ToastIds \cup {0}
  BY FS_Subset DEF LeftInv
<1>2. IsFiniteSet(Left) /\ Left' \subseteq Left
  <2>1. IsFiniteSet(sticky) /\ Left \subseteq sticky BY DEF LeftInv, Left
  <2>2. IsFiniteSet(Left) BY <2>1, FS_Subset
  <2> QED BY <2>2 DEF Left
<1>3. IsFiniteSet(Left') /\ Cardinality(Left') <= Cardinality(Left) BY <1>2, FS_Subset
<1>4. Cardinality(Left) \in Nat BY <1>2, FS_CardinalityType
<1>5. Cardinality(Left') \in Nat BY <1>3, FS_CardinalityType
<1>6. LetsGo' <= LetsGo /\ LetsGo \in 0..1 /\ LetsGo' \in 0..1 BY DEF LetsGo
<1>7. IsFiniteSet(Pressed') /\ IsFiniteSet(Delivered') /\ Cardinality(Pressed') \in Nat /\ Cardinality(Delivered') \in Nat
  <2>1. IsFiniteSet(Flows) BY TxFlowAssumption
  <2>2. Pressed' \subseteq Flows /\ Delivered' \subseteq Flows BY DEF Pressed, Delivered
  <2>3. IsFiniteSet(Pressed') BY <2>1, <2>2, FS_Subset
  <2>4. IsFiniteSet(Delivered') BY <2>1, <2>2, FS_Subset
  <2>5. Cardinality(Pressed') \in Nat BY <2>3, FS_CardinalityType
  <2>6. Cardinality(Delivered') \in Nat BY <2>4, FS_CardinalityType
  <2> QED BY <2>3, <2>4, <2>5, <2>6
<1>8. Cardinality(Pressed) <= Cardinality(Pressed') BY <1>7, FS_Subset
<1>9. Cardinality(Delivered) <= Cardinality(Delivered') BY <1>7, FS_Subset
<1>10. Cardinality(Left) + LetsGo <= Cardinality(Pressed) + Cardinality(Delivered) BY DEF LeftInv
<1>11. Cardinality(Left') + LetsGo' <= Cardinality(Pressed') + Cardinality(Delivered')
  BY <1>3, <1>4, <1>5, <1>6, <1>7, <1>8, <1>9, <1>10, FlowCounts
<1> QED BY <1>1, <1>11 DEF LeftInv

ToastTypes == sticky \subseteq ToastIds /\ activeToastId \in ToastIds \cup {0} /\ IsFiniteSet(sticky)

\* What the calls of useTransactionToast do to the toasts: none lets go of one.
LEMMA ToastShown ==
  ASSUME LeftInv, NEW what,
         ShowSending \/ ShowConfirming \/ ShowEnd(what) \/ UNCHANGED toasts
  PROVE  ToastTypes' /\ Left' = Left
<1>1. CASE UNCHANGED toasts
  BY <1>1 DEF toasts, LeftInv, ToastTypes, Left
<1>2. CASE ShowSending
  <2>1. sticky' = Left \cup {Fresh} /\ activeToastId' = Fresh BY <1>2 DEF ShowSending, Left
  <2>2. Fresh \in ToastIds /\ Fresh \notin sticky BY FreshIsNew
  <2>3. IsFiniteSet(Left) BY FS_Subset DEF Left, LeftInv
  <2>4. IsFiniteSet(sticky') BY <2>1, <2>3, FS_AddElement
  <2>5. Left \subseteq sticky /\ sticky \subseteq ToastIds BY DEF Left, LeftInv
  <2>6. Left' = Left BY <2>1, <2>2, <2>5 DEF Left
  <2> QED BY <2>1, <2>2, <2>4, <2>5, <2>6 DEF ToastTypes
<1>3. CASE ShowEnd(what)
  <2>1. sticky' = Left /\ activeToastId' = 0 BY <1>3 DEF ShowEnd, Left
  <2>2. IsFiniteSet(Left) BY FS_Subset DEF Left, LeftInv
  <2>3. Left \subseteq ToastIds /\ 0 \notin ToastIds BY TxFlowAssumption DEF Left, LeftInv
  <2>4. Left' = Left BY <2>1, <2>3 DEF Left
  <2> QED BY <2>1, <2>2, <2>3, <2>4 DEF ToastTypes
<1> QED BY <1>1, <1>2, <1>3 DEF ShowConfirming

LEMMA ClaimLeftStep ==
  ASSUME LeftInv, ClaimToasts', kind = "claim", TxFlowNext PROVE LeftInv'
<1>1. kind' = kind /\ \/ \E what : ShowSending \/ ShowConfirming \/ ShowEnd(what) \/ UNCHANGED toasts
                      \/ sticky' \subseteq sticky /\ activeToastId' \in {0, activeToastId}
  <2>1. ASSUME NEW f \in Flows, NEW ok \in BOOLEAN,
               ClaimBuilt(f, ok) \/ Recovers(f, ok) \/ ClaimConfirmed(f, ok) \/ Signed(f, ok)
        PROVE  kind' = kind /\ \E what : ShowSending \/ ShowEnd(what) \/ UNCHANGED toasts
    BY <2>1 DEF ClaimBuilt, Recovers, ClaimConfirmed, Signed, StartsTry, Breaks
  <2>2. ASSUME NEW f \in Flows, NEW ok \in BOOLEAN, NEW answered \in BOOLEAN, Submitted(f, ok, answered)
        PROVE  kind' = kind /\ (ShowConfirming \/ UNCHANGED toasts)
    BY <2>2 DEF Submitted
  <2>3. ASSUME NEW f \in Flows, PressClaim(f)
        PROVE  kind' = kind /\ sticky' \subseteq sticky /\ activeToastId' = 0
    BY <2>3 DEF PressClaim, Starts
  <2>4. ASSUME NEW f \in Flows, NEW ok \in BOOLEAN, Polled(f, ok) \/ Lands(f) \/ HeightPasses(f)
        PROVE  kind' = kind /\ UNCHANGED toasts
    BY <2>4 DEF Polled, Lands, HeightPasses
  <2>5. CloseToast => kind' = kind /\ sticky' \subseteq sticky /\ activeToastId' = activeToastId
    BY DEF CloseToast
  <2>6. ASSUME NEW f \in Flows, TxAnswer(f)
        PROVE  \E ok \in BOOLEAN : \/ ClaimBuilt(f, ok) \/ Recovers(f, ok) \/ ClaimConfirmed(f, ok)
                                   \/ Polled(f, ok) \/ \E answered \in BOOLEAN : Submitted(f, ok, answered)
    BY <2>6 DEF TxAnswer, DeployRequested, DeployConfirmed
  <2>7. ~Render /\ \A f \in Flows : ~PressDeploy(f) BY DEF Render, PressDeploy
  <2>8. TRUE \in BOOLEAN OBVIOUS
  <2>9. ASSUME NEW f \in Flows, TxAnswer(f) \/ PressClaim(f) \/ Lands(f) \/ HeightPasses(f)
                                \/ \E agrees \in BOOLEAN : Signed(f, agrees)
        PROVE  kind' = kind /\ \/ \E what : ShowSending \/ ShowConfirming \/ ShowEnd(what) \/ UNCHANGED toasts
                               \/ sticky' \subseteq sticky /\ activeToastId' \in {0, activeToastId}
    <3>1. CASE TxAnswer(f) BY <3>1, <2>1, <2>2, <2>4, <2>6
    <3>2. CASE PressClaim(f) BY <3>2, <2>3
    <3>3. CASE Lands(f) \/ HeightPasses(f) BY <3>3, <2>4, <2>8
    <3>4. CASE \E agrees \in BOOLEAN : Signed(f, agrees) BY <3>4, <2>1
    <3> QED BY <2>9, <3>1, <3>2, <3>3, <3>4
  <2> QED BY <2>5, <2>7, <2>9 DEF TxFlowNext
<1>2. ToastTypes'
  <2>1. CASE sticky' \subseteq sticky /\ activeToastId' \in {0, activeToastId}
    <3>1. IsFiniteSet(sticky') BY <2>1, FS_Subset DEF LeftInv
    <3> QED BY <2>1, <3>1 DEF LeftInv, ToastTypes
  <2>2. CASE \E what : ShowSending \/ ShowConfirming \/ ShowEnd(what) \/ UNCHANGED toasts
    BY <2>2, ToastShown
  <2> QED BY <1>1, <2>1, <2>2
<1>3. Left' = {} BY DEF Left, ClaimToasts
<1> QED BY <1>1, <1>2, <1>3 DEF LeftInv, ToastTypes

LEMMA RenderLeft == ASSUME LeftInv, Render PROVE LeftInv'
<1>1. kind # "claim" /\ kind' = kind /\ UNCHANGED <<stage, txStatus>> BY DEF Render, hook
<1>2. Pressed' = Pressed /\ Delivered' = Delivered BY <1>1 DEF Pressed, Delivered
<1>3. Cardinality(Left) + LetsGo <= Cardinality(Pressed) + Cardinality(Delivered) BY <1>1 DEF LeftInv
<1>4. CASE \/ txStatus \notin {"idle", "success"} /\ (ShowSending \/ ShowConfirming)
           \/ \E what : ShowEnd(what) \/ UNCHANGED toasts
  <2>1. ToastTypes' /\ Left' = Left BY <1>4, ToastShown
  <2>2. LetsGo' = LetsGo \/ LetsGo' = 0
    <3>1. CASE txStatus \notin {"idle", "success"} BY <1>1, <3>1 DEF LetsGo
    <3>2. CASE \E what : ShowEnd(what) \/ UNCHANGED toasts
      BY <1>1, <3>2 DEF LetsGo, ShowEnd, toasts
    <3> QED BY <1>4, <3>1, <3>2
  <2>3. IsFiniteSet(Left) BY FS_Subset DEF Left, LeftInv
  <2>4. Cardinality(Left) \in Nat BY <2>3, FS_CardinalityType
  <2>5. LetsGo \in 0..1 BY DEF LetsGo
  <2>6. Cardinality(Left) + LetsGo' <= Cardinality(Pressed) + Cardinality(Delivered)
    BY <1>3, <2>2, <2>4, <2>5, FlowCounts
  <2>7. Cardinality(Left') + LetsGo' <= Cardinality(Pressed') + Cardinality(Delivered')
    BY <1>2, <2>1, <2>6
  <2> QED BY <1>1, <2>1, <2>7 DEF LeftInv, ToastTypes
<1>5. CASE txStatus \in {"idle", "success"} /\ activeToastId' = 0 /\ UNCHANGED sticky
  <2>1. ToastTypes' BY <1>5 DEF LeftInv, ToastTypes
  <2>2. LetsGo' = 0 BY <1>5 DEF LetsGo
  <2>3. IsFiniteSet(Left) BY FS_Subset DEF Left, LeftInv
  <2>4. Cardinality(Left) \in Nat BY <2>3, FS_CardinalityType
  <2>5. Cardinality(Left') <= Cardinality(Left) + LetsGo /\ Cardinality(Left') \in Nat
    <3>1. Left' = sticky
      BY <1>5, TxFlowAssumption DEF Left, LeftInv
    <3>2. CASE activeToastId = 0
      <4>1. Left' = Left BY <1>5, <3>2 DEF Left
      <4>2. LetsGo = 0 BY <3>2 DEF LetsGo
      <4> QED BY <2>4, <4>1, <4>2
    <3>3. CASE activeToastId # 0
      <4>1. LetsGo = 1 BY <1>5, <3>3 DEF LetsGo
      <4>2. Left' \subseteq Left \cup {activeToastId} BY <3>1 DEF Left
      <4>3. IsFiniteSet(Left \cup {activeToastId}) BY <2>3, FS_AddElement
      <4>4. Cardinality(Left \cup {activeToastId})
              = IF activeToastId \in Left THEN Cardinality(Left) ELSE Cardinality(Left) + 1
        BY <2>3, FS_AddElement
      <4>5. activeToastId \notin Left BY DEF Left
      <4>6. Cardinality(Left') <= Cardinality(Left \cup {activeToastId}) /\ IsFiniteSet(Left')
        BY <4>2, <4>3, FS_Subset
      <4>7. Cardinality(Left') \in Nat BY <4>6, FS_CardinalityType
      <4>8. Cardinality(Left \cup {activeToastId}) = Cardinality(Left) + 1 BY <4>4, <4>5
      <4> QED BY <2>4, <4>1, <4>6, <4>7, <4>8
    <3> QED BY <3>2, <3>3
  <2>6. LetsGo \in 0..1 BY DEF LetsGo
  <2>7. Cardinality(Left') <= Cardinality(Pressed) + Cardinality(Delivered)
    BY <1>3, <2>4, <2>5, <2>6, FlowCounts
  <2>8. Cardinality(Left') + LetsGo' <= Cardinality(Pressed') + Cardinality(Delivered')
    BY <1>2, <2>2, <2>5, <2>7
  <2> QED BY <1>1, <2>1, <2>8 DEF LeftInv, ToastTypes
<1>6. \/ txStatus \notin {"idle", "success"} /\ (ShowSending \/ ShowConfirming)
      \/ \E what : ShowEnd(what) \/ UNCHANGED toasts
      \/ txStatus \in {"idle", "success"} /\ activeToastId' = 0 /\ UNCHANGED sticky
  <2>1. CASE txStatus = "idle" BY <2>1 DEF Render
  <2>2. CASE txStatus = "signing" BY <2>2 DEF Render
  <2>3. CASE txStatus = "confirming" BY <2>3 DEF Render
  <2>4. CASE txStatus = "success" BY <2>4 DEF Render
  <2>5. CASE txStatus = "error" BY <2>5 DEF Render
  <2>6. CASE txStatus \notin {"idle", "signing", "confirming", "success", "error"} BY <2>6 DEF Render
  <2> QED BY <2>1, <2>2, <2>3, <2>4, <2>5, <2>6
<1> QED BY <1>4, <1>5, <1>6

\* A press, and a deploy that succeeds, are counted before their toast is let go.
LEMMA LeftCounts ==
  ASSUME LeftInv, kind # "claim", kind' = kind, UNCHANGED <<sticky, activeToastId>>,
         NEW f \in Flows,
         \/ f \notin Pressed /\ Pressed' = Pressed \cup {f} /\ Delivered' = Delivered
         \/ f \notin Delivered /\ Delivered' = Delivered \cup {f} /\ Pressed' = Pressed
  PROVE  LeftInv'
<1>1. Left' = Left BY DEF Left
<1>2. IsFiniteSet(Left) BY FS_Subset DEF Left, LeftInv
<1>3. Cardinality(Left) \in Nat BY <1>2, FS_CardinalityType
<1>4. LetsGo \in 0..1 /\ LetsGo' \in 0..1 BY DEF LetsGo
<1>5. Cardinality(Left) + LetsGo <= Cardinality(Pressed) + Cardinality(Delivered) BY DEF LeftInv
<1>6. Cardinality(Pressed') + Cardinality(Delivered') = Cardinality(Pressed) + Cardinality(Delivered) + 1
  <2>1. CASE f \notin Pressed /\ Pressed' = Pressed \cup {f} /\ Delivered' = Delivered
    <3>1. Cardinality(Pressed \cup {f}) = Cardinality(Pressed) + 1 BY <2>1, FlowCounts, FS_AddElement
    <3> QED BY <2>1, <3>1, FlowCounts
  <2>2. CASE f \notin Delivered /\ Delivered' = Delivered \cup {f} /\ Pressed' = Pressed
    <3>1. Cardinality(Delivered \cup {f}) = Cardinality(Delivered) + 1 BY <2>2, FlowCounts, FS_AddElement
    <3> QED BY <2>2, <3>1, FlowCounts
  <2> QED BY <2>1, <2>2
<1>7. Cardinality(Left) + LetsGo' <= Cardinality(Pressed') + Cardinality(Delivered')
  BY <1>3, <1>4, <1>5, <1>6, FlowCounts
<1>8. Cardinality(Left') + LetsGo' <= Cardinality(Pressed') + Cardinality(Delivered')
  BY <1>1, <1>7
<1> QED BY <1>8 DEF LeftInv

\* One flow of a deploy goes on; one that has been sent only ends.
LEMMA DeployFollows ==
  ASSUME TxInv, LeftInv, kind # "claim", kind' = kind, UNCHANGED <<sticky, activeToastId>>,
         NEW f \in Flows, NEW s \in Stages, s # "none", stage' = [stage EXCEPT ![f] = s],
         stage[f] \in {"server", "done"} => s \in {"server", "done"},
         txStatus' \notin {"idle", "success"} \/ txStatus' = txStatus
  PROVE  LeftInv'
<1>0. stage \in [Flows -> Stages]
  BY DEF TxInv, TxTypes
<1>1. stage'[f] = s /\ \A g \in Flows : g # f => stage'[g] = stage[g]
  BY <1>0
<1>2. Pressed \subseteq Pressed' /\ Delivered \subseteq Delivered' BY <1>0, <1>1 DEF Pressed, Delivered
<1>3. sticky' \subseteq sticky /\ activeToastId' = activeToastId OBVIOUS
<1> QED BY <1>2, <1>3, LeftStands

LEMMA DeployLeftStep ==
  ASSUME TxInv, LeftInv, kind # "claim", TxFlowNext PROVE LeftInv'
<1> USE DEF Goes, Ends, Stages
<1>1. ASSUME NEW f \in Flows, PressDeploy(f) PROVE LeftInv'
  <2>1. /\ stage[f] = "none" /\ stage' = [stage EXCEPT ![f] = "requesting"] /\ kind' = kind
        /\ UNCHANGED <<sticky, activeToastId>>
    BY <1>1 DEF PressDeploy, Starts
  <2>2. f \notin Pressed /\ Pressed' = Pressed \cup {f} /\ Delivered' = Delivered
    BY <2>1 DEF Pressed, Delivered, TxInv, TxTypes
  <2> QED BY <2>1, <2>2, LeftCounts
<1>2. ASSUME NEW f \in Flows, NEW ok \in BOOLEAN, DeployRequested(f, ok) PROVE LeftInv'
  <2>1. stage[f] = "requesting" /\ kind' = kind BY <1>2 DEF DeployRequested
  <2>2. UNCHANGED <<sticky, activeToastId>> BY <1>2 DEF DeployRequested, StartsTry, toasts
  <2>3. txStatus' = txStatus \/ txStatus' = "signing" BY <1>2 DEF DeployRequested, StartsTry
  <2>4. PICK s \in {"server", "signing", "done"} : stage' = [stage EXCEPT ![f] = s]
    BY <1>2 DEF DeployRequested, StartsTry
  <2>5. s \in Stages /\ s # "none" /\ stage[f] \notin {"server", "done"}
    BY <2>1
  <2>6. txStatus' \notin {"idle", "success"} \/ txStatus' = txStatus
    BY <2>3
  <2> QED BY <2>1, <2>2, <2>4, <2>5, <2>6, DeployFollows
<1>3. ASSUME NEW f \in Flows, NEW agrees \in BOOLEAN, Signed(f, agrees) PROVE LeftInv'
  <2>1. stage[f] = "signing" /\ kind' = kind BY <1>3 DEF Signed
  <2>2. UNCHANGED <<sticky, activeToastId>> /\ (txStatus' = txStatus \/ txStatus' = "sending")
    BY <1>3 DEF Signed, toasts
  <2>3. PICK s \in {"sending", "caught"} : stage' = [stage EXCEPT ![f] = s]
    BY <1>3 DEF Signed
  <2>4. s \in Stages /\ s # "none" /\ stage[f] \notin {"server", "done"}
    BY <2>1
  <2>5. txStatus' \notin {"idle", "success"} \/ txStatus' = txStatus
    BY <2>2
  <2> QED BY <2>1, <2>2, <2>3, <2>4, <2>5, DeployFollows
<1>4. ASSUME NEW f \in Flows, NEW taken \in BOOLEAN, NEW answered \in BOOLEAN,
             Submitted(f, taken, answered)
      PROVE  LeftInv'
  <2>1. stage[f] = "sending" /\ kind' = kind BY <1>4 DEF Submitted
  <2>2. UNCHANGED <<sticky, activeToastId>> /\ (txStatus' = txStatus \/ txStatus' = "confirming")
    BY <1>4 DEF Submitted, toasts
  <2>3. PICK s \in {"polling", "caught"} : stage' = [stage EXCEPT ![f] = s]
    BY <1>4 DEF Submitted
  <2>4. s \in Stages /\ s # "none" /\ stage[f] \notin {"server", "done"}
    BY <2>1
  <2>5. txStatus' \notin {"idle", "success"} \/ txStatus' = txStatus
    BY <2>2
  <2> QED BY <2>1, <2>2, <2>3, <2>4, <2>5, DeployFollows
<1>5. ASSUME NEW f \in Flows, NEW ok \in BOOLEAN, Polled(f, ok) PROVE LeftInv'
  <2>1. stage[f] = "polling" /\ kind' = kind /\ UNCHANGED <<sticky, activeToastId>>
    BY <1>5 DEF Polled, toasts
  <2>2. CASE stage' = [stage EXCEPT ![f] = "caught"] /\ UNCHANGED txStatus
    <3>1. "caught" \in Stages /\ stage[f] \notin {"server", "done"} BY <2>1
    <3> QED BY <2>1, <2>2, <3>1, DeployFollows
  <2>3. CASE stage' = [stage EXCEPT ![f] = "server"]
    <3>1. f \notin Delivered /\ Delivered' = Delivered \cup {f} /\ Pressed' = Pressed
      BY <2>1, <2>3 DEF Pressed, Delivered, TxInv, TxTypes
    <3> QED BY <2>1, <3>1, LeftCounts
  <2> QED BY <1>5, <2>2, <2>3 DEF Polled
<1>6. ASSUME NEW f \in Flows, NEW ok \in BOOLEAN, Recovers(f, ok) PROVE LeftInv'
  <2>1. stage[f] = "caught" /\ kind' = kind BY <1>6 DEF Recovers
  <2>2. UNCHANGED <<sticky, activeToastId>> /\ txStatus' \in {"error", "signing"}
    BY <1>6 DEF Recovers, StartsTry, Breaks, toasts
  <2>3. PICK s \in {"done", "signing"} : stage' = [stage EXCEPT ![f] = s]
    BY <1>6 DEF Recovers, StartsTry, Breaks
  <2>4. s \in Stages /\ s # "none" /\ stage[f] \notin {"server", "done"}
    BY <2>1
  <2>5. txStatus' \notin {"idle", "success"} \/ txStatus' = txStatus
    BY <2>2
  <2> QED BY <2>1, <2>2, <2>3, <2>4, <2>5, DeployFollows
<1>7. ASSUME NEW f \in Flows, NEW ok \in BOOLEAN, DeployConfirmed(f, ok) PROVE LeftInv'
  <2>1. stage[f] = "server" /\ kind' = kind /\ UNCHANGED <<sticky, activeToastId, txStatus>>
    BY <1>7 DEF DeployConfirmed
  <2>2. stage' = [stage EXCEPT ![f] = "done"]
    BY <1>7 DEF DeployConfirmed
  <2>3. "done" \in Stages BY DEF Stages
  <2> QED BY <2>1, <2>2, <2>3, DeployFollows
<1>8. ASSUME NEW f \in Flows, Lands(f) \/ HeightPasses(f) PROVE LeftInv'
  <2>1. kind' = kind /\ UNCHANGED <<sticky, activeToastId, txStatus, stage>>
    BY <1>8 DEF Lands, HeightPasses, toasts, hook
  <2>2. Pressed' = Pressed /\ Delivered' = Delivered BY <2>1 DEF Pressed, Delivered
  <2> QED BY <2>1, <2>2, LeftStands
<1>9. CASE CloseToast
  <2>1. kind' = kind /\ sticky' \subseteq sticky /\ UNCHANGED <<activeToastId, txStatus, stage>>
    BY <1>9 DEF CloseToast, hook
  <2>2. Pressed' = Pressed /\ Delivered' = Delivered BY <2>1 DEF Pressed, Delivered
  <2> QED BY <2>1, <2>2, LeftStands
<1>10. ASSUME NEW f \in Flows, TxAnswer(f) PROVE LeftInv'
  <2>1. \E ok \in BOOLEAN : \/ DeployRequested(f, ok) \/ Polled(f, ok) \/ Recovers(f, ok)
                            \/ DeployConfirmed(f, ok) \/ \E answered \in BOOLEAN : Submitted(f, ok, answered)
    BY <1>10 DEF TxAnswer, ClaimBuilt, ClaimConfirmed
  <2> QED BY <2>1, <1>2, <1>4, <1>5, <1>6, <1>7
<1>11. \A f \in Flows : ~PressClaim(f) BY DEF PressClaim
<1> QED BY <1>1, <1>3, <1>8, <1>9, <1>10, <1>11, RenderLeft DEF TxFlowNext

LEMMA LeftStart == ASSUME TxFlowInit PROVE LeftInv
<1>1. sticky = {} /\ activeToastId = 0 BY DEF TxFlowInit
<1>2. Left = {} /\ LetsGo = 0 BY <1>1 DEF Left, LetsGo
<1>3. Cardinality(Left) = 0 /\ IsFiniteSet(sticky) BY <1>1, <1>2, FS_EmptySet
<1>4. Cardinality(Left) + LetsGo <= Cardinality(Pressed) + Cardinality(Delivered)
  BY <1>2, <1>3, FlowCounts
<1> QED BY <1>1, <1>2, <1>3, <1>4 DEF LeftInv

LEMMA LeftStep == ASSUME TxInv, ToastInv, ToastInv', LeftInv, [TxFlowNext]_txFlowVars PROVE LeftInv'
<1>1. CASE UNCHANGED txFlowVars
  BY <1>1 DEF txFlowVars, hook, toasts, LeftInv, Left, LetsGo, Pressed, Delivered
<1>2. CASE TxFlowNext /\ kind = "claim"
  <2>1. kind' = kind
    BY <1>2, KindStays
  <2>2. ClaimToasts' BY <1>2, <2>1 DEF ToastInv
  <2> QED BY <1>2, <2>2, ClaimLeftStep
<1>3. CASE TxFlowNext /\ kind # "claim"
  BY <1>3, DeployLeftStep
<1> QED BY <1>1, <1>2, <1>3

LEMMA TxTypesAlways == TxFlowSpec => []TxFlowTypeOK
<1> DEFINE Inv == TxInv /\ ToastInv /\ HookTypes /\ LeftInv
<1>1. TxFlowInit => Inv
  BY TxStart, ToastStart, HookStart, LeftStart
<1>2. Inv /\ [TxFlowNext]_txFlowVars => Inv'
  BY TxStep, ToastStep, HookStep, LeftStep
<1>3. Inv => TxFlowTypeOK
  <2> SUFFICES ASSUME Inv PROVE TxFlowTypeOK OBVIOUS
  <2>1. TxTypes BY DEF TxInv
  <2>2. sticky \subseteq ToastIds /\ activeToastId \in ToastIds \cup {0} BY DEF LeftInv
  <2>3. \A x \in {onWay, took, failed} : x \in [Flows -> SUBSET Tries] BY <2>1 DEF TxTypes, HookTypes
  <2>4. {requesting, flowError} \subseteq BOOLEAN BY DEF HookTypes
  <2>5. attempt \in Tries BY DEF HookTypes
  <2>6. txStatus \in {"idle", "building", "signing", "sending", "confirming", "success", "error"}
    BY DEF HookTypes, Resting, Working
  <2> QED BY <2>1, <2>2, <2>3, <2>4, <2>5, <2>6 DEF TxFlowTypeOK, TxTypes, Stages, Outcomes
<1> HIDE DEF Inv
<1> QED BY <1>1, <1>2, <1>3, PTL DEF TxFlowSpec

-----------------------------------------------------------------------------
(* The types of the page. *)

Parts == {"session", "feed", "agents", "tx", "clock", "surveys", "panel", "view", "figures",
          "shell", "card", "ranks"}

\* Every part keeps its types, so the part that moves has them: among others no toast is
\* raised without an id that is free, and no survey is shown of a hex that has no row.
THEOREM ClientTypeCorrect == ClientSpec => []ClientTypeOK
<1>1. ClientInit => /\ SessionInit /\ WorldFeedInit /\ AgentFeedInit /\ TxFlowInit /\ ClockInit
                    /\ SurveysInit /\ PanelInit /\ WorldViewInit /\ AgentViewInit /\ CardInit
                    /\ ShellInit /\ RankInit
  BY DEF ClientInit
<1>2. [ClientNext]_clientVars =>
        /\ [SessionNext]_sessionVars /\ [WorldFeedNext]_worldFeedVars
        /\ [AgentFeedNext]_agentFeedVars /\ [TxFlowNext]_txFlowVars /\ [ClockNext]_clockVars
        /\ [SurveysNext]_surveyVars /\ [PanelNext]_panelVars /\ [WorldViewNext]_viewVars
        /\ [AgentViewNext]_figureVars /\ [CardNext]_cardVars /\ [ShellNext]_shellVars
        /\ [RankNext]_rankVars
  BY PartsStep
<1>3. ClientSpec => /\ AgentFeedSpec /\ TxFlowSpec /\ SurveysSpec /\ PanelSpec /\ CardSpec
  BY <1>1, <1>2, PTL DEF ClientSpec, AgentFeedSpec, TxFlowSpec, SurveysSpec, PanelSpec, CardSpec
<1>4. ClientSpec => []SessionTypeOK
  <2>1. SessionInit => SessionTypes BY SessionTypeStart
  <2>2. SessionTypes /\ [SessionNext]_sessionVars => SessionTypes' BY SessionTypesStep
  <2> QED BY <1>1, <1>2, <2>1, <2>2, SessionTypesSay, PTL DEF ClientSpec
<1>5. ClientSpec => []WorldFeedTypeOK
  <2>1. WorldFeedInit => VeinInv /\ FanfareInv BY VeinStart, FanfareStart
  <2>2. (VeinInv /\ FanfareInv) /\ [WorldFeedNext]_worldFeedVars => (VeinInv /\ FanfareInv)'
    BY VeinStepKept, FanfareStep
  <2>3. VeinInv => WorldFeedTypeOK BY WorldFeedTypes
  <2> QED BY <1>1, <1>2, <2>1, <2>2, <2>3, PTL DEF ClientSpec
<1>6. ClientSpec => []ClockTypeOK
  <2>1. ClockInit => ClockTypes /\ CountInv /\ GoldInv BY ClockStart
  <2>2. (ClockTypes /\ CountInv /\ GoldInv) /\ [ClockNext]_clockVars
          => (ClockTypes /\ CountInv /\ GoldInv)'
    BY ClockStep
  <2>3. ClockTypes /\ GoldInv => ClockTypeOK BY ClockTypesOK
  <2> QED BY <1>1, <1>2, <2>1, <2>2, <2>3, PTL DEF ClientSpec
<1>7. ClientSpec => []WorldViewTypeOK
  <2>1. WorldViewInit => ViewTypes /\ ViewInv BY ViewStart
  <2>2. (ViewTypes /\ ViewInv) /\ [WorldViewNext]_viewVars => (ViewTypes /\ ViewInv)' BY ViewStep
  <2>3. ViewTypes => WorldViewTypeOK BY ViewTypesOK
  <2> QED BY <1>1, <1>2, <2>1, <2>2, <2>3, PTL DEF ClientSpec
<1>8. ClientSpec => []AgentViewTypeOK
  <2>1. AgentViewInit => FigureTypes /\ FigureInv BY FigureStart
  <2>2. (FigureTypes /\ FigureInv) /\ [AgentViewNext]_figureVars => (FigureTypes /\ FigureInv)'
    BY FigureStep
  <2>3. FigureTypes /\ FigureInv => AgentViewTypeOK BY FigureTypesOK
  <2> QED BY <1>1, <1>2, <2>1, <2>2, <2>3, PTL DEF ClientSpec
<1>9. ClientSpec => []ShellTypeOK
  <2>1. ShellInit => ShellTypeInv BY ShellStart, ShellTypeStart DEF ShellTypeInv
  <2>2. ShellTypeInv /\ [ShellNext]_shellVars => ShellTypeInv' BY ShellTypeInvStep
  <2>3. ShellTypeInv => ShellTypeOK BY ShellTypesSay
  <2> QED BY <1>1, <1>2, <2>1, <2>2, <2>3, PTL DEF ClientSpec
<1>10. ClientSpec => []RankTypeOK
  <2>1. RankInit => RankTypes /\ FetchTypes BY RankTypeStart
  <2>2. (RankTypes /\ FetchTypes) /\ [RankNext]_rankVars => (RankTypes /\ FetchTypes)'
    BY RankTypesStep
  <2>3. RankTypes => RankTypeOK BY DEF RankTypes, RankTypeOK
  <2> QED BY <1>1, <1>2, <2>1, <2>2, <2>3, PTL DEF ClientSpec
<1>11. ClientSpec => [](part \in Parts)
  <2>1. ClientInit => part \in Parts BY DEF ClientInit, Parts
  <2>2. part \in Parts /\ [ClientNext]_clientVars => (part \in Parts)'
    BY DEF ClientNext, clientVars
  <2> QED BY <2>1, <2>2, PTL DEF ClientSpec
<1>12. part \in Parts /\ SessionTypeOK /\ WorldFeedTypeOK /\ AgentFeedTypeOK /\ TxFlowTypeOK
       /\ ClockTypeOK /\ SurveysTypeOK /\ PanelTypeOK /\ WorldViewTypeOK /\ AgentViewTypeOK
       /\ ShellTypeOK /\ CardTypeOK /\ RankTypeOK => ClientTypeOK
  BY DEF Parts, ClientTypeOK
<1> QED BY <1>3, <1>4, <1>5, <1>6, <1>7, <1>8, <1>9, <1>10, <1>11, <1>12, AgentTypesAlways,
       TxTypesAlways, SurveyTypesAlways, PanelTypesAlways, CardStaysTrue, PTL
=============================================================================
