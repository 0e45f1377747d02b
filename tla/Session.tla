------------------------------- MODULE Session -------------------------------
(***************************************************************************)
(* Who the browser thinks is logged in, against what the server would say. *)
(* The credential is a cookie no script can read; the store keeps an       *)
(* address beside it and asks /auth/session whether the cookie took        *)
(* effect.  A login is a chain of awaits started by an effect of           *)
(* ConnectButton: /auth/nonce, the wallet's prompt, /auth/verify, the      *)
(* probe.  Several may be under way at once, because the flag that keeps   *)
(* them apart is also cleared by others.  The shared socket has the        *)
(* identity of the cookie at its last handshake.                           *)
(*                                                                         *)
(* NoWallet stands for no wallet, no address, no cookie and no identity.   *)
(* localStorage holds the address the store holds, so a reload keeps       *)
(* `shown' and loses the rest.  A cookie dies together with the expiry     *)
(* time the store keeps.                                                   *)
(***************************************************************************)
EXTENDS Integers, FiniteSets

CONSTANTS
  Wallets, AdminWallets, NoWallet,
  TestWallets,     \* the wallets generateTestWallet makes; {} unless FAKE_SOL_MODE is on
  Logins,          \* the calls of authenticate() that can be under way, numbered
  MaxSurprises     \* bound: what the user, the network and time do

ASSUME SessionAssumption ==
  /\ NoWallet \notin Wallets \cup TestWallets /\ Wallets \cap TestWallets = {}
  /\ AdminWallets \subseteq Wallets
  /\ Logins \subseteq Nat /\ IsFiniteSet(Logins) /\ Logins # {}
  /\ MaxSurprises \in Nat

VARIABLES
  wallet,          \* the account the wallet adapter is connected to
  shown,           \* walletAddress of the store; isAuthenticated is shown # NoWallet
  stale,           \* sessionExpiry has passed
  adminFlag,       \* isAdmin of the store
  authenticating, authError, notice,
  loginPc, loginAs, probeSaw,     \* the logins under way and the cookie a probe carried
  restore,         \* the cookie the probe of a restored session carried, or "none"
  logout,          \* "none", "sent", "disconnecting"
  calls,           \* the cookies of API calls not yet answered
  nonce,           \* Redis: the login whose nonce is stored for an address
  testsLeft,       \* test wallets not made yet
  cookie, keepsCookies,           \* the browser's cookie, and whether it stores ours
  link, ident, room, asked,       \* the socket: its state, identity, user room,
                                  \* and for whom the hooks have emitted subscribe
  listening,       \* the hooks' handlers of 'connect' are registered
  dashboard,       \* the admin dashboard is open
  surprises

store    == <<shown, stale, adminFlag, authenticating, authError, notice>>
logins   == <<loginPc, loginAs, probeSaw, nonce, testsLeft>>
socket   == <<link, ident, room, asked, listening>>
sessionVars == <<wallet, store, logins, restore, logout, calls, cookie, keepsCookies,
                 socket, dashboard, surprises>>

Account == Wallets \cup TestWallets \cup {NoWallet}

\* cookieOptions() against the browser's rule: a cookie for another site is kept
\* only with SameSite=None and Secure, a Secure one only over https.
Kept(splitDomains, crossSite, https) == IF crossSite THEN https ELSE ~splitDomains

Idle(f)      == loginPc[f] = "idle"
IsAdmin(w)   == w \in AdminWallets
Surprise     == surprises < MaxSurprises /\ surprises' = surprises + 1

SessionInit ==
  /\ wallet = NoWallet /\ shown = NoWallet /\ stale = FALSE /\ adminFlag = FALSE
  /\ authenticating = FALSE /\ authError = FALSE /\ notice = FALSE
  /\ loginPc = [f \in Logins |-> "idle"]
  /\ loginAs = [f \in Logins |-> NoWallet] /\ probeSaw = [f \in Logins |-> NoWallet]
  /\ restore = "none" /\ logout = "none" /\ calls = {}
  /\ nonce = [w \in Wallets |-> 0] /\ testsLeft = TestWallets
  /\ cookie = NoWallet
  /\ \E split, crossSite, https \in BOOLEAN : keepsCookies = Kept(split, crossSite, https)
  /\ link = "hello" /\ ident = NoWallet /\ room = NoWallet /\ asked = NoWallet
  /\ listening = TRUE /\ dashboard = FALSE /\ surprises = 0

-----------------------------------------------------------------------------
(* Setters of the store, and the pieces the handlers share. *)

SetSession(w) ==
  /\ shown' = w /\ stale' = FALSE /\ authenticating' = FALSE
  /\ authError' = FALSE /\ notice' = FALSE

\* clearSession and setAuthError, one after the other where a handler calls both.
Cleared(error, expired) ==
  /\ shown' = NoWallet /\ stale' = FALSE /\ adminFlag' = FALSE
  /\ authenticating' = FALSE /\ authError' = error /\ notice' = (notice \/ expired)

EndLogin(f) ==
  /\ loginPc' = [loginPc EXCEPT ![f] = "idle"]
  /\ loginAs' = [loginAs EXCEPT ![f] = NoWallet]
  /\ probeSaw' = [probeSaw EXCEPT ![f] = NoWallet]

LoginFails(f) ==
  /\ EndLogin(f)
  /\ authError' = TRUE /\ authenticating' = FALSE
  /\ UNCHANGED <<shown, stale, adminFlag, notice>>

\* disconnect() and connect(): a handshake with the cookie of this moment.  The
\* server forgets the old connection, its room and its place on the dashboard.
Handshake(with) == link' = "hello" /\ ident' = with /\ room' = NoWallet /\ asked' = NoWallet

ReconnectSocketLazily ==   \* Variant: a socket that is up is left alone.
  UNCHANGED <<link, ident, room, asked>>

ReconnectSocket == Handshake(cookie)

-----------------------------------------------------------------------------
(* The login. *)

\* The effect of ConnectButton calls authenticate().
AutoLogin ==
  /\ wallet # NoWallet /\ shown = NoWallet /\ ~authenticating
  /\ \E f \in Logins :
       /\ Idle(f) /\ \A g \in Logins : Idle(g) => f <= g
       /\ loginPc' = [loginPc EXCEPT ![f] = "nonce"]
       /\ loginAs' = [loginAs EXCEPT ![f] = wallet]
  /\ authenticating' = TRUE /\ authError' = FALSE
  /\ UNCHANGED <<wallet, shown, stale, adminFlag, notice, probeSaw, nonce, testsLeft, restore,
                 logout, calls, cookie, keepsCookies, socket, dashboard, surprises>>

\* GET /auth/nonce overwrites the nonce of the address.
NonceArrives(f) ==
  /\ loginPc[f] = "nonce"
  /\ nonce' = [nonce EXCEPT ![loginAs[f]] = f]
  /\ loginPc' = [loginPc EXCEPT ![f] = "sign"]
  /\ UNCHANGED <<wallet, store, loginAs, probeSaw, testsLeft, restore, logout, calls, cookie,
                 keepsCookies, socket, dashboard, surprises>>

SignMessage(f) ==
  /\ loginPc[f] = "sign"
  /\ loginPc' = [loginPc EXCEPT ![f] = "verify"]
  /\ UNCHANGED <<wallet, store, loginAs, probeSaw, nonce, testsLeft, restore, logout, calls,
                 cookie, keepsCookies, socket, dashboard, surprises>>

VerifiedLive(f) == wallet   \* Variant: the account the wallet is on by now.

\* The account the session is set for: the one the login began with.
Verified(f) == loginAs[f]

\* The answer of a login brings the cookie and the body: setSession for `w',
\* setIsAdmin, and the probe leaves.  The store having changed, the data hooks
\* load (lib/apiFetch).
SessionBegins(f, issued, w) ==
  /\ cookie' = IF keepsCookies THEN issued ELSE cookie
  /\ SetSession(w) /\ adminFlag' = IsAdmin(issued)
  /\ loginPc' = [loginPc EXCEPT ![f] = "probe"]
  /\ probeSaw' = [probeSaw EXCEPT ![f] = cookie']
  /\ calls' = calls \cup {cookie'}
  /\ asked' = NoWallet /\ listening' = TRUE
  /\ UNCHANGED loginAs

\* POST /auth/verify: the nonce must be the stored one, and is deleted.
VerifyAnswered(f) ==
  /\ loginPc[f] = "verify"
  /\ IF nonce[loginAs[f]] = f
     THEN nonce' = [nonce EXCEPT ![loginAs[f]] = 0] /\ SessionBegins(f, loginAs[f], Verified(f))
     ELSE LoginFails(f) /\ UNCHANGED <<nonce, cookie, calls, asked, listening>>
  /\ UNCHANGED <<wallet, testsLeft, restore, logout, keepsCookies, link, ident, room,
                 dashboard, surprises>>

\* PLAY TEST MODE, drawn while nobody is logged in and no login is under way.
PlayTestMode ==
  /\ Surprise /\ testsLeft # {} /\ shown = NoWallet /\ ~authenticating
  /\ \E f \in Logins :
       /\ Idle(f) /\ \A g \in Logins : Idle(g) => f <= g
       /\ loginPc' = [loginPc EXCEPT ![f] = "test"]
  /\ authenticating' = TRUE /\ authError' = FALSE
  /\ UNCHANGED <<wallet, shown, stale, adminFlag, notice, loginAs, probeSaw, nonce, testsLeft,
                 restore, logout, calls, cookie, keepsCookies, socket, dashboard>>

\* POST /auth/test-session: a wallet nobody has, a user for it, and the cookie.
TestAnswered(f) ==
  /\ loginPc[f] = "test"
  /\ \E w \in testsLeft : testsLeft' = testsLeft \ {w} /\ SessionBegins(f, w, w)
  /\ UNCHANGED <<wallet, nonce, restore, logout, keepsCookies, link, ident, room, dashboard,
                 surprises>>

\* GET /auth/session by the cookie the probe carried (reconcileSession).
Confirmed(c) == c # NoWallet

\* The probe after a login, and what authenticate() does with its answer.
ProbeAnswered(f, reached) ==
  /\ loginPc[f] = "probe"
  /\ IF reached THEN UNCHANGED surprises ELSE Surprise
  /\ EndLogin(f)
  /\ IF reached /\ Confirmed(probeSaw[f])
     THEN /\ adminFlag' = IsAdmin(probeSaw[f])
          /\ ReconnectSocket
          /\ UNCHANGED <<shown, stale, authenticating, authError, notice>>
     ELSE Cleared(TRUE, FALSE) /\ UNCHANGED <<link, ident, room, asked>>
  /\ UNCHANGED <<wallet, nonce, testsLeft, restore, logout, calls, cookie, keepsCookies,
                 listening, dashboard>>

\* The user rejects the prompt, a request fails, or verify's answer is lost.
LoginBreaks(f) ==
  /\ Surprise
  /\ loginPc[f] \in {"nonce", "sign", "verify", "test"}
  /\ LoginFails(f)
  /\ nonce' = IF loginPc[f] = "verify" /\ nonce[loginAs[f]] = f
              THEN [nonce EXCEPT ![loginAs[f]] = 0] ELSE nonce
  /\ UNCHANGED <<wallet, testsLeft, restore, logout, calls, cookie, keepsCookies, socket,
                 dashboard>>

\* NONCE_TTL passes while the prompt waits.
NonceExpires(w) ==
  /\ Surprise /\ nonce[w] # 0
  /\ nonce' = [nonce EXCEPT ![w] = 0]
  /\ UNCHANGED <<wallet, store, loginPc, loginAs, probeSaw, testsLeft, restore, logout, calls,
                 cookie, keepsCookies, socket, dashboard>>

-----------------------------------------------------------------------------
(* Wallet changes, answers of the API, reload and logout. *)

UseWallet(w) ==
  /\ Surprise /\ w # wallet /\ wallet' = w
  /\ UNCHANGED <<store, logins, restore, logout, calls, cookie, keepsCookies, socket, dashboard>>

SwitchSeen == wallet # NoWallet /\ shown \notin {NoWallet, wallet}

\* The effect that sees another account than the one the session is for.
NoticeSwitch ==
  /\ SwitchSeen
  /\ Cleared(FALSE, FALSE) /\ asked' = NoWallet
  /\ UNCHANGED <<wallet, logins, restore, logout, calls, cookie, keepsCookies, link, ident,
                 room, listening, dashboard, surprises>>

CallApi ==
  /\ Surprise /\ shown # NoWallet
  /\ calls' = calls \cup {cookie}
  /\ UNCHANGED <<wallet, store, logins, restore, logout, cookie, keepsCookies, socket, dashboard>>

Refused(c) == c = NoWallet

\* requireAuth answers by the cookie the call carried; on 401 apiFetch calls
\* expireSession, which does nothing unless there is a session.
CallAnswered(c) ==
  /\ c \in calls /\ calls' = calls \ {c}
  /\ IF Refused(c) /\ shown # NoWallet
     THEN Cleared(FALSE, TRUE) /\ asked' = NoWallet
     ELSE UNCHANGED <<store, asked>>
  /\ UNCHANGED <<wallet, logins, restore, logout, cookie, keepsCookies, link, ident, room,
                 listening, dashboard, surprises>>

DismissNotice ==
  /\ notice /\ notice' = FALSE
  /\ UNCHANGED <<wallet, shown, stale, adminFlag, authenticating, authError, logins, restore,
                 logout, calls, cookie, keepsCookies, socket, dashboard, surprises>>

\* A page load: the store comes back from localStorage, the wallet connects
\* itself or not, and a restored session is probed unless it has expired.
Reload ==
  /\ Surprise
  /\ wallet' \in {wallet, NoWallet}
  /\ loginPc' = [f \in Logins |-> "idle"]
  /\ loginAs' = [f \in Logins |-> NoWallet] /\ probeSaw' = [f \in Logins |-> NoWallet]
  /\ shown' = IF stale THEN NoWallet ELSE shown
  /\ stale' = FALSE /\ adminFlag' = FALSE /\ authenticating' = FALSE
  /\ authError' = FALSE /\ notice' = FALSE
  /\ restore' = IF shown # NoWallet /\ ~stale THEN cookie ELSE "none"
  /\ calls' = IF shown # NoWallet THEN {cookie} ELSE {}
  /\ logout' = "none" /\ dashboard' = FALSE /\ listening' = TRUE
  /\ Handshake(cookie)
  /\ UNCHANGED <<nonce, testsLeft, cookie, keepsCookies>>

RestoreAnswered(reached) ==
  /\ restore # "none" /\ restore' = "none"
  /\ IF reached THEN UNCHANGED surprises ELSE Surprise
  /\ IF reached /\ Confirmed(restore)
     THEN /\ adminFlag' = IsAdmin(restore) /\ ReconnectSocket
          /\ UNCHANGED <<shown, stale, authenticating, authError, notice>>
     ELSE Cleared(FALSE, FALSE) /\ asked' = NoWallet /\ UNCHANGED <<link, ident, room>>
  /\ UNCHANGED <<wallet, logins, logout, calls, cookie, keepsCookies, listening, dashboard>>

\* The component that started the probe unmounts: the answer is dropped
\* (setIsAdmin, inside reconcileSession, still runs) and no one asks again.
RestoreDropped ==
  /\ Surprise /\ restore # "none" /\ restore' = "none"
  /\ adminFlag' = IF Confirmed(restore) THEN IsAdmin(restore) ELSE adminFlag
  /\ UNCHANGED <<wallet, shown, stale, authenticating, authError, notice, logins, logout,
                 calls, cookie, keepsCookies, socket, dashboard>>

Logout ==
  /\ Surprise /\ logout = "none" /\ wallet # NoWallet /\ shown # NoWallet
  /\ logout' = "sent"
  /\ UNCHANGED <<wallet, store, logins, restore, calls, cookie, keepsCookies, socket, dashboard>>

\* clearCookie with the options it was set with, then clearSession.
LogoutAnswered(reached) ==
  /\ logout = "sent" /\ logout' = "disconnecting"
  /\ IF reached THEN UNCHANGED surprises ELSE Surprise
  /\ cookie' = IF reached THEN NoWallet ELSE cookie
  /\ Cleared(FALSE, FALSE) /\ asked' = NoWallet
  /\ UNCHANGED <<wallet, logins, restore, calls, keepsCookies, link, ident, room, listening,
                 dashboard>>

WalletDisconnected ==
  /\ logout = "disconnecting" /\ logout' = "none"
  /\ wallet' = NoWallet /\ ReconnectSocket
  /\ UNCHANGED <<store, logins, restore, calls, cookie, keepsCookies, listening, dashboard,
                 surprises>>

SessionExpires ==
  /\ Surprise /\ cookie # NoWallet
  /\ cookie' = NoWallet /\ stale' = (shown # NoWallet)
  /\ UNCHANGED <<wallet, shown, adminFlag, authenticating, authError, notice, logins, restore,
                 logout, calls, keepsCookies, socket, dashboard>>

\* The browser forgets the cookie and not localStorage.
CookieDropped ==
  /\ Surprise /\ cookie # NoWallet /\ cookie' = NoWallet
  /\ UNCHANGED <<wallet, store, logins, restore, logout, calls, keepsCookies, socket, dashboard>>

-----------------------------------------------------------------------------
(* The shared socket. *)

Connected ==
  /\ link = "hello" /\ link' = "up"
  /\ asked' = IF listening THEN NoWallet ELSE shown
  /\ UNCHANGED <<wallet, store, logins, restore, logout, calls, cookie, keepsCookies, ident,
                 room, listening, dashboard, surprises>>

\* The hooks emit subscribe when the socket connects and when the session
\* changes; on an acknowledgement they load again.
Subscribe ==
  /\ link = "up" /\ shown # NoWallet /\ asked # shown
  /\ asked' = shown
  /\ IF ident = shown
     THEN room' = ident /\ calls' = calls \cup {cookie}
     ELSE UNCHANGED <<room, calls>>
  /\ UNCHANGED <<wallet, store, logins, restore, logout, cookie, keepsCookies, link, ident,
                 listening, dashboard, surprises>>

LinkDrops ==
  /\ Surprise /\ link = "up" /\ Handshake(cookie)
  /\ UNCHANGED <<wallet, store, logins, restore, logout, calls, cookie, keepsCookies,
                 listening, dashboard>>

OpenDashboard ==
  /\ Surprise /\ adminFlag /\ shown # NoWallet /\ ~dashboard /\ dashboard' = TRUE
  /\ UNCHANGED <<wallet, store, logins, restore, logout, calls, cookie, keepsCookies, socket>>

\* Its cleanup is socket.off('connect'), which names no handler and so removes
\* those of the data hooks too; they come back when the session changes.
CloseDashboard ==
  /\ dashboard /\ dashboard' = FALSE /\ listening' = FALSE
  /\ UNCHANGED <<wallet, store, logins, restore, logout, calls, cookie, keepsCookies, link,
                 ident, room, asked, surprises>>

-----------------------------------------------------------------------------

Login ==
  \E f \in Logins :
    \/ NonceArrives(f) \/ SignMessage(f) \/ VerifyAnswered(f) \/ TestAnswered(f)
    \/ LoginBreaks(f) \/ \E reached \in BOOLEAN : ProbeAnswered(f, reached)

\* The effect runs with the render after the change, before any other answer.
SessionNext ==
  \/ NoticeSwitch
  \/ ~SwitchSeen /\
     \/ AutoLogin \/ PlayTestMode \/ Login
     \/ \E w \in Wallets : NonceExpires(w) \/ UseWallet(w)
     \/ CallApi \/ DismissNotice \/ \E c \in calls : CallAnswered(c)
     \/ Reload \/ RestoreDropped \/ Logout \/ WalletDisconnected
     \/ \E reached \in BOOLEAN : RestoreAnswered(reached) \/ LogoutAnswered(reached)
     \/ SessionExpires \/ CookieDropped
     \/ Connected \/ Subscribe \/ LinkDrops \/ OpenDashboard \/ CloseDashboard

SessionSpec == SessionInit /\ [][SessionNext]_sessionVars

-----------------------------------------------------------------------------
(* Properties. *)

SessionTypeOK ==
  /\ {wallet, shown, cookie, ident, room, asked} \subseteq Account
  /\ restore \in Account \cup {"none"} /\ calls \subseteq Account
  /\ {stale, adminFlag, authenticating, authError, notice, keepsCookies, listening, dashboard}
       \subseteq BOOLEAN
  /\ loginPc \in [Logins -> {"idle", "nonce", "sign", "verify", "test", "probe"}]
  /\ loginAs \in [Logins -> Account] /\ probeSaw \in [Logins -> Account]
  /\ nonce \in [Wallets -> Logins \cup {0}] /\ testsLeft \subseteq TestWallets
  /\ logout \in {"none", "sent", "disconnecting"} /\ link \in {"hello", "up"}
  /\ surprises \in 0..MaxSurprises

Settled ==
  /\ \A f \in Logins : Idle(f)
  /\ restore = "none" /\ logout = "none"
  /\ wallet \in {shown, NoWallet}

\* With no login, restore or logout under way, a page that shows someone as
\* logged in carries the cookie of that account or none: whatever the order of
\* wallet switches, late answers and logouts, no request acts for another account
\* than the one on display (useWalletSession.authenticate, logout, checkSession).
ShownActsForItself == Settled /\ shown # NoWallet => cookie \in {shown, NoWallet}

\* A browser that refuses the cookie never ends up with a page that looks logged
\* in: the probe after a login, the probe of a restored session and the 401 of
\* the first call each take the session back (reconcileSession, lib/apiFetch).
NoFakeLogin == Settled /\ calls = {} /\ ~keepsCookies => shown = NoWallet

\* Once everything in flight is answered, a session that is shown and whose cookie
\* lives has its socket in its own room, if the socket is up and the hooks have
\* asked (reconnectSocket after the cookie is in place, never before).
SocketFollowsSession ==
  listening /\ Settled /\ shown # NoWallet /\ shown = cookie /\ link = "up" /\ asked = shown
    => room = shown

\* The login is what it says: an account that is shown acts for itself, and a browser that
\* keeps no cookie shows none for long.
LoginIsHonest == ShownActsForItself /\ NoFakeLogin
=============================================================================
