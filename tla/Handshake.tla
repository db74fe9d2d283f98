----------------------------- MODULE Handshake ------------------------------
(***************************************************************************)
(* The opening exchange of a connection: bolide's client (bolide-rfb:      *)
(* client.rs, proto.rs, ard.rs) and the desktop it talks to.  The desktop  *)
(* is the test kit's (bolide-testkit: server.rs), which speaks 3.8; what   *)
(* an older or another one does is external, as client.rs expects it.      *)
(*                                                                         *)
(* The bytes of one message are one record, and a read takes the whole     *)
(* record: the stream has no other framing than both sides knowing what    *)
(* comes next, so a read that meets a record of another kind is a misread. *)
(* The ciphers are abstract: a login says which secret was put in it.      *)
(***************************************************************************)
EXTENDS Naturals, Sequences

CONSTANTS
    Desktops,   \* the desktops that may answer (records, see DesktopKinds)
    Configs     \* the configurations bolide may be started with

NONE == 1
VNC == 2
ARD == 30
Unknown == 19    \* a type bolide does not implement

\* A list has a byte a type; 3.3 names its type in a u32, and may name one that
\* no byte holds.
Bytes == {NONE, VNC, ARD, Unknown}
Wide == {256, 256 + NONE, 256 + VNC}

\* The version a desktop's banner names (major 0: it is no banner), the types
\* it offers, how it decides, and whether its ARD key has a length in bounds.
DesktopKinds == [major : 0..4, minor : Nat, offers : SUBSET (Bytes \cup Wide),
                 manner : {"fair", "alwaysFail", "unsupported"}, key : {"ok", "odd"}]

\* A password: the desktop's, another one, or one longer than an ARD field
\* whose first eight bytes, all that VNC takes of it, are the desktop's.
Secrets == {"right", "wrong", "long"}

ASSUME HandshakeAssumption ==
    /\ Desktops \subseteq DesktopKinds
    /\ \A d \in Desktops : d.minor >= 7 => d.offers \subseteq Bytes
    /\ Configs \subseteq [user : BOOLEAN, password : Secrets \cup {"none"},
                          auth : {"auto", "ard", "vnc"}]

VARIABLES
    config, desktop,       \* who takes part; never changes
    at,                    \* the client: the kind it reads next, or how it ended
    dialect,               \* the minor version both speak, 0 before that
    there,                 \* the desktop: the kind it reads next, or how it ended
    verdict,               \* what the desktop has decided on the client
    toClient, toDesktop,   \* the two directions of the socket
    logins                 \* history: the logins the client has sent

parties == <<config, desktop>>
vars == <<parties, at, dialect, there, verdict, toClient, toDesktop, logins>>

Errors == {"NotRfb", "UnsupportedVersion", "NoSupportedSecurity", "Refused",
           "PasswordRequired", "UsernameRequired", "AuthFailed", "Protocol",
           "Timeout", "Io"}
Reading == {"banner", "types", "type", "reason", "challenge", "ardChallenge",
            "result", "init"}
Awaiting == {"version", "choice", "login", "clientInit"}
Msg(kind, of) == [kind |-> kind, of |-> of]

\* The desktop has written its banner.
Init ==
    /\ config \in Configs /\ desktop \in Desktops
    /\ at = "banner" /\ dialect = 0 /\ logins = <<>>
    /\ there = "version" /\ verdict = "open"
    /\ toClient = <<Msg("banner", <<desktop.major, desktop.minor>>)>>
    /\ toDesktop = <<>>

-----------------------------------------------------------------------------
(* The client *)

HasUser == config.user
HasPassword == config.password # "none"

\* The lower of the desktop's version and 3.8.
Lower(minor) == IF minor >= 8 THEN 8 ELSE IF minor = 7 THEN 7 ELSE 3

\* choose_security: the type chosen of those offered, {} when there is none.
Choose(offered) ==
    IF config.auth = "ard" THEN offered \cap {ARD}
    ELSE IF config.auth = "vnc" THEN offered \cap {VNC}
    ELSE IF HasUser /\ HasPassword /\ ARD \in offered THEN {ARD}
    ELSE IF HasPassword /\ VNC \in offered THEN {VNC}
    ELSE IF NONE \in offered THEN {NONE}
    ELSE offered \cap {VNC}

\* Mutant: an absent password is sent as an empty one.
AuthenticateAnyway(type) ==
    IF type = ARD /\ ~HasUser THEN "UsernameRequired"
    ELSE CASE type = ARD -> "ardChallenge"
           [] type = VNC -> "challenge"
           [] OTHER -> "result"

\* Mutant: a 3.3 desktop without security is waited on for a result.
AuthenticateLikeLater(type) ==
    IF type = ARD /\ ~HasUser THEN "UsernameRequired"
    ELSE IF type \in {ARD, VNC} /\ ~HasPassword THEN "PasswordRequired"
    ELSE CASE type = ARD -> "ardChallenge"
           [] type = VNC -> "challenge"
           [] OTHER -> "result"

\* What the client reads once the type is known: without the credentials the
\* type takes it gives up before the challenge; 3.3 without security has no
\* SecurityResult.
Authenticate(type) ==
    IF type = ARD /\ ~HasUser THEN "UsernameRequired"
    ELSE IF type \in {ARD, VNC} /\ ~HasPassword THEN "PasswordRequired"
    ELSE CASE type = ARD -> "ardChallenge"
           [] type = VNC -> "challenge"
           [] OTHER -> IF dialect = 3 THEN "init" ELSE "result"

\* Conn::fill, of a message the client takes for the kind it expects.
Takes(kind) ==
    /\ at = kind /\ toClient # <<>> /\ Head(toClient).kind = kind
    /\ toClient' = Tail(toClient)
    /\ UNCHANGED <<parties, there, verdict>>

\* Conn::write, in the same step as the read before it.
Sends(msgs) == toDesktop' = toDesktop \o msgs

\* The client reads on, and opens the session when the result was the last.
Proceeds(kind) ==
    /\ at' = kind
    /\ Sends(IF kind = "init" THEN <<Msg("clientInit", "shared")>> ELSE <<>>)

ReadBanner ==
    LET banner == Head(toClient).of IN
    /\ Takes("banner")
    /\ \/ /\ banner[1] = 0
          /\ Proceeds("NotRfb") /\ UNCHANGED dialect
       \/ /\ banner[1] # 0 /\ (banner[1] # 3 \/ banner[2] < 3)
          /\ Proceeds("UnsupportedVersion") /\ UNCHANGED dialect
       \/ /\ banner[1] = 3 /\ banner[2] >= 3
          /\ dialect' = Lower(banner[2])
          /\ at' = IF dialect' = 3 THEN "type" ELSE "types"
          /\ Sends(<<Msg("version", dialect')>>)
    /\ UNCHANGED logins

\* 3.7 and 3.8: a list, empty when the desktop refuses; the choice is written
\* before the credentials are looked for.
ReadTypes ==
    LET offered == Head(toClient).of IN
    /\ Takes("types")
    /\ \/ offered = {} /\ Proceeds("reason")
       \/ offered # {} /\ Choose(offered) = {} /\ Proceeds("NoSupportedSecurity")
       \/ offered # {} /\ \E type \in Choose(offered) :
             at' = Authenticate(type) /\ Sends(<<Msg("choice", type)>>)
    /\ UNCHANGED <<dialect, logins>>

\* `ty as u8`
LowByte(type) == type % 256

\* 3.3: the desktop has chosen; what --auth says is not looked at, and of the
\* type only the low byte, once it is not zero.
ReadType ==
    LET type == Head(toClient).of IN
    /\ Takes("type")
    /\ \/ type = 0 /\ Proceeds("reason")
       \/ LowByte(type) \in {NONE, VNC} /\ Proceeds(Authenticate(LowByte(type)))
       \/ type # 0 /\ LowByte(type) \notin {NONE, VNC} /\ Proceeds("NoSupportedSecurity")
    /\ UNCHANGED <<dialect, logins>>

\* Mutant: the reason of a failed login is taken for that of a refusal.
ReadReasonOfRefusal ==
    /\ Takes("reason")
    /\ Proceeds("Refused")
    /\ UNCHANGED <<dialect, logins>>

\* The reason of a refusal, or of a result that is a failure.
ReadReason ==
    /\ Takes("reason")
    /\ Proceeds(Head(toClient).of)
    /\ UNCHANGED <<dialect, logins>>

LogsIn(type) ==
    LET login == [type |-> type, secret |-> config.password] IN
    /\ at' = "result"
    /\ logins' = Append(logins, login) /\ Sends(<<Msg("login", login)>>)

ReadChallenge ==
    /\ Takes("challenge")
    /\ LogsIn(VNC)
    /\ UNCHANGED dialect

\* ard_authenticate: a key length out of bounds, no random numbers or a field
\* that does not fit ends it before a byte of the credentials is written.
ReadArdChallenge ==
    /\ Takes("ardChallenge")
    /\ \/ Head(toClient).of = "ok" /\ config.password # "long" /\ LogsIn(ARD)
       \/ Proceeds("Protocol") /\ UNCHANGED logins
    /\ UNCHANGED dialect

\* SecurityResult; only 3.8 gives a reason.
ReadResult ==
    LET ok == Head(toClient).of = "ok" IN
    /\ Takes("result")
    /\ Proceeds(IF ok THEN "init" ELSE IF dialect = 8 THEN "reason" ELSE "AuthFailed")
    /\ UNCHANGED <<dialect, logins>>

ReadInit ==
    /\ Takes("init")
    /\ at' = "connected"
    /\ Sends(<<Msg("format", "RGBX_32"), Msg("encodings", "advertised")>>)
    /\ UNCHANGED <<dialect, logins>>

\* A read that nothing comes for.
NothingCame == IF there = "closed" THEN "Io" ELSE "Timeout"

\* Bytes of another message: a challenge is too short for a ServerInit, which
\* waits for the rest, and a result makes no Apple key of a length in bounds.
Misreads ==
    /\ at \in Reading /\ toClient # <<>> /\ Head(toClient).kind # at
    /\ at' = IF at = "init" THEN NothingCame ELSE "Protocol"
    /\ toClient' = Tail(toClient)
    /\ UNCHANGED <<parties, dialect, there, verdict, toDesktop, logins>>

\* Mutant: a read has no deadline.
GivesUpOnClose ==
    /\ at \in Reading /\ toClient = <<>> /\ there = "closed"
    /\ at' = "Io"
    /\ UNCHANGED <<parties, dialect, there, verdict, toClient, toDesktop, logins>>

\* Nothing has come for config.timeout, or the desktop has closed.
GivesUp ==
    /\ at \in Reading /\ toClient = <<>>
    /\ at' = NothingCame
    /\ UNCHANGED <<parties, dialect, there, verdict, toClient, toDesktop, logins>>

Client ==
    \/ ReadBanner \/ ReadTypes \/ ReadType \/ ReadReason \/ ReadChallenge
    \/ ReadArdChallenge \/ ReadResult \/ ReadInit \/ Misreads \/ GivesUp

-----------------------------------------------------------------------------
(* The desktop *)

Hears(kind) ==
    /\ there = kind /\ toDesktop # <<>> /\ Head(toDesktop).kind = kind
    /\ toDesktop' = Tail(toDesktop)
    /\ UNCHANGED <<parties, at, dialect, logins>>

Says(msgs) == toClient' = toClient \o msgs

\* fail_security: the result, its reason in 3.8, and the end.
Fail ==
    /\ there' = "closed" /\ verdict' = "rejected"
    /\ Says(<<Msg("result", "failed")>>
              \o IF dialect = 8 THEN <<Msg("reason", "AuthFailed")>> ELSE <<>>)

Accept(msgs) == there' = "clientInit" /\ verdict' = "accepted" /\ Says(msgs)

Challenge(kind, before) ==
    /\ there' = "login" /\ UNCHANGED verdict
    /\ Says(before \o <<Msg(kind, desktop.key)>>)

Refuse(none) ==
    /\ there' = "closed" /\ verdict' = "refused"
    /\ Says(<<none, Msg("reason", "Refused")>>)

\* The desktop offers its types; in 3.3 it names one, and goes on with it, with a
\* challenge unless it named None.
HearVersion ==
    /\ Hears("version")
    /\ \/ /\ Head(toDesktop).of >= 7 /\ desktop.offers = {}
          /\ Refuse(Msg("types", {}))
       \/ /\ Head(toDesktop).of >= 7 /\ desktop.offers # {}
          /\ there' = "choice" /\ UNCHANGED verdict
          /\ Says(<<Msg("types", desktop.offers)>>)
       \/ /\ Head(toDesktop).of = 3 /\ desktop.offers = {}
          /\ Refuse(Msg("type", 0))
       \/ /\ Head(toDesktop).of = 3
          /\ \E type \in desktop.offers :
                \/ type = NONE /\ Accept(<<Msg("type", NONE)>>)
                \/ type # NONE /\ Challenge("challenge", <<Msg("type", type)>>)

HearChoice ==
    LET type == Head(toDesktop).of IN
    /\ Hears("choice")
    /\ \/ (type \notin desktop.offers \/ desktop.manner = "unsupported") /\ Fail
       \/ /\ type \in desktop.offers /\ desktop.manner # "unsupported"
          /\ \/ type = NONE /\ Accept(<<Msg("result", "ok")>>)
             \/ type = VNC /\ Challenge("challenge", <<>>)
             \/ type = ARD /\ Challenge("ardChallenge", <<>>)

\* VNC compares the first eight bytes of a password, ARD all of it.
Opens(login) ==
    /\ desktop.manner = "fair"
    /\ login.secret \in IF login.type = VNC THEN {"right", "long"} ELSE {"right"}

HearLogin ==
    /\ Hears("login")
    /\ IF Opens(Head(toDesktop).of) THEN Accept(<<Msg("result", "ok")>>) ELSE Fail

\* ClientInit is answered with ServerInit, and the session begins.
HearClientInit ==
    /\ Hears("clientInit")
    /\ there' = "serving" /\ Says(<<Msg("init", "size")>>)
    /\ UNCHANGED verdict

\* The client has hung up, or a directive (Drop, Shutdown) wins the select.
HangUp ==
    /\ there # "closed"
    /\ there' = "closed"
    /\ UNCHANGED <<parties, at, dialect, verdict, toClient, toDesktop, logins>>

Desktop ==
    HearVersion \/ HearChoice \/ HearLogin \/ HearClientInit \/ HangUp

Next == Client \/ Desktop

\* tokio polls the client, and config.timeout bounds each of its reads.
Fairness == WF_vars(Client)

Spec == Init /\ [][Next]_vars
FairSpec == Spec /\ Fairness

-----------------------------------------------------------------------------
(* Properties *)

\* The types: either side reads a message the protocol has, or has ended in a way
\* the code knows.
TypeOK ==
    /\ config \in Configs /\ desktop \in Desktops
    /\ at \in Reading \cup Errors \cup {"connected"} /\ dialect \in {0, 3, 7, 8}
    /\ there \in Awaiting \cup {"serving", "closed"}
    /\ verdict \in {"open", "accepted", "rejected", "refused"}

\* Client and desktop agree, in every dialect and for every pair of type and
\* configuration, on whose turn it is and what comes next: no message is read
\* for another, and they never both wait for the other, which only the timeout
\* would end.  Two desktops are excepted: the test kit's Security::Unsupported
\* (server.rs:615), which offers type 30 and answers it with a result, and a 3.3
\* desktop that names 257, which the client takes for None (client.rs:193).
InStep ==
    desktop.manner # "unsupported" /\ 256 + NONE \notin desktop.offers =>
        /\ at \in Reading /\ toClient # <<>> => Head(toClient).kind = at
        /\ there \in Awaiting /\ toDesktop # <<>> => Head(toDesktop).kind = there
        /\ ~ (at \in Reading /\ toClient = <<>> /\ there \in Awaiting /\ toDesktop = <<>>)

\* The types a desktop offers, as the client reads them.
Offered == IF dialect = 3 THEN {LowByte(type) : type \in desktop.offers} ELSE desktop.offers

\* Credentials go out at most once a connection, only for a type the desktop
\* offered, or in 3.3 for one with the low byte of a type it named (258 is answered
\* with a VNC login), and only when there are credentials to send: nothing a server
\* could count as a failed login comes of a missing password (client.rs:203).
NeverGuesses ==
    /\ Len(logins) <= 1
    /\ \A i \in DOMAIN logins :
          /\ logins[i].secret # "none"
          /\ logins[i].type \in Offered
          /\ logins[i].type = ARD => HasUser
    /\ at \in {"PasswordRequired", "UsernameRequired"} => logins = <<>>

\* What the client reports is what the desktop decided: connected only when it
\* was let in, AuthFailed only when it was rejected, Refused only when it was
\* refused, and never an error worth a redial (Error::is_retryable) after an
\* answer that was written before the desktop hung up.
TruthfulEnd ==
    /\ at = "connected" => verdict = "accepted"
    /\ at = "AuthFailed" => verdict = "rejected"
    /\ at = "Refused" => verdict = "refused"
    /\ at = "Io" => verdict \notin {"rejected", "refused"}

\* Every connect returns, whatever the desktop does or leaves undone
\* (client.rs:27: every read of this phase is under the timeout).
HandshakeEnds == <>(at \notin Reading)

\* What the README says (README.md:150): `--auth ard` forces type 30 and
\* `--auth vnc` forces classic VNC authentication.
AuthIsForced ==
    \A i \in DOMAIN logins :
        /\ config.auth = "ard" => logins[i].type = ARD
        /\ config.auth = "vnc" => logins[i].type = VNC
=============================================================================
