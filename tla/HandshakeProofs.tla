-------------------------- MODULE HandshakeProofs ---------------------------
(***************************************************************************)
(* What the opening exchange promises, for every desktop and every         *)
(* configuration.                                                          *)
(*                                                                         *)
(* The exchange is a course of rows (HandInv): in each it is said what the *)
(* client reads next, what the desktop has decided, and which messages the *)
(* two streams hold.  A client's step, and a desktop's, leads from a row   *)
(* to a row; the desktop may hang up in any of them.  That both sides read *)
(* the same row is what InStep says; what a row says of the desktop's      *)
(* verdict is what TruthfulEnd asks; and a login is an event of one row.   *)
(***************************************************************************)
EXTENDS Handshake, SequenceTheorems, TLAPS

-----------------------------------------------------------------------------
(* The course of the exchange: whose turn it is, row by row.                *)

\* The client has said m, and the desktop has not heard it; or the desktop has
\* answered with msgs, and waits for next.  It may have hung up either way.
Said(m) == toDesktop = <<m>> /\ toClient = <<>> /\ there \in {m.kind, "closed"}
Answered(msgs, next) ==
    toDesktop = <<>> /\ toClient = msgs /\ there \in {next, "closed"}

Later == dialect \in {7, 8}
Failure == <<Msg("result", "failed")>>
              \o IF dialect = 8 THEN <<Msg("reason", "AuthFailed")>> ELSE <<>>
TypeAt == IF at = "challenge" THEN VNC ELSE ARD

Greeting ==
    /\ at = "banner" /\ dialect = 0 /\ verdict = "open"
    /\ Answered(<<Msg("banner", <<desktop.major, desktop.minor>>)>>, "version")

Versions ==
    /\ (at = "types" /\ Later) \/ (at = "type" /\ dialect = 3)
    /\ verdict = "open" /\ Said(Msg("version", dialect))

Offer ==
    /\ at = "types" /\ Later
    /\ \/ /\ desktop.offers # {} /\ verdict = "open"
          /\ Answered(<<Msg("types", desktop.offers)>>, "choice")
       \/ /\ verdict = "refused"
          /\ Answered(<<Msg("types", {}), Msg("reason", "Refused")>>, "closed")

Dictate ==
    /\ at = "type" /\ dialect = 3
    /\ \/ /\ verdict = "refused"
          /\ Answered(<<Msg("type", 0), Msg("reason", "Refused")>>, "closed")
       \/ /\ NONE \in desktop.offers /\ verdict = "accepted"
          /\ Answered(<<Msg("type", NONE)>>, "clientInit")
       \/ /\ verdict = "open"
          /\ \E t \in desktop.offers \ {NONE} :
               Answered(<<Msg("type", t), Msg("challenge", desktop.key)>>, "login")

Reason ==
    /\ at = "reason"
    /\ \/ verdict = "refused" /\ Answered(<<Msg("reason", "Refused")>>, "closed")
       \/ verdict = "rejected" /\ Answered(<<Msg("reason", "AuthFailed")>>, "closed")

Challenged ==
    /\ at \in {"challenge", "ardChallenge"} /\ TypeAt \in Offered
    /\ HasPassword /\ (TypeAt = ARD => HasUser) /\ (dialect = 3 => at = "challenge")
    /\ \/ verdict = "open" /\ Later /\ Said(Msg("choice", TypeAt))
       \/ verdict = "open" /\ dialect # 0 /\ Answered(<<Msg(at, desktop.key)>>, "login")
       \/ /\ desktop.manner = "unsupported" /\ verdict = "rejected" /\ dialect # 0
          /\ Answered(Failure, "closed")

Result ==
    /\ at = "result"
    /\ \/ verdict = "open" /\ Later /\ NONE \in desktop.offers /\ Said(Msg("choice", NONE))
       \/ verdict = "open" /\ \E l : logins = <<l>> /\ Said(Msg("login", l))
       \/ verdict = "accepted" /\ Answered(<<Msg("result", "ok")>>, "clientInit")
       \/ verdict = "rejected" /\ Answered(Failure, "closed")

Opening ==
    /\ at = "init" /\ verdict = "accepted"
    /\ \/ Said(Msg("clientInit", "shared"))
       \/ Answered(<<Msg("init", "size")>>, "serving")

\* The desktop has named 257 and waits for a login, the client has taken it for
\* None and waits for the session, or has waited for long enough.
Astray ==
    /\ 256 + NONE \in desktop.offers /\ dialect = 3 /\ verdict = "open"
    /\ toDesktop = <<Msg("clientInit", "shared")>> /\ there \in {"login", "closed"}
    /\ \/ at = "init" /\ toClient = <<Msg("challenge", desktop.key)>>
       \/ at \in {"Timeout", "Io"} /\ (at = "Io" => there = "closed")

\* The session, or the client gone: the desktop may still hear its last word.
Over ==
    \/ /\ at = "connected" /\ verdict = "accepted" /\ there \in {"serving", "closed"}
    \/ /\ at \in Errors
       /\ \/ toDesktop = <<>>
          \/ \E m : toDesktop = <<m>> /\ there \in {m.kind, "closed"}
       /\ at = "AuthFailed" => verdict = "rejected"
       /\ at = "Refused" => verdict = "refused"
       /\ at = "Io" => there = "closed" /\ verdict \notin {"rejected", "refused"}

Course ==
    \/ Greeting \/ Versions \/ Offer \/ Dictate \/ Reason \/ Challenged \/ Result
    \/ Opening \/ Over \/ Astray

Decided == verdict \in {"rejected", "refused"} => there = "closed"

\* One login at most, of a type the desktop offered, as the client reads it.
LoggedIn ==
    /\ logins = <<>> \/ \E l \in {logins[1]} :
         /\ logins = <<l>> /\ l.secret # "none" /\ l.type \in Offered
         /\ l.type = ARD => HasUser
    /\ at \notin {"result", "reason", "init", "connected"} \cup
                 (Errors \ {"PasswordRequired", "UsernameRequired"}) => logins = <<>>

Parties == config \in Configs /\ desktop \in Desktops

HandInv == Parties /\ Course /\ Decided /\ LoggedIn

USE HandshakeAssumption DEF HandshakeAssumption, NONE, VNC, ARD, Unknown, Bytes, Wide

\* A byte is its own low byte; of the wider types bolide reads 0, 1 and 2.
LEMMA LowBytes ==
    /\ \A type \in Bytes : LowByte(type) = type
    /\ LowByte(256) = 0 /\ LowByte(257) = NONE /\ LowByte(258) = VNC
    /\ LowByte(0) = 0
  BY DEF LowByte

\* What the streams hold is never longer than two messages.
LEMMA Words ==
    ASSUME NEW a, NEW b
    PROVE  /\ <<a>> # <<>> /\ Head(<<a>>) = a /\ Tail(<<a>>) = <<>>
           /\ <<a, b>> # <<>> /\ Head(<<a, b>>) = a /\ Tail(<<a, b>>) = <<b>>
           /\ <<>> \o <<>> = <<>> /\ <<>> \o <<a>> = <<a>> /\ <<>> \o <<a, b>> = <<a, b>>
           /\ <<a>> \o <<>> = <<a>> /\ <<a>> \o <<b>> = <<a, b>>
  <1>1. /\ <<a>> # <<>> /\ Head(<<a>>) = a /\ Tail(<<a>>) = <<>>
        /\ <<a, b>> # <<>> /\ Head(<<a, b>>) = a /\ Tail(<<a, b>>) = <<b>>
    OBVIOUS
  <1>2. <<a>> \in Seq({a, b}) /\ <<b>> \in Seq({a, b}) /\ <<a, b>> \in Seq({a, b})
        /\ <<>> \in Seq({a, b})
    OBVIOUS
  <1>3. <<>> \o <<>> = <<>> /\ <<>> \o <<a>> = <<a>> /\ <<>> \o <<a, b>> = <<a, b>>
        /\ <<a>> \o <<>> = <<a>>
    BY <1>2, ConcatEmptySeq
  <1>4. <<a>> \o <<b>> = <<a, b>>
    <2>1. Append(<<a>>, b) = <<a>> \o <<b>>
      BY <1>2, AppendIsConcat
    <2>2. Append(<<a>>, b) = <<a, b>>
      <3>1. /\ Append(<<a>>, b) \in Seq({a, b}) /\ Len(Append(<<a>>, b)) = 2
            /\ Append(<<a>>, b)[1] = a /\ Append(<<a>>, b)[2] = b
        BY <1>2, AppendProperties
      <3>2. Len(<<a, b>>) = 2 /\ <<a, b>>[1] = a /\ <<a, b>>[2] = b
        OBVIOUS
      <3>3. \A i \in 1 .. 2 : Append(<<a>>, b)[i] = <<a, b>>[i]
        BY <3>1, <3>2
      <3> QED
        BY <1>2, <3>1, <3>2, <3>3, SeqEqual
    <2> QED
      BY <2>1, <2>2
  <1> QED
    BY <1>1, <1>3, <1>4

LEMMA MsgFields == \A k, o : Msg(k, o).kind = k /\ Msg(k, o).of = o
  BY DEF Msg

LEMMA FailureWords ==
    Failure = IF dialect = 8 THEN <<Msg("result", "failed"), Msg("reason", "AuthFailed")>>
                             ELSE <<Msg("result", "failed")>>
  BY Words DEF Failure

\* What authenticating with each type comes to.
LEMMA Authenticates ==
    /\ Authenticate(NONE) = IF dialect = 3 THEN "init" ELSE "result"
    /\ Authenticate(VNC) = IF HasPassword THEN "challenge" ELSE "PasswordRequired"
    /\ Authenticate(ARD) = IF ~HasUser THEN "UsernameRequired"
                           ELSE IF HasPassword THEN "ardChallenge" ELSE "PasswordRequired"
  BY DEF Authenticate

\* The row the client is in.
LEMMA RowAt ==
    Course => /\ at = "banner" => Greeting
              /\ at = "types" => Versions \/ Offer
              /\ at = "type" => Versions \/ Dictate
              /\ at = "reason" => Reason
              /\ at \in {"challenge", "ardChallenge"} => Challenged
              /\ at = "result" => Result
              /\ at = "init" => Opening \/ Astray
              /\ at \notin Reading => Over \/ Astray
              /\ at \in Reading \cup Errors \cup {"connected"}
  BY DEF Course, Greeting, Versions, Offer, Dictate, Reason, Challenged, Result, Opening,
         Over, Astray, Reading, Errors

LEMMA HandInit == Init => HandInv
  BY DEF Init, HandInv, Parties, Course, Greeting, Answered, Decided, LoggedIn

\* Nothing the client does changes what it knows of a desktop that has decided.
LEMMA ClientKeeps ==
    ASSUME HandInv, Client
    PROVE  /\ at \in Reading /\ UNCHANGED <<config, desktop, there, verdict>>
           /\ Decided'
  BY DEF Client, ReadBanner, ReadTypes, ReadType, ReadReason, ReadChallenge,
         ReadArdChallenge, ReadResult, ReadInit, Misreads, GivesUp, Takes, parties, HandInv,
         Decided, Reading

\* The client ends, with nothing more to say than its last word.
LEMMA ClientEnds ==
    ASSUME at' \in Errors \ {"AuthFailed", "Refused", "Io"}, UNCHANGED there,
           \/ toDesktop' = <<>>
           \/ \E m : toDesktop' = <<m>> /\ there \in {m.kind, "closed"}
    PROVE  Course'
  BY DEF Course, Over, Errors

LEMMA ReadBannerCourse == HandInv /\ ReadBanner => Course'
  <1> SUFFICES ASSUME HandInv, ReadBanner PROVE Course'
    OBVIOUS
  <1> DEFINE banner == Msg("banner", <<desktop.major, desktop.minor>>)
  <1>1. /\ at = "banner" /\ toClient = <<banner>> /\ toDesktop = <<>> /\ verdict = "open"
        /\ there \in {"version", "closed"} /\ Head(toClient) = banner
        /\ UNCHANGED <<config, desktop, there, verdict>>
    BY RowAt, Words DEF HandInv, ReadBanner, Takes, Greeting, Answered, parties
  <1>2. toClient' = <<>>
    BY <1>1, Words DEF ReadBanner, Takes
  <1>3. CASE \E kind \in {"NotRfb", "UnsupportedVersion"} : Proceeds(kind)
    <2>1. at' \in {"NotRfb", "UnsupportedVersion"} /\ toDesktop' = <<>>
      BY <1>1, <1>3, Words DEF Proceeds, Sends
    <2> QED
      BY <1>1, <2>1, ClientEnds DEF Errors
  <1>4. CASE /\ dialect' \in {3, 7, 8} /\ at' = IF dialect' = 3 THEN "type" ELSE "types"
             /\ Sends(<<Msg("version", dialect')>>)
    <2>1. toDesktop' = <<Msg("version", dialect')>>
      BY <1>1, <1>4, Words DEF Sends
    <2>2. Versions'
      BY <1>1, <1>2, <1>4, <2>1, MsgFields DEF Versions, Later, Said
    <2> QED
      BY <2>2 DEF Course
  <1> QED
    BY <1>3, <1>4 DEF ReadBanner, Lower

LEMMA ReadTypesCourse == HandInv /\ ReadTypes => Course'
  <1> SUFFICES ASSUME HandInv, ReadTypes PROVE Course'
    OBVIOUS
  <1>1. /\ at = "types" /\ toClient # <<>> /\ Offer
        /\ UNCHANGED <<config, desktop, there, verdict, dialect, logins>>
    BY RowAt DEF HandInv, ReadTypes, Takes, Versions, Said, parties
  <1>2. toDesktop = <<>> /\ Later
    BY <1>1 DEF Offer, Answered
  <1>3. CASE verdict = "refused"
    <2>1. /\ toClient = <<Msg("types", {}), Msg("reason", "Refused")>> /\ there = "closed"
      BY <1>1, <1>3 DEF Offer, Answered
    <2>2. Head(toClient).of = {} /\ toClient' = <<Msg("reason", "Refused")>>
      BY <2>1, Words, MsgFields DEF ReadTypes, Takes
    <2>3. Proceeds("reason")
      BY <2>2 DEF ReadTypes
    <2>4. at' = "reason" /\ toDesktop' = <<>>
      BY <1>2, <2>3, Words DEF Proceeds, Sends
    <2> QED
      BY <1>1, <1>3, <2>1, <2>2, <2>4 DEF Course, Reason, Answered
  <1>4. CASE verdict # "refused"
    <2>1. /\ desktop.offers # {} /\ verdict = "open" /\ there \in {"choice", "closed"}
          /\ toClient = <<Msg("types", desktop.offers)>>
      BY <1>1, <1>4 DEF Offer, Answered
    <2>2. Head(toClient).of = desktop.offers /\ toClient' = <<>>
      BY <2>1, Words, MsgFields DEF ReadTypes, Takes
    <2>3. CASE Proceeds("NoSupportedSecurity")
      <3>1. at' = "NoSupportedSecurity" /\ toDesktop' = <<>>
        BY <1>2, <2>3, Words DEF Proceeds, Sends
      <3> QED
        BY <1>1, <3>1, ClientEnds DEF Errors
    <2>4. ASSUME NEW type \in Choose(desktop.offers), at' = Authenticate(type),
                 Sends(<<Msg("choice", type)>>)
          PROVE  Course'
      <3>1. type \in desktop.offers /\ type \in {NONE, VNC, ARD}
        BY <2>4 DEF Choose
      <3>2. toDesktop' = <<Msg("choice", type)>> /\ Msg("choice", type).kind = "choice"
        BY <1>2, <2>4, Words, MsgFields DEF Sends
      <3>3. CASE at' \in {"UsernameRequired", "PasswordRequired"}
        BY <1>1, <2>1, <3>2, <3>3, ClientEnds DEF Errors
      <3>4. CASE at' \in {"challenge", "ardChallenge"}
        <4>1. HasPassword /\ (type = ARD => HasUser) /\ type = IF at' = "challenge" THEN VNC ELSE ARD
          BY <1>2, <2>4, <3>1, <3>4, Authenticates DEF Later
        <4>2. HasUser' = HasUser /\ HasPassword' = HasPassword /\ Later'
          BY <1>1, <1>2 DEF HasUser, HasPassword, Later
        <4>3. Challenged'
          BY <1>1, <1>2, <2>1, <2>2, <3>1, <3>2, <3>4, <4>1, <4>2
          DEF Challenged, Said, Later, TypeAt, Offered
        <4> QED
          BY <4>3 DEF Course
      <3>5. CASE at' = "result"
        <4>1. type = NONE
          BY <2>4, <3>1, <3>5, Authenticates
        <4>2. Result'
          BY <1>1, <1>2, <2>1, <2>2, <3>1, <3>2, <3>5, <4>1 DEF Result, Said, Later
        <4> QED
          BY <4>2 DEF Course
      <3>6. at' \in {"UsernameRequired", "PasswordRequired", "challenge", "ardChallenge", "result"}
        BY <1>2, <2>4 DEF Authenticate, Later
      <3> QED
        BY <3>3, <3>4, <3>5, <3>6
    <2> QED
      BY <2>1, <2>2, <2>3, <2>4 DEF ReadTypes
  <1> QED
    BY <1>3, <1>4

LEMMA ReadTypeCourse == HandInv /\ ReadType => Course'
  <1> SUFFICES ASSUME HandInv, ReadType PROVE Course'
    OBVIOUS
  <1>1. /\ at = "type" /\ toClient # <<>> /\ Dictate /\ dialect = 3 /\ toDesktop = <<>>
        /\ UNCHANGED <<config, desktop, there, verdict, dialect, logins>>
    BY RowAt DEF HandInv, ReadType, Takes, Versions, Said, parties, Dictate, Answered
  <1>2. CASE verdict = "refused"
    <2>1. /\ toClient = <<Msg("type", 0), Msg("reason", "Refused")>> /\ there = "closed"
      BY <1>1, <1>2 DEF Dictate, Answered
    <2>2. Head(toClient).of = 0 /\ toClient' = <<Msg("reason", "Refused")>>
      BY <2>1, Words, MsgFields DEF ReadType, Takes
    <2>3. Proceeds("reason")
      BY <2>2, LowBytes DEF ReadType
    <2>4. at' = "reason" /\ toDesktop' = <<>>
      BY <1>1, <2>3, Words DEF Proceeds, Sends
    <2> QED
      BY <1>1, <1>2, <2>1, <2>2, <2>4 DEF Course, Reason, Answered
  <1>3. CASE verdict = "accepted"
    <2>1. /\ toClient = <<Msg("type", NONE)>> /\ there \in {"clientInit", "closed"}
      BY <1>1, <1>3 DEF Dictate, Answered
    <2>2. Head(toClient).of = NONE /\ toClient' = <<>>
      BY <2>1, Words, MsgFields DEF ReadType, Takes
    <2>3. Proceeds(Authenticate(NONE))
      BY <2>2, LowBytes DEF ReadType
    <2>4. at' = "init" /\ toDesktop' = <<Msg("clientInit", "shared")>>
      BY <1>1, <2>3, Words DEF Proceeds, Sends, Authenticate
    <2>5. Opening'
      BY <1>1, <1>3, <2>1, <2>2, <2>4, MsgFields DEF Opening, Said
    <2> QED
      BY <2>5 DEF Course
  <1>4. CASE verdict = "open"
    <2>1. PICK t \in desktop.offers \ {NONE} :
             Answered(<<Msg("type", t), Msg("challenge", desktop.key)>>, "login")
      BY <1>1, <1>4 DEF Dictate
    <2>2. Head(toClient).of = t /\ toClient' = <<Msg("challenge", desktop.key)>>
          /\ there \in {"login", "closed"}
      BY <2>1, Words, MsgFields DEF ReadType, Takes, Answered
    <2>3. t \in Bytes \cup Wide
      BY DEF HandInv, Parties, DesktopKinds
    <2>4. t # 0 /\ LowByte(t) \in {0} \cup Bytes /\ (LowByte(t) = NONE => t = 256 + NONE)
      BY <2>1, <2>3, LowBytes
    <2>5. /\ LowByte(t) \in {NONE, VNC} => Proceeds(Authenticate(LowByte(t)))
          /\ LowByte(t) \notin {NONE, VNC} => Proceeds("NoSupportedSecurity")
      BY <2>2, <2>4 DEF ReadType
    <2>6. /\ LowByte(t) = NONE => at' = "init" /\ toDesktop' = <<Msg("clientInit", "shared")>>
          /\ LowByte(t) # NONE =>
                /\ at' \in {"NoSupportedSecurity", "PasswordRequired", "challenge"}
                /\ at' = "challenge" => LowByte(t) = VNC /\ HasPassword
                /\ toDesktop' = <<>>
      BY <1>1, <2>5, Authenticates, Words DEF Proceeds, Sends
    <2>7. CASE LowByte(t) = NONE
      <3>1. Astray'
        BY <1>1, <1>4, <2>1, <2>2, <2>4, <2>6, <2>7 DEF Astray
      <3> QED
        BY <3>1 DEF Course
    <2>8. CASE at' \in {"NoSupportedSecurity", "PasswordRequired"}
      BY <1>1, <2>6, <2>8, ClientEnds DEF Errors
    <2>9. CASE at' = "challenge"
      <3>1. LowByte(t) = VNC /\ HasPassword /\ toDesktop' = <<>>
        BY <2>6, <2>9
      <3>2. VNC \in Offered'
        BY <1>1, <2>1, <3>1 DEF Offered
      <3>3. Challenged'
        BY <1>1, <1>4, <2>1, <2>2, <2>9, <3>1, <3>2
        DEF Challenged, Answered, TypeAt, HasPassword, HasUser
      <3> QED
        BY <3>3 DEF Course
    <2> QED
      BY <2>6, <2>7, <2>8, <2>9
  <1> QED
    BY <1>1, <1>2, <1>3, <1>4 DEF Dictate

LEMMA ReadLoginsCourse == HandInv /\ (ReadChallenge \/ ReadArdChallenge) => Course'
  <1> SUFFICES ASSUME HandInv, ReadChallenge \/ ReadArdChallenge PROVE Course'
    OBVIOUS
  <1>1. /\ at \in {"challenge", "ardChallenge"} /\ Takes(at) /\ UNCHANGED dialect
        /\ UNCHANGED <<config, desktop, there, verdict>>
    BY DEF ReadChallenge, ReadArdChallenge, Takes, parties
  <1>2. /\ verdict = "open" /\ dialect # 0 /\ Answered(<<Msg(at, desktop.key)>>, "login")
    <2>1. Challenged /\ toClient # <<>> /\ Head(toClient).kind = at
      BY <1>1, RowAt DEF HandInv, Takes
    <2>2. Head(Failure).kind = "result"
      BY FailureWords, Words, MsgFields
    <2> QED
      BY <1>1, <2>1, <2>2 DEF Challenged, Said, Answered
  <1>3. toDesktop = <<>> /\ toClient' = <<>> /\ there \in {"login", "closed"}
    BY <1>1, <1>2, Words DEF Answered, Takes
  <1>4. CASE \E type : LogsIn(type)
    <2>1. PICK type : LogsIn(type)
      BY <1>4
    <2> DEFINE login == [type |-> type, secret |-> config.password]
    <2>2. at' = "result" /\ logins' = Append(logins, login) /\ Sends(<<Msg("login", login)>>)
      BY <2>1 DEF LogsIn
    <2> HIDE DEF login
    <2>3. toDesktop' = <<Msg("login", login)>>
      BY <1>3, <2>2, Words DEF Sends
    <2>4. logins' = <<login>>
      <3>1. logins = <<>>
        BY <1>1 DEF HandInv, LoggedIn, Errors
      <3> QED
        BY <2>2, <3>1
    <2>5. Result'
      BY <1>1, <1>2, <1>3, <2>2, <2>3, <2>4, MsgFields DEF Result, Said
    <2> QED
      BY <2>5 DEF Course
  <1>5. CASE Proceeds("Protocol")
    <2>1. at' = "Protocol" /\ toDesktop' = <<>>
      BY <1>3, <1>5, Words DEF Proceeds, Sends
    <2> QED
      BY <1>1, <2>1, ClientEnds DEF Errors
  <1> QED
    BY <1>4, <1>5 DEF ReadChallenge, ReadArdChallenge

LEMMA ReadResultCourse == HandInv /\ ReadResult => Course'
  <1> SUFFICES ASSUME HandInv, ReadResult PROVE Course'
    OBVIOUS
  <1>1. /\ at = "result" /\ toClient # <<>> /\ toClient' = Tail(toClient) /\ Result
        /\ UNCHANGED <<config, desktop, there, verdict, dialect, logins>>
    BY RowAt DEF HandInv, ReadResult, Takes, parties
  <1>2. CASE verdict = "accepted" /\ Answered(<<Msg("result", "ok")>>, "clientInit")
    <2>1. Head(toClient).of = "ok" /\ toClient' = <<>> /\ toDesktop = <<>>
      BY <1>1, <1>2, Words, MsgFields DEF Answered
    <2>2. at' = "init" /\ toDesktop' = <<Msg("clientInit", "shared")>>
      BY <2>1, Words DEF ReadResult, Proceeds, Sends
    <2>3. Opening'
      BY <1>1, <1>2, <2>1, <2>2, MsgFields DEF Opening, Said, Answered
    <2> QED
      BY <2>3 DEF Course
  <1>3. CASE verdict = "rejected" /\ Answered(Failure, "closed")
    <2>1. /\ Head(toClient).of # "ok" /\ toDesktop = <<>> /\ there = "closed"
          /\ dialect = 8 => toClient' = <<Msg("reason", "AuthFailed")>>
      BY <1>1, <1>3, FailureWords, Words, MsgFields DEF Answered
    <2>2. /\ at' = IF dialect = 8 THEN "reason" ELSE "AuthFailed"
          /\ toDesktop' = <<>>
      BY <2>1, Words DEF ReadResult, Proceeds, Sends
    <2>3. CASE dialect = 8
      BY <1>1, <1>3, <2>1, <2>2, <2>3 DEF Course, Reason, Answered
    <2>4. CASE dialect # 8
      BY <1>1, <1>3, <2>2, <2>4 DEF Course, Over, Errors
    <2> QED
      BY <2>3, <2>4
  <1> QED
    BY <1>1, <1>2, <1>3 DEF Result, Said

LEMMA ReadLastCourse == HandInv /\ (ReadReason \/ ReadInit) => Course'
  <1> SUFFICES ASSUME HandInv, ReadReason \/ ReadInit PROVE Course'
    OBVIOUS
  <1>1. CASE ReadReason
    <2>1. /\ at = "reason" /\ Reason /\ Proceeds(Head(toClient).of)
          /\ UNCHANGED <<config, desktop, there, verdict, dialect, logins>>
      BY <1>1, RowAt DEF HandInv, ReadReason, Takes, parties
    <2>2. /\ toDesktop = <<>>
          /\ \/ verdict = "refused" /\ Head(toClient).of = "Refused"
             \/ verdict = "rejected" /\ Head(toClient).of = "AuthFailed"
      BY <2>1, Words, MsgFields DEF Reason, Answered
    <2>3. toDesktop' = <<>> /\ at' = Head(toClient).of
      BY <2>1, <2>2, Words DEF Proceeds, Sends
    <2>4. Over'
      BY <2>1, <2>2, <2>3 DEF Over, Errors
    <2> QED
      BY <2>4 DEF Course
  <1>2. CASE ReadInit
    <2>1. /\ at = "init" /\ Opening /\ at' = "connected" /\ toClient # <<>>
          /\ UNCHANGED <<there, verdict>>
      BY <1>2, RowAt, Words, MsgFields DEF HandInv, ReadInit, Takes, parties, Astray
    <2>2. Over'
      BY <2>1 DEF Opening, Over, Said, Answered
    <2> QED
      BY <2>2 DEF Course
  <1> QED
    BY <1>1, <1>2

\* Outside the test kit's Unsupported, and where the client is not astray, the
\* first message is the one that is read.
LEMMA HeadIsRead ==
    HandInv /\ at \in Reading /\ toClient # <<>> =>
        Head(toClient).kind = at \/ Astray \/ (desktop.manner = "unsupported" /\ at # "init")
  <1> SUFFICES ASSUME HandInv, at \in Reading, toClient # <<>>, ~Astray
               PROVE  Head(toClient).kind = at \/ (desktop.manner = "unsupported" /\ at # "init")
    OBVIOUS
  <1>1. CASE at \in {"banner", "types", "type", "reason"}
    <2>1. CASE at = "banner"
      BY <2>1, RowAt, Words, MsgFields DEF HandInv, Greeting, Answered
    <2>2. CASE at = "reason"
      BY <2>2, RowAt, Words, MsgFields DEF HandInv, Reason, Answered
    <2>3. CASE at = "types"
      BY <2>3, RowAt, Words, MsgFields DEF HandInv, Versions, Offer, Said, Answered
    <2>4. CASE at = "type"
      BY <2>4, RowAt, Words, MsgFields DEF HandInv, Versions, Dictate, Said, Answered
    <2> QED
      BY <1>1, <2>1, <2>2, <2>3, <2>4
  <1>2. CASE at \in {"challenge", "ardChallenge", "init"}
    BY <1>2, RowAt, Words, MsgFields DEF HandInv, Challenged, Opening, Said, Answered
  <1>3. CASE at = "result"
    BY <1>3, RowAt, Words, MsgFields, FailureWords DEF HandInv, Result, Said, Answered
  <1> QED
    BY <1>1, <1>2, <1>3 DEF Reading

\* Of a client that reads: what it last said is still to be heard, or it has been
\* answered.
LEMMA TurnIs ==
    HandInv /\ at \in Reading =>
        \/ /\ toClient = <<>> /\ verdict \in {"open", "accepted"}
           /\ \E m : toDesktop = <<m>> /\ there \in {m.kind, "closed"}
        \/ toClient # <<>> /\ toDesktop = <<>>
        \/ toClient # <<>> /\ Astray
  <1> SUFFICES ASSUME HandInv, at \in Reading, ~ (toClient # <<>> /\ Astray)
               PROVE  \/ /\ toClient = <<>> /\ verdict \in {"open", "accepted"}
                         /\ \E m : toDesktop = <<m>> /\ there \in {m.kind, "closed"}
                      \/ toClient # <<>> /\ toDesktop = <<>>
    OBVIOUS
  <1>1. CASE at \in {"banner", "types", "type", "reason"}
    <2>1. CASE at = "banner"
      BY <2>1, RowAt, Words DEF HandInv, Greeting, Answered
    <2>2. CASE at = "reason"
      BY <2>2, RowAt, Words DEF HandInv, Reason, Answered
    <2>3. CASE at \in {"types", "type"} /\ Versions
      BY <2>3 DEF Versions, Said
    <2>4. CASE at \in {"types", "type"} /\ (Offer \/ Dictate)
      BY <2>4, Words DEF Offer, Dictate, Answered
    <2> QED
      BY <1>1, <2>1, <2>2, <2>3, <2>4, RowAt DEF HandInv
  <1>2. Failure # <<>>
    BY FailureWords, Words
  <1>3. CASE at \in {"challenge", "ardChallenge"}
    <2>1. Challenged
      BY <1>3, RowAt DEF HandInv
    <2>2. CASE verdict = "open" /\ Said(Msg("choice", TypeAt))
      BY <2>2 DEF Said
    <2>3. CASE Answered(<<Msg(at, desktop.key)>>, "login")
      BY <2>3, Words DEF Answered
    <2>4. CASE Answered(Failure, "closed")
      BY <1>2, <2>4 DEF Answered
    <2> QED
      BY <2>1, <2>2, <2>3, <2>4 DEF Challenged
  <1>4. CASE at = "init"
    BY <1>4, RowAt, Words DEF HandInv, Opening, Said, Answered, Astray
  <1>5. CASE at = "result"
    BY <1>2, <1>5, RowAt, Words DEF HandInv, Result, Said, Answered
  <1> QED
    BY <1>1, <1>3, <1>4, <1>5 DEF Reading

LEMMA ClientCourse == HandInv /\ Client => Course'
  <1> SUFFICES ASSUME HandInv, Client PROVE Course'
    OBVIOUS
  <1>1. CASE Misreads
    <2>1. /\ at' = IF at = "init" THEN NothingCame ELSE "Protocol"
          /\ at \in Reading /\ toClient # <<>> /\ Head(toClient).kind # at
          /\ UNCHANGED <<config, desktop, dialect, there, verdict, toDesktop>>
      BY <1>1 DEF Misreads, parties
    <2>2. CASE at = "init"
      <3>1. Astray
        BY <2>1, <2>2, HeadIsRead
      <3>2. Astray'
        BY <2>1, <2>2, <3>1 DEF Astray, NothingCame
      <3> QED
        BY <3>2 DEF Course
    <2>3. CASE at # "init"
      <3>1. toDesktop = <<>>
        BY <2>1, <2>3, TurnIs DEF Astray, Reading
      <3> QED
        BY <2>1, <2>3, <3>1, ClientEnds DEF Errors
    <2> QED
      BY <2>2, <2>3
  <1>2. CASE GivesUp
    <2>1. /\ at' = IF there = "closed" THEN "Io" ELSE "Timeout"
          /\ UNCHANGED <<there, toDesktop, verdict>> /\ at \in Reading /\ toClient = <<>>
      BY <1>2 DEF GivesUp, NothingCame
    <2>2. /\ verdict \in {"open", "accepted"}
          /\ \E m : toDesktop = <<m>> /\ there \in {m.kind, "closed"}
      BY <2>1, TurnIs
    <2>3. Over'
      BY <2>1, <2>2 DEF Over, Errors
    <2> QED
      BY <2>3 DEF Course
  <1> QED
    BY <1>1, <1>2, ReadBannerCourse, ReadTypesCourse, ReadTypeCourse, ReadLoginsCourse,
       ReadResultCourse, ReadLastCourse DEF Client

-----------------------------------------------------------------------------
(* The desktop's steps.                                                     *)

\* Of what the desktop hears, the client knows it is waiting for the answer, or
\* has ended.
LEMMA HeardIs ==
    ASSUME HandInv, NEW kind, Hears(kind), kind \in Awaiting
    PROVE  /\ toDesktop' = <<>> /\ there = kind
           /\ UNCHANGED <<config, desktop, at, dialect, logins>>
           /\ at \in Reading => toClient = <<>> /\ toDesktop = <<Head(toDesktop)>>
           /\ at \notin Reading => at \in Errors \cup {"connected"}
           /\ at = "connected" => FALSE
  <1>1. /\ there = kind /\ toDesktop # <<>> /\ toDesktop' = Tail(toDesktop)
        /\ Head(toDesktop).kind = kind
        /\ UNCHANGED <<config, desktop, at, dialect, logins>>
    BY DEF Hears, parties
  <1>2. at # "connected" /\ ~Astray
    BY <1>1, RowAt, Words, MsgFields DEF HandInv, Over, Astray, Awaiting, Reading, Errors
  <1>3. CASE at \in Reading
    <2>1. toClient = <<>> /\ \E m : toDesktop = <<m>>
      BY <1>1, <1>2, <1>3, TurnIs
    <2> QED
      BY <1>1, <1>2, <1>3, <2>1, Words
  <1>4. CASE at \notin Reading
    <2>1. \E m : toDesktop = <<m>>
      BY <1>1, <1>2, <1>4, RowAt DEF HandInv, Over
    <2> QED
      BY <1>1, <1>2, <1>4, <2>1, Words, RowAt DEF HandInv
  <1> QED
    BY <1>3, <1>4

\* What a client that has ended does not read is nothing to it.
LEMMA HeardTooLate ==
    ASSUME HandInv, NEW kind, Hears(kind), kind \in Awaiting, at \notin Reading
    PROVE  Course'
  <1>1. /\ toDesktop' = <<>> /\ there = kind /\ at \in Errors /\ at' = at
    BY HeardIs
  <1>2. at \notin {"AuthFailed", "Refused", "Io"}
    BY <1>1, RowAt DEF HandInv, Over, Astray, Decided, Awaiting, Reading, Errors
  <1> QED
    BY <1>1, <1>2 DEF Course, Over

\* What the desktop may hear, and of whom.
LEMMA HeardOf ==
    ASSUME HandInv, NEW kind, Hears(kind), kind \in Awaiting, at \in Reading
    PROVE  /\ kind = "version" => /\ Versions /\ Head(toDesktop) = Msg("version", dialect)
           /\ kind = "choice" =>
                /\ Later /\ verdict = "open"
                /\ \/ Challenged /\ Head(toDesktop) = Msg("choice", TypeAt)
                   \/ /\ at = "result" /\ NONE \in desktop.offers
                      /\ Head(toDesktop) = Msg("choice", NONE)
           /\ kind = "login" => at = "result" /\ verdict = "open"
           /\ kind = "clientInit" => at = "init" /\ verdict = "accepted"
  <1>1. /\ there = kind /\ toClient = <<>> /\ Head(toDesktop).kind = kind /\ toDesktop # <<>>
        /\ Course
    BY HeardIs DEF Hears, HandInv
  <1>2. /\ at \notin {"banner", "reason"} /\ ~ Offer /\ ~ Dictate
    BY <1>1, RowAt, Words DEF Greeting, Reason, Offer, Dictate, Answered
  <1>3. CASE at \in {"types", "type"}
    BY <1>1, <1>2, <1>3, RowAt, Words, MsgFields DEF Versions, Said
  <1>4. CASE at \in {"challenge", "ardChallenge"}
    <2>1. Failure # <<>>
      BY FailureWords, Words
    <2>2. Challenged
      BY <1>1, <1>4, RowAt
    <2>3. verdict = "open" /\ Later /\ toDesktop = <<Msg("choice", TypeAt)>>
      BY <1>1, <2>1, <2>2, Words DEF Challenged, Said, Answered
    <2> QED
      BY <1>1, <1>4, <2>2, <2>3, Words, MsgFields
  <1>5. CASE at = "result"
    <2>1. Failure # <<>>
      BY FailureWords, Words
    <2>2. Result
      BY <1>1, <1>5, RowAt
    <2>3. /\ verdict = "open"
          /\ \/ Later /\ NONE \in desktop.offers /\ toDesktop = <<Msg("choice", NONE)>>
             \/ \E l : toDesktop = <<Msg("login", l)>>
      BY <1>1, <2>1, <2>2, Words DEF Result, Said, Answered
    <2> QED
      BY <1>1, <1>5, <2>3, Words, MsgFields
  <1>6. CASE at = "init"
    BY <1>1, <1>6, RowAt, Words, MsgFields DEF Opening, Said, Answered, Astray
  <1> QED
    BY <1>2, <1>3, <1>4, <1>5, <1>6 DEF Reading

LEMMA HearVersionCourse == HandInv /\ HearVersion => Course'
  <1> SUFFICES ASSUME HandInv, HearVersion PROVE Course'
    OBVIOUS
  <1>1. Hears("version") /\ "version" \in Awaiting
    BY DEF HearVersion, Awaiting
  <1>2. CASE at \notin Reading
    BY <1>1, <1>2, HeardTooLate
  <1>3. CASE at \in Reading
    <2>1. /\ Versions /\ Head(toDesktop).of = dialect /\ toClient = <<>> /\ toDesktop' = <<>>
          /\ UNCHANGED <<config, desktop, at, dialect, logins>>
      BY <1>1, <1>3, HeardIs, HeardOf, MsgFields
    <2>2. \/ at = "types" /\ Later /\ dialect >= 7 /\ dialect # 3
          \/ at = "type" /\ dialect = 3 /\ ~ (dialect >= 7)
      BY <2>1 DEF Versions, Later
    <2>3. CASE Refuse(Msg("types", {})) /\ at = "types"
      <3>1. toClient' = <<Msg("types", {}), Msg("reason", "Refused")>>
        BY <2>1, <2>3, Words DEF Refuse, Says
      <3>2. Offer'
        BY <2>1, <2>2, <2>3, <3>1 DEF Offer, Later, Refuse, Answered
      <3> QED
        BY <3>2 DEF Course
    <2>4. CASE /\ desktop.offers # {} /\ there' = "choice" /\ UNCHANGED verdict
               /\ Says(<<Msg("types", desktop.offers)>>) /\ at = "types"
      <3>1. toClient' = <<Msg("types", desktop.offers)>>
        BY <2>1, <2>4, Words DEF Says
      <3>2. Offer'
        BY <2>1, <2>2, <2>4, <3>1 DEF Offer, Later, Answered, Versions
      <3> QED
        BY <3>2 DEF Course
    <2>5. CASE Refuse(Msg("type", 0)) /\ at = "type"
      <3>1. toClient' = <<Msg("type", 0), Msg("reason", "Refused")>>
        BY <2>1, <2>5, Words DEF Refuse, Says
      <3>2. Dictate'
        BY <2>1, <2>2, <2>5, <3>1 DEF Dictate, Refuse, Answered
      <3> QED
        BY <3>2 DEF Course
    <2>6. CASE NONE \in desktop.offers /\ Accept(<<Msg("type", NONE)>>) /\ at = "type"
      <3>1. toClient' = <<Msg("type", NONE)>>
        BY <2>1, <2>6, Words DEF Accept, Says
      <3>2. Dictate'
        BY <2>1, <2>2, <2>6, <3>1 DEF Dictate, Accept, Answered
      <3> QED
        BY <3>2 DEF Course
    <2>7. ASSUME NEW type \in desktop.offers, type # NONE, at = "type",
                 Challenge("challenge", <<Msg("type", type)>>)
          PROVE  Course'
      <3>1. toClient' = <<Msg("type", type), Msg("challenge", desktop.key)>>
        BY <2>1, <2>7, Words DEF Challenge, Says
      <3>2. Answered(<<Msg("type", type), Msg("challenge", desktop.key)>>, "login")'
        BY <2>1, <2>7, <3>1 DEF Answered, Challenge
      <3>3. Dictate'
        BY <2>1, <2>2, <2>7, <3>2 DEF Dictate, Challenge, Versions
      <3> QED
        BY <3>3 DEF Course
    <2> QED
      BY <2>1, <2>2, <2>3, <2>4, <2>5, <2>6, <2>7 DEF HearVersion
  <1> QED
    BY <1>2, <1>3

\* A login is turned down with a result, in 3.8 with its reason.
LEMMA FailIs == toClient = <<>> /\ Fail => /\ toClient' = Failure
                                           /\ there' = "closed" /\ verdict' = "rejected"
  BY FailureWords, Words DEF Fail, Says, Failure

LEMMA HearChoiceCourse == HandInv /\ HearChoice => Course'
  <1> SUFFICES ASSUME HandInv, HearChoice PROVE Course'
    OBVIOUS
  <1>1. Hears("choice") /\ "choice" \in Awaiting
    BY DEF HearChoice, Awaiting
  <1>2. CASE at \notin Reading
    BY <1>1, <1>2, HeardTooLate
  <1>3. CASE at \in Reading
    <2>1. /\ Later /\ verdict = "open" /\ toClient = <<>> /\ toDesktop' = <<>> /\ dialect # 0
          /\ UNCHANGED <<config, desktop, at, dialect, logins>>
      BY <1>1, <1>3, HeardIs, HeardOf DEF Later
    <2>2. Later' /\ Failure' = Failure /\ TypeAt' = TypeAt /\ Offered' = Offered
      BY <2>1 DEF Later, Failure, TypeAt, Offered
    <2>3. CASE Challenged /\ Head(toDesktop) = Msg("choice", TypeAt)
      <3>1. Head(toDesktop).of = TypeAt /\ TypeAt \in desktop.offers
        BY <2>1, <2>3, MsgFields DEF Challenged, Offered, Later
      <3>2. CASE desktop.manner = "unsupported" /\ Fail
        <4>1. Challenged'
          BY <2>1, <2>2, <2>3, <3>2, FailIs
          DEF Challenged, Answered, HasUser, HasPassword
        <4> QED
          BY <4>1 DEF Course
      <3>3. CASE Challenge(at, <<>>)
        <4>1. toClient' = <<Msg(at, desktop.key)>> /\ there' = "login" /\ verdict' = verdict
          BY <2>1, <3>3, Words DEF Challenge, Says
        <4>2. Challenged'
          BY <2>1, <2>2, <2>3, <4>1 DEF Challenged, Answered, HasUser, HasPassword
        <4> QED
          BY <4>2 DEF Course
      <3>4. \/ desktop.manner = "unsupported" /\ Fail
            \/ TypeAt = VNC /\ Challenge("challenge", <<>>)
            \/ TypeAt = ARD /\ Challenge("ardChallenge", <<>>)
        BY <3>1 DEF HearChoice, TypeAt
      <3>5. (TypeAt = VNC => at = "challenge") /\ (TypeAt = ARD => at = "ardChallenge")
        BY <2>3 DEF TypeAt, Challenged
      <3> QED
        BY <3>2, <3>3, <3>4, <3>5
    <2>4. CASE /\ at = "result" /\ NONE \in desktop.offers
               /\ Head(toDesktop) = Msg("choice", NONE)
      <3>1. Head(toDesktop).of = NONE
        BY <2>4, MsgFields
      <3>2. Fail \/ Accept(<<Msg("result", "ok")>>)
        BY <3>1 DEF HearChoice
      <3>3. CASE Fail
        BY <2>1, <2>2, <2>4, <3>3, FailIs DEF Course, Result, Answered
      <3>4. CASE Accept(<<Msg("result", "ok")>>)
        <4>1. toClient' = <<Msg("result", "ok")>>
          BY <2>1, <3>4, Words DEF Accept, Says
        <4> QED
          BY <2>1, <2>4, <3>4, <4>1 DEF Accept, Course, Result, Answered
      <3> QED
        BY <3>2, <3>3, <3>4
    <2> QED
      BY <1>1, <1>3, <2>3, <2>4, HeardOf
  <1> QED
    BY <1>2, <1>3

LEMMA HearLoginCourse == HandInv /\ HearLogin => Course'
  <1> SUFFICES ASSUME HandInv, HearLogin PROVE Course'
    OBVIOUS
  <1>1. Hears("login") /\ "login" \in Awaiting
    BY DEF HearLogin, Awaiting
  <1>2. CASE at \notin Reading
    BY <1>1, <1>2, HeardTooLate
  <1>3. CASE at \in Reading
    <2>1. /\ at = "result" /\ verdict = "open" /\ toClient = <<>> /\ toDesktop' = <<>>
          /\ UNCHANGED <<config, desktop, at, dialect, logins>>
      BY <1>1, <1>3, HeardIs, HeardOf
    <2>2. CASE Fail
      <3>1. Failure' = Failure
        BY <2>1 DEF Failure
      <3> QED
        BY <2>1, <2>2, <3>1, FailIs DEF Course, Result, Answered
    <2>3. CASE Accept(<<Msg("result", "ok")>>)
      <3>1. toClient' = <<Msg("result", "ok")>>
        BY <2>1, <2>3, Words DEF Accept, Says
      <3> QED
        BY <2>1, <2>3, <3>1 DEF Accept, Course, Result, Answered
    <2> QED
      BY <2>2, <2>3 DEF HearLogin
  <1> QED
    BY <1>2, <1>3

LEMMA HearClientInitCourse == HandInv /\ HearClientInit => Course'
  <1> SUFFICES ASSUME HandInv, HearClientInit PROVE Course'
    OBVIOUS
  <1>1. /\ Hears("clientInit") /\ "clientInit" \in Awaiting
        /\ there' = "serving" /\ Says(<<Msg("init", "size")>>) /\ UNCHANGED verdict
    BY DEF HearClientInit, Awaiting
  <1>2. CASE at \notin Reading
    BY <1>1, <1>2, HeardTooLate
  <1>3. CASE at \in Reading
    <2>1. /\ at = "init" /\ verdict = "accepted" /\ toClient = <<>> /\ toDesktop' = <<>>
          /\ UNCHANGED <<config, desktop, at, dialect, logins>>
      BY <1>1, <1>3, HeardIs, HeardOf
    <2>2. toClient' = <<Msg("init", "size")>>
      BY <1>1, <2>1, Words DEF Says
    <2>3. Opening'
      BY <1>1, <2>1, <2>2 DEF Opening, Answered
    <2> QED
      BY <2>3 DEF Course
  <1> QED
    BY <1>2, <1>3

\* Hanging up unsays nothing.
LEMMA HangUpCourse == HandInv /\ HangUp => Course'
  <1> SUFFICES ASSUME HandInv, HangUp PROVE Course'
    OBVIOUS
  <1>1. /\ there' = "closed"
        /\ UNCHANGED <<config, desktop, at, dialect, verdict, toClient, toDesktop, logins>>
    BY DEF HangUp, parties
  <1> QED
    BY <1>1 DEF HandInv, Course, Greeting, Versions, Offer, Dictate, Reason, Challenged, Result,
       Opening, Over, Astray, Said, Answered, Later, Failure, TypeAt, HasUser, HasPassword, Offered

LEMMA DesktopCourse == HandInv /\ Desktop => Course'
  BY HearVersionCourse, HearChoiceCourse, HearLoginCourse, HearClientInitCourse, HangUpCourse
  DEF Desktop

\* A desktop that turns the client down hangs up with it, and one that has hung
\* up decides no more.
LEMMA DesktopDecides == HandInv /\ Desktop => Decided'
  <1> SUFFICES ASSUME HandInv, Desktop PROVE Decided'
    OBVIOUS
  <1>1. CASE HangUp
    BY <1>1 DEF HangUp, Decided
  <1>2. CASE HearClientInit
    BY <1>2 DEF HearClientInit, Hears, HandInv, Decided
  <1>3. CASE HearVersion \/ HearChoice \/ HearLogin
    <2>1. there # "closed"
      BY <1>3 DEF HearVersion, HearChoice, HearLogin, Hears
    <2>2. verdict \notin {"rejected", "refused"}
      BY <2>1 DEF HandInv, Decided
    <2> QED
      BY <1>3, <2>2 DEF HearVersion, HearChoice, HearLogin, Refuse, Fail, Accept, Challenge, Decided
  <1> QED
    BY <1>1, <1>2, <1>3 DEF Desktop

\* What the client has read of a login it has still to send.
LEMMA LoginNext == HandInv /\ Client => LoggedIn'
  <1> SUFFICES ASSUME HandInv, Client PROVE LoggedIn'
    OBVIOUS
  <1>1. UNCHANGED <<config, desktop>> /\ (HasUser' = HasUser)
    BY ClientKeeps DEF HasUser
  <1> DEFINE Before == {"banner", "types", "type", "challenge", "ardChallenge"}
             After == {"result", "reason", "init"}
             Ends == Errors \ {"PasswordRequired", "UsernameRequired"}
  <1>2. CASE ReadChallenge \/ (ReadArdChallenge /\ ~ UNCHANGED logins)
    <2>1. /\ at \in {"challenge", "ardChallenge"} /\ logins = <<>>
          /\ LogsIn(TypeAt)
      BY <1>2 DEF ReadChallenge, ReadArdChallenge, Takes, HandInv, LoggedIn, Errors, TypeAt
    <2>2. Challenged
      BY <2>1, RowAt DEF HandInv
    <2> DEFINE login == [type |-> TypeAt, secret |-> config.password]
    <2>3. at' = "result" /\ logins' = Append(logins, login)
      BY <2>1 DEF LogsIn
    <2>4. login.type \in Offered /\ login.secret # "none" /\ (login.type = ARD => HasUser)
      BY <2>2 DEF Challenged, HasPassword
    <2> HIDE DEF login
    <2>5. logins' = <<login>>
      BY <2>1, <2>3
    <2>6. Offered' = Offered
      BY <1>1, <1>2 DEF ReadChallenge, ReadArdChallenge, Offered
    <2> QED
      BY <1>1, <2>3, <2>4, <2>5, <2>6 DEF LoggedIn
  <1>3. CASE UNCHANGED logins
    <2>1. \/ logins' = <<>>
          \/ \E l \in {logins'[1]} :
               /\ logins' = <<l>> /\ l.secret # "none" /\ l.type \in Offered'
               /\ l.type = ARD => HasUser'
      <3>1. CASE at = "banner"
        BY <1>3, <3>1 DEF HandInv, LoggedIn, Errors
      <3>2. CASE at # "banner"
        <4>1. dialect' = dialect
          BY <3>2 DEF Client, ReadBanner, ReadTypes, ReadType, ReadReason, ReadChallenge,
             ReadArdChallenge, ReadResult, ReadInit, Misreads, GivesUp, Takes
        <4>2. Offered' = Offered
          BY <1>1, <4>1 DEF Offered
        <4> QED
          BY <1>1, <1>3, <4>2 DEF HandInv, LoggedIn
      <3> QED
        BY <3>1, <3>2
    <2>2. CASE at \in Before
      BY <1>3, <2>1, <2>2 DEF HandInv, LoggedIn, Errors
    <2>3. CASE at \in After
      <3>1. at' \in {"reason", "init", "connected"} \cup Ends
        <4>1. CASE ReadReason
          <5>1. Reason /\ Proceeds(Head(toClient).of)
            BY <4>1, RowAt DEF HandInv, ReadReason, Takes
          <5> QED
            BY <5>1, Words, MsgFields DEF Reason, Answered, Proceeds, Errors
        <4> QED
          BY <2>3, <4>1 DEF Client, ReadBanner, ReadTypes, ReadType, ReadChallenge,
             ReadArdChallenge, ReadResult, ReadInit, Misreads, GivesUp, NothingCame, Takes, Proceeds,
             Errors
      <3> QED
        BY <2>1, <3>1 DEF LoggedIn, Errors
    <2> QED
      BY <2>2, <2>3, ClientKeeps DEF Reading
  <1> QED
    BY <1>2, <1>3 DEF Client, ReadBanner, ReadTypes, ReadType, ReadReason, ReadArdChallenge,
       ReadResult, ReadInit, Misreads, GivesUp, parties

LEMMA DesktopKeepsLogins == HandInv /\ Desktop => LoggedIn' /\ Parties'
  <1> SUFFICES ASSUME HandInv, Desktop PROVE LoggedIn' /\ Parties'
    OBVIOUS
  <1>1. UNCHANGED <<config, desktop, at, dialect, logins>>
    BY DEF Desktop, HearVersion, HearChoice, HearLogin, HearClientInit, Hears, HangUp, parties
  <1> QED
    BY <1>1 DEF HandInv, LoggedIn, Parties, HasUser, Offered

LEMMA HandNext == HandInv /\ [Next]_vars => HandInv'
  <1> SUFFICES ASSUME HandInv, [Next]_vars PROVE HandInv'
    OBVIOUS
  <1>1. CASE Client
    BY <1>1, ClientCourse, ClientKeeps, LoginNext DEF HandInv, Parties
  <1>2. CASE Desktop
    BY <1>2, DesktopCourse, DesktopDecides, DesktopKeepsLogins DEF HandInv
  <1>3. CASE UNCHANGED vars
    BY <1>3 DEF vars, parties, HandInv, Parties, Course, Decided, LoggedIn, Greeting, Versions,
       Offer, Dictate, Reason, Challenged, Result, Opening, Over, Astray, Said, Answered, Later,
       Failure, TypeAt, HasUser, HasPassword, Offered
  <1> QED
    BY <1>1, <1>2, <1>3 DEF Next

\* Every state of a connection is a row of the exchange (Course), with a verdict
\* that ends the desktop's part and at most one login.
THEOREM HandHolds == Spec => []HandInv
  BY HandInit, HandNext, PTL DEF Spec

\* Type correctness of both sides and of what is between them.
THEOREM HandshakeTypesHold == Spec => []TypeOK
  <1>1. Init => TypeOK
    BY DEF Init, TypeOK, Reading, Awaiting
  <1>2. HandInv /\ HandInv' /\ TypeOK /\ [Next]_vars => TypeOK'
    <2> SUFFICES ASSUME HandInv, HandInv', TypeOK, [Next]_vars PROVE TypeOK'
      OBVIOUS
    <2>1. config' \in Configs /\ desktop' \in Desktops
      BY DEF HandInv, Parties
    <2>2. at' \in Reading \cup Errors \cup {"connected"}
      <3>1. Course' => at' \in Reading \cup Errors \cup {"connected"}
        BY DEF Course, Greeting, Versions, Offer, Dictate, Reason, Challenged, Result, Opening,
           Over, Astray, Reading, Errors
      <3> QED
        BY <3>1 DEF HandInv
    <2>3. CASE Client
      <3>1. UNCHANGED <<there, verdict>>
        BY <2>3, ClientKeeps
      <3>2. dialect' \in {0, 3, 7, 8}
        BY <2>3 DEF TypeOK, Client, ReadBanner, ReadTypes, ReadType, ReadReason, ReadChallenge,
           ReadArdChallenge, ReadResult, ReadInit, Misreads, GivesUp, Lower
      <3> QED
        BY <2>1, <2>2, <3>1, <3>2 DEF TypeOK
    <2>4. CASE Desktop
      BY <2>1, <2>2, <2>4 DEF TypeOK, Desktop, HearVersion, HearChoice, HearLogin,
         HearClientInit, HangUp, Hears, Refuse, Fail, Accept, Challenge, Awaiting
    <2>5. CASE UNCHANGED vars
      BY <2>1, <2>2, <2>5 DEF vars, TypeOK
    <2> QED
      BY <2>3, <2>4, <2>5 DEF Next
  <1> QED
    BY <1>1, <1>2, HandHolds, PTL DEF Spec

\* Handshake's InStep, of every desktop and configuration: whatever the dialect
\* and the type, neither side reads a message for another, and the two never both
\* wait, but for a 3.3 desktop that names 257 and the test kit's Unsupported.
THEOREM SidesInStep == Spec => []InStep
  <1>1. HandInv => InStep
    <2> SUFFICES ASSUME HandInv, desktop.manner # "unsupported", ~Astray
                 PROVE  /\ at \in Reading /\ toClient # <<>> => Head(toClient).kind = at
                        /\ there \in Awaiting /\ toDesktop # <<>> => Head(toDesktop).kind = there
                        /\ ~ (at \in Reading /\ toClient = <<>> /\ there \in Awaiting
                              /\ toDesktop = <<>>)
      BY DEF InStep, Astray
    <2>1. CASE at \in Reading
      BY <2>1, HeadIsRead, TurnIs, Words DEF Awaiting
    <2>2. CASE at \notin Reading
      BY <2>2, RowAt, Words DEF HandInv, Over, Awaiting
    <2> QED
      BY <2>1, <2>2
  <1> QED
    BY <1>1, HandHolds, PTL

\* Handshake's NeverGuesses: one login at most, of a type the desktop offered or, in
\* 3.3, of the low byte of one it named, and none without the credentials it takes.
THEOREM NoLoginIsGuessed == Spec => []NeverGuesses
  <1>1. HandInv => NeverGuesses
    <2> SUFFICES ASSUME HandInv PROVE NeverGuesses
      OBVIOUS
    <2>1. at \in {"PasswordRequired", "UsernameRequired"} => logins = <<>>
      BY DEF HandInv, LoggedIn, Errors
    <2>2. CASE logins = <<>>
      BY <2>2 DEF NeverGuesses
    <2>3. CASE logins # <<>>
      <3>1. PICK l : /\ logins = <<l>> /\ l.secret # "none" /\ l.type \in Offered
                     /\ l.type = ARD => HasUser
        BY <2>3 DEF HandInv, LoggedIn
      <3>2. Len(logins) = 1 /\ DOMAIN logins = {1} /\ logins[1] = l
        BY <3>1
      <3> QED
        BY <2>1, <3>1, <3>2 DEF NeverGuesses
    <2> QED
      BY <2>2, <2>3
  <1> QED
    BY <1>1, HandHolds, PTL

\* Handshake's TruthfulEnd: what connect returns is what the desktop decided.
THEOREM EndsAreTruthful == Spec => []TruthfulEnd
  <1>1. HandInv => TruthfulEnd
    BY RowAt DEF HandInv, Over, Astray, TruthfulEnd, Reading, Errors
  <1> QED
    BY <1>1, HandHolds, PTL
=============================================================================
