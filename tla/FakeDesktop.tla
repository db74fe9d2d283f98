---------------------------- MODULE FakeDesktop -----------------------------
(***************************************************************************)
(* The test kit's desktop (bolide-testkit: server.rs) with a screen a test *)
(* scripts, and the framebuffer a client draws from what it sends          *)
(* (bolide-rfb: client.rs).  The desktop is one task, which selects        *)
(* between the client's messages and the test's directives, and a reader   *)
(* task of each connection, which writes down what the client sends before *)
(* it passes it on; a test waits for what is written down (wait_for).      *)
(*                                                                         *)
(* The exchange that opens a connection is in Handshake, and the client's  *)
(* requests and refreshes are in RfbSession; here a client asks again      *)
(* after every update.  Pixels are numbers, 0 is black, and of a ZRLE rect *)
(* only its place in the connection's one zlib stream is kept (Zrle has    *)
(* the rest).  The pixel format is always RGBX_32.                         *)
(***************************************************************************)
EXTENDS Integers, Sequences

CONSTANTS
    Sizes,        \* the sizes a screen may have: <<width, height>>
    MaxPushes,    \* bound: directives of the test, but for the shutdown
    MaxClients,   \* bound: connections, one after the other
    Cap,          \* messages to the client the socket holds
    Wrap,         \* ZRLE rects are counted modulo this
    BusCap        \* announcements a waiter's receiver holds

ASSUME FakeDesktopAssumption ==
    /\ Sizes \subseteq (Nat \X Nat)
    /\ MaxPushes \in Nat /\ MaxClients \in Nat /\ Cap \in Nat \ {0} /\ BusCap \in Nat \ {0}
    /\ Wrap \in Nat /\ Wrap > Cap + 1

VARIABLES
    phase,       \* the server task: "accept", "setup", "serve", "stopped"
    screen,      \* what the desktop shows
    init,        \* ServerInit, composed when the client was accepted
    advertised,  \* SetEncodings has been heard
    written,     \* ZRLE rects the connection's writer has produced
    out,         \* what is being written: the task waits until there is room
    asked,       \* the Shutdown directive is in the queue
    pushes,      \* the other directives so far
    moved,       \* history: the screen changed its size while ServerInit was out
    toClient, toDesktop,   \* the socket
    hand,        \* the message the reader task has written down, and whose it is
    passed,      \* the messages it has passed on
    log,         \* the input the test waits for is written down
    bus, lagged, \* the waiter's receiver: whether each announcement is of that
                 \* input, and whether one was lost
    waiter,      \* the test: "absent", "idle", "subscribed", "listening", "found"
    clients,     \* connections so far
    client,      \* where the client is, or how it ended
    fb,          \* its framebuffer
    inflated,    \* ZRLE rects its decoder has inflated
    whole        \* history: it has had the whole screen since it was black

serverVars == <<phase, screen, init, advertised, written, out, asked, pushes, moved>>
socketVars == <<toClient, toDesktop>>
readerVars == <<hand, passed, log, bus, lagged>>
clientVars == <<clients, client, fb, inflated, whole>>
vars == <<serverVars, socketVars, readerVars, waiter, clientVars>>

-----------------------------------------------------------------------------
(* Screens: rows of pixels, one after the other *)

Cells(w, h) == 0..(w * h - 1)
Picture(w, h, px) == [w |-> w, h |-> h, px |-> px]
Black(w, h) == Picture(w, h, [c \in Cells(w, h) |-> 0])

\* What a test shows: no two pixels alike, so that none can be misplaced.
Script(w, h) == { Picture(w, h, [c \in Cells(w, h) |-> c + 1]),
                  Picture(w, h, [c \in Cells(w, h) |-> w * h - c]) }

\* A rect, and the place it is copied from.
Moves(w, h) == [x : 0..w-1, y : 0..h-1, w : 1..w, h : 1..h, sx : 0..w-1, sy : 0..h-1]
Inside(x, y, r, p) == x + r.w <= p.w /\ y + r.h <= p.h
Copies(p) == { r \in Moves(p.w, p.h) :
                 Inside(r.x, r.y, r, p) /\ Inside(r.sx, r.sy, r, p) /\ <<r.x, r.y>> # <<r.sx, r.sy>> }

X(p, c) == c % p.w
Y(p, c) == c \div p.w
In(p, r, c) == X(p, c) \in r.x..(r.x + r.w - 1) /\ Y(p, c) \in r.y..(r.y + r.h - 1)
From(p, r, c) == (Y(p, c) - r.y + r.sy) * p.w + (X(p, c) - r.x + r.sx)

\* server.rs, blit: a snapshot of the source, then the pixels one by one.
Blit(p, r) ==
    LET taken == [c \in {d \in DOMAIN p.px : In(p, r, d)} |-> p.px[From(p, r, c)]] IN
    [p EXCEPT !.px = [c \in DOMAIN p.px |-> IF c \in DOMAIN taken THEN taken[c] ELSE p.px[c]]]

\* Mutant: the rows are copied from the first to the last as they are read, and
\* a copy downwards reads the rows it has just written.
CopyRectInPlace(p, r) ==
    LET done[c \in DOMAIN p.px] ==
            IF ~In(p, r, c) THEN p.px[c]
            ELSE LET s == From(p, r, c) IN IF s < c THEN done[s] ELSE p.px[s]
    IN  [p EXCEPT !.px = done]

\* client.rs, copy_rect: the source is copied out whole before a row is written.
CopyRect(p, r) ==
    [p EXCEPT !.px = [c \in DOMAIN p.px |-> IF In(p, r, c) THEN p.px[From(p, r, c)] ELSE p.px[c]]]

\* client.rs, blit_raw and blit_rgba, of a picture at the origin.
Draw(p, q) ==
    [p EXCEPT !.px = [c \in DOMAIN p.px |->
        IF X(p, c) < q.w /\ Y(p, c) < q.h THEN q.px[Y(p, c) * q.w + X(p, c)] ELSE p.px[c]]]

-----------------------------------------------------------------------------
(* The messages of the desktop *)

Message(kind, of, place) == [kind |-> kind, of |-> of, place |-> place]

\* choose_encoding, negotiated: the client's first choice that can paint a
\* fresh screen, and Raw as long as it has not said.
Encoding == IF advertised THEN "zrle" ELSE "raw"

\* framebuffer_update: the whole screen as one rect.
FramebufferUpdate(p) == Message(Encoding, p, written)

\* The writer's place after n more screens, which it has if they are in ZRLE.
After(n) == IF Encoding = "zrle" THEN (written + n) % Wrap ELSE written

\* A test either waits for an input or scripts the screen, to bound the two.
Init ==
    /\ phase = "accept" /\ screen \in {Black(z[1], z[2]) : z \in Sizes}
    /\ init = Black(0, 0) /\ advertised = FALSE /\ written = 0 /\ out = <<>>
    /\ asked = FALSE /\ moved = FALSE
    /\ toClient = <<>> /\ toDesktop = <<>>
    /\ hand = <<>> /\ passed = <<>> /\ log = FALSE
    /\ bus = <<>> /\ lagged = FALSE
    /\ \/ waiter = "idle" /\ pushes = MaxPushes
       \/ waiter = "absent" /\ pushes = 0
    /\ clients = 0 /\ client = "none" /\ fb = Black(0, 0) /\ inflated = 0 /\ whole = FALSE

-----------------------------------------------------------------------------
(* The server task: run and serve *)

\* A connection; ServerInit is composed here.
Accept ==
    /\ phase = "accept" /\ client = "dialing"
    /\ phase' = "setup" /\ client' = "setup"
    /\ init' = Black(screen.w, screen.h) /\ moved' = FALSE
    /\ UNCHANGED <<screen, advertised, written, out, asked, pushes, socketVars, readerVars,
                   waiter, clients, fb, inflated, whole>>

\* The client's ClientInit is answered; the session's writer of ZRLE is new.
Setup ==
    /\ phase = "setup" /\ toDesktop # <<>>
    /\ toDesktop' = Tail(toDesktop) /\ toClient' = <<Message("init", init, 0)>>
    /\ phase' = "serve" /\ advertised' = FALSE /\ written' = 0
    /\ UNCHANGED <<screen, init, out, asked, pushes, moved, readerVars, waiter, clientVars>>

\* The message in the reader task's hand.
InHand == {hand[i] : i \in DOMAIN hand \cap {1}}

\* The connection is over: the socket is shut and the reader aborted, which
\* does not part what it writes down from its announcement.
Disconnect(next) ==
    /\ phase' = next /\ out' = <<>> /\ passed' = <<>>
    /\ toDesktop' = <<>>
    /\ UNCHANGED <<screen, init, advertised, written, asked, moved, toClient, hand, log, bus,
                   lagged, waiter, clientVars>>

Serving == phase = "serve" /\ out = <<>>

\* A message of the client.
Hear ==
    /\ Serving /\ passed # <<>>
    /\ passed' = Tail(passed)
    /\ advertised' = (advertised \/ Head(passed) = "encodings")
    /\ IF Head(passed) = "request"
       THEN out' = <<FramebufferUpdate(screen)>> /\ written' = After(1)
       ELSE UNCHANGED <<out, written>>
    /\ UNCHANGED <<phase, screen, init, asked, pushes, moved, socketVars, hand, log, bus,
                   lagged, waiter, clientVars>>

\* apply_offline: without a client, or with one that is not set up, the screen
\* changes and nobody is told.
Offline(shown) ==
    /\ phase \in {"accept", "setup"}
    /\ moved' = (moved \/ (phase = "setup" /\ <<shown.w, shown.h>> # <<init.w, init.h>>))
    /\ UNCHANGED <<out, written>>

\* A directive that changes the screen: what is shown, the message it owes the
\* client and the ZRLE rects in that.
Directive(shown, owed, rects) ==
    /\ pushes < MaxPushes /\ pushes' = pushes + 1
    /\ screen' = shown
    /\ \/ Serving /\ out' = <<owed>> /\ written' = After(rects) /\ UNCHANGED moved
       \/ Offline(shown)
    /\ UNCHANGED <<phase, init, advertised, asked, socketVars, readerVars, waiter, clientVars>>

\* The screens a test sets are of the desktop's size.
SetScreen ==
    \E p \in Script(screen.w, screen.h) : Directive(p, FramebufferUpdate(p), 1)

Resize ==
    \E z \in Sizes : Directive(Black(z[1], z[2]), Message("size", Black(z[1], z[2]), 0), 0)

CopyWithin ==
    \E r \in Copies(screen) : Directive(Blit(screen, r), Message("copy", r, 0), 0)

\* A bell or the clipboard: nothing that is drawn.
Notify == Directive(screen, Message("note", <<>>, 0), 0)

\* write_all: when the socket has room, or the client has gone.
Write ==
    /\ out # <<>> /\ Len(toClient) < Cap
    /\ toClient' = toClient \o out /\ out' = <<>>
    /\ UNCHANGED <<phase, screen, init, advertised, written, asked, pushes, moved, toDesktop,
                   readerVars, waiter, clientVars>>

Gone == client \in {"closed", "protocol"}

WriteFails ==
    /\ out # <<>> /\ Gone
    /\ Disconnect("accept") /\ UNCHANGED pushes

\* The client has gone, and what it had sent has been heard.
HearEnd ==
    /\ Gone /\ toDesktop = <<>>
    /\ phase = "setup" \/ (Serving /\ hand = <<>> /\ passed = <<>>)
    /\ Disconnect("accept") /\ UNCHANGED pushes

DropConnection ==
    /\ phase = "setup" \/ Serving
    /\ pushes < MaxPushes /\ pushes' = pushes + 1
    /\ Disconnect("accept")

\* Mutant: the opening exchange does not look at the directives.
HearShutdownServing ==
    /\ asked
    /\ phase = "accept" \/ Serving
    /\ Disconnect("stopped") /\ UNCHANGED pushes

\* Shutdown ends a session, the opening of one and the wait for one.
HearShutdown ==
    /\ asked
    /\ phase \in {"accept", "setup"} \/ Serving
    /\ Disconnect("stopped") /\ UNCHANGED pushes

Server ==
    \/ Accept \/ Setup \/ Hear \/ SetScreen \/ Resize \/ CopyWithin \/ Notify
    \/ Write \/ WriteFails \/ HearEnd \/ DropConnection \/ HearShutdown

-----------------------------------------------------------------------------
(* The reader task: read_loop *)

\* A message is read and, in Shared::record, written down ...
ReadMessage ==
    /\ phase = "serve" /\ hand = <<>> /\ toDesktop # <<>>
    /\ hand' = <<Head(toDesktop), clients>> /\ toDesktop' = Tail(toDesktop)
    /\ log' = (log \/ Head(toDesktop) = "input")
    /\ UNCHANGED <<serverVars, toClient, passed, bus, lagged, waiter, clientVars>>

\* ... and announced, which overtakes a receiver that is full, and then passed
\* on to a server task that still serves this client.
Announce ==
    /\ hand # <<>>
    /\ hand' = <<>>
    /\ passed' = IF phase = "serve" /\ hand[2] = clients THEN Append(passed, hand[1]) ELSE passed
    /\ IF waiter \in {"subscribed", "listening"}
       THEN LET more == Append(bus, hand[1] = "input") IN
            /\ bus' = IF Len(more) > BusCap THEN Tail(more) ELSE more
            /\ lagged' = (lagged \/ Len(more) > BusCap)
       ELSE UNCHANGED <<bus, lagged>>
    /\ UNCHANGED <<serverVars, socketVars, log, waiter, clientVars>>

-----------------------------------------------------------------------------
(* The test: FakeServer::wait_for and shutdown *)

\* It subscribes before it looks at the log.
Subscribe ==
    /\ waiter = "idle" /\ waiter' = "subscribed"
    /\ UNCHANGED <<serverVars, socketVars, readerVars, clientVars>>

Scan ==
    /\ waiter = "subscribed"
    /\ waiter' = IF log THEN "found" ELSE "listening"
    /\ UNCHANGED <<serverVars, socketVars, readerVars, clientVars>>

\* Mutant: what a receiver has lost is not looked up in the log.
ReceiveOnly ==
    /\ waiter = "listening" /\ (lagged \/ bus # <<>>)
    /\ lagged' = FALSE
    /\ bus' = IF lagged THEN bus ELSE Tail(bus)
    /\ waiter' = IF ~lagged /\ Head(bus) THEN "found" ELSE waiter
    /\ UNCHANGED <<serverVars, socketVars, hand, passed, log, clientVars>>

\* An announcement, or the news that some were lost: the log is still whole.
Receive ==
    /\ waiter = "listening" /\ (lagged \/ bus # <<>>)
    /\ lagged' = FALSE
    /\ bus' = IF lagged THEN bus ELSE Tail(bus)
    /\ waiter' = IF (IF lagged THEN log ELSE Head(bus)) THEN "found" ELSE waiter
    /\ UNCHANGED <<serverVars, socketVars, hand, passed, log, clientVars>>

AskShutdown ==
    /\ ~asked /\ asked' = TRUE
    /\ UNCHANGED <<phase, screen, init, advertised, written, out, pushes, moved, socketVars,
                   readerVars, waiter, clientVars>>

Test == Subscribe \/ Scan \/ Receive \/ AskShutdown

-----------------------------------------------------------------------------
(* The client *)

\* A client that dials while another is served waits in the backlog, so the
\* next one is here when the last one is over.
Dial ==
    /\ phase = "accept" /\ client \in {"none", "closed", "protocol"} /\ clients < MaxClients
    /\ clients' = clients + 1 /\ client' = "dialing"
    /\ toClient' = <<>>
    /\ UNCHANGED <<serverVars, toDesktop, readerVars, waiter, fb, inflated, whole>>

\* Its half of the handshake, up to ClientInit; it may never come.
SayHello ==
    /\ phase = "setup" /\ client = "setup"
    /\ client' = "greeted" /\ toDesktop' = <<"hello">>
    /\ UNCHANGED <<serverVars, toClient, readerVars, waiter, clients, fb, inflated, whole>>

\* What the client does with a message: its framebuffer, and what it says.
Reads(kind, picture, has, says) ==
    /\ toClient # <<>> /\ Head(toClient).kind = kind
    /\ toClient' = Tail(toClient)
    /\ fb' = picture /\ whole' = has
    /\ toDesktop' = IF phase = "serve" THEN toDesktop \o says ELSE toDesktop
    /\ UNCHANGED <<serverVars, readerVars, waiter, clients>>

ReadInit ==
    /\ client = "greeted"
    /\ Reads("init", Head(toClient).of, FALSE, <<"encodings", "request">>)
    /\ client' = "live" /\ inflated' = 0

\* A rect that does not fit, or a payload that is not the next of the zlib
\* stream, is a protocol error.
Fits(p) == p.w <= fb.w /\ p.h <= fb.h
Inflates(message) == message.kind = "zrle" => message.place = inflated

ReadScreen ==
    LET message == Head(toClient) IN
    /\ client = "live"
    /\ \E kind \in {"raw", "zrle"} :
          Reads(kind, IF Fits(message.of) THEN Draw(fb, message.of) ELSE fb, TRUE, <<"request">>)
    /\ client' = IF Fits(message.of) /\ Inflates(message) THEN client ELSE "protocol"
    /\ inflated' = IF message.kind = "zrle" THEN (inflated + 1) % Wrap ELSE inflated

ReadCopy ==
    LET r == Head(toClient).of
        fits == Inside(r.x, r.y, r, fb) /\ Inside(r.sx, r.sy, r, fb) IN
    /\ client = "live"
    /\ Reads("copy", IF fits THEN CopyRect(fb, r) ELSE fb, whole, <<"request">>)
    /\ client' = IF fits THEN client ELSE "protocol"
    /\ UNCHANGED inflated

\* DesktopSize: a black framebuffer of the new size.
ReadSize ==
    /\ client = "live"
    /\ Reads("size", Head(toClient).of, FALSE, <<"request">>)
    /\ UNCHANGED <<client, inflated>>

ReadNote ==
    /\ client = "live"
    /\ Reads("note", fb, whole, <<>>)
    /\ UNCHANGED <<client, inflated>>

\* The input the test waits for, once.
SendInput ==
    /\ waiter # "absent" /\ client = "live" /\ phase = "serve" /\ ~log
    /\ \A i \in DOMAIN toDesktop : toDesktop[i] # "input"
    /\ "input" \notin InHand
    /\ toDesktop' = Append(toDesktop, "input")
    /\ UNCHANGED <<serverVars, toClient, readerVars, waiter, clientVars>>

\* It closes, or finds that the desktop has.
Close ==
    /\ client \in {"setup", "greeted", "live"}
    /\ client' = "closed" /\ toClient' = <<>>
    /\ UNCHANGED <<serverVars, toDesktop, readerVars, waiter, clients, fb, inflated, whole>>

ClientReads == ReadInit \/ ReadScreen \/ ReadCopy \/ ReadSize \/ ReadNote
Client == Dial \/ SayHello \/ ClientReads \/ SendInput \/ Close

Reader == ReadMessage \/ Announce

Next == Server \/ Reader \/ Test \/ Client

\* The server's select is fair to the branches that are ready now and then; a
\* client that is there reads what it is sent.
Fairness ==
    /\ SF_vars(HearShutdown)
    /\ WF_vars(Write) /\ WF_vars(WriteFails) /\ WF_vars(ClientReads)

Spec == Init /\ [][Next]_vars
FairSpec == Spec /\ Fairness

-----------------------------------------------------------------------------
(* Properties *)

\* The types: the task, the waiter and the client are at a place the code has, the
\* socket and the receiver hold no more than they can.
TypeOK ==
    /\ phase \in {"accept", "setup", "serve", "stopped"}
    /\ waiter \in {"absent", "idle", "subscribed", "listening", "found"}
    /\ client \in {"none", "dialing", "setup", "greeted", "live", "closed", "protocol"}
    /\ written \in 0..Wrap - 1 /\ inflated \in 0..Wrap - 1
    /\ pushes \in 0..MaxPushes /\ clients \in 0..MaxClients
    /\ Len(toClient) <= Cap /\ Len(out) <= 1 /\ Len(bus) <= BusCap

\* What a client that has had the whole screen draws is, whenever nothing is on
\* its way, what the desktop shows, through overlapping copies, resizes, pushes
\* that cross requests and a second connection; and it never meets a rect or a
\* payload it cannot take.  Excepted is a resize while the client was being set
\* up, which ServerInit does not have (server.rs:429).
PixelsAgree ==
    ~moved =>
        /\ client # "protocol"
        /\ phase = "serve" /\ client = "live" /\ whole /\ toClient = <<>> /\ out = <<>>
              => fb = screen

\* A test that waits for an input does not sleep on it: once the input is
\* written down and announced, the waiter has found it or has something left to
\* look at, whether it came before, between or after its subscription and its
\* scan, and whatever its receiver has lost (server.rs:196).
InputIsFound ==
    waiter = "listening" /\ bus = <<>> /\ ~lagged /\ log
        => "input" \in InHand

\* Shutdown ends the server, in the middle of an opening exchange with a client
\* that says nothing too (server.rs:431).
ShutdownEnds == asked ~> phase = "stopped"
=============================================================================
