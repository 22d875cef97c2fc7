-------------------------- MODULE DispatcherProofs --------------------------
(***************************************************************************)
(* The loop of the epoll dispatcher never meets a closed descriptor, for   *)
(* any number of connections and descriptors and whatever their peers and  *)
(* their users do.                                                         *)
(*                                                                         *)
(* A descriptor is closed by a function that deferredClose posts, and such *)
(* functions run only when the batch is done.  That alone is not enough:   *)
(* the function must run while the connection still has the descriptor, or *)
(* it would take another connection's entry out of the table.  So the      *)
(* invariant also says that the function is posted at most once and only   *)
(* for a connection that epoll still watches, and follows who may cause it *)
(* to be posted: sessions that are closed, writers, functions in a queue.  *)
(***************************************************************************)
EXTENDS Dispatcher, TLAPS, WellFoundedInduction

CloseFile(c) == [do |-> "closeFile", conn |-> c]
CloseOf(c) == [do |-> "closeSession", conn |-> c]
Lambdas == [do : {"closeFile", "closeSession"}, conn : Conns]
Edges == {"IN", "OUT", "RDHUP"}

(* A number belongs to one open file, and what epoll watches is open and is  *)
(* in the dispatcher's table under its number.                               *)
FileInv ==
    /\ fd \in [Conns -> Fds \cup {None}]
    /\ file \in [Conns -> {"none", "open", "closed"}]
    /\ conns \in [Fds -> Conns \cup {None}] /\ epoll \in SUBSET Conns
    /\ \A c \in Conns : file[c] = "open" => fd[c] \in Fds
    /\ \A c, d \in Conns : file[c] = "open" /\ file[d] = "open" /\ fd[c] = fd[d] => c = d
    /\ \A c \in epoll : file[c] = "open" /\ conns[fd[c]] = c

(* Only connections that epoll watches have edges or events, and there are   *)
(* no events while posted functions run.                                     *)
EventInv ==
    /\ ready \in [Conns -> SUBSET Edges] /\ batch \in [Conns -> SUBSET Edges]
    /\ loop \in [pc : {"wait", "run", "batch", "read"}, cur : Conns \cup {None},
                 events : SUBSET Edges]
    /\ \A c \in Conns : ready[c] # {} \/ batch[c] # {} \/ loop.cur = c => c \in epoll
    /\ loop.pc # "read" => loop.cur = None
    /\ loop.pc \in {"wait", "run"} => \A c \in Conns : batch[c] = {}

(* f is in the queue s, and there not twice. *)
Has(s, f) == \E p \in 1..Len(s) : s[p] = f
Once(s, f) == \A p, q \in 1..Len(s) : s[p] = f /\ s[q] = f => p = q

(* p is pendingLambda, r runningLambda, cl isClose, ep what epoll watches,   *)
(* sh the sessions that are closed and wr the writers.  The function of      *)
(* deferredClose waits at most once, with isClose set and the descriptor     *)
(* open.  Whoever may still call deferredClose, a function of Session.Close, *)
(* a writer or a reader, does so on a connection that is watched, unless     *)
(* deferredClose was called before.                                          *)
Closing(p, r, cl, ep, sh, wr) ==
    \A c \in Conns :
        /\ Has(p, CloseFile(c)) \/ Has(r, CloseFile(c)) => cl[c] /\ c \in ep
        /\ Once(p, CloseFile(c)) /\ Once(r, CloseFile(c))
        /\ ~(Has(p, CloseFile(c)) /\ Has(r, CloseFile(c)))
        /\ Has(p, CloseOf(c)) \/ Has(r, CloseOf(c)) => c \in ep \/ cl[c]
        /\ sh[c] \/ wr[c].pc # "idle" => c \in ep \/ cl[c]

CloseInv ==
    /\ isClose \in [Conns -> BOOLEAN] /\ shutdown \in [Conns -> BOOLEAN]
    /\ pending \in Seq(Lambdas) /\ running \in Seq(Lambdas)
    /\ Closing(pending, running, isClose, epoll, shutdown, writer)

WriterInv ==
    /\ room \in [Conns -> Int]
    /\ writer \in [Conns -> [pc : {"idle", "check", "syscall", "wait", "done"}, left : Int]]

IInv == FileInv /\ EventInv /\ CloseInv /\ WriterInv
-----------------------------------------------------------------------------
(* Among descriptors that are free one is the lowest. *)
LEMMA LowestExists ==
  ASSUME NEW S, S \subseteq Nat, S # {}
  PROVE  \E x \in S : \A y \in S : x <= y
<1> DEFINE R == {ss \in Nat \X Nat : ss[1] < ss[2]}
<1>1. IsWellFoundedOn(R, Nat)
  BY NatLessThanWellFounded, Zenon DEF OpToRel
<1> HIDE DEF R
<1>2. PICK x \in S : \A y \in S : ~(<<y, x>> \in R)
  BY <1>1, WFMin, Zenon
<1>3. \A y \in S : ~(y < x)
  BY <1>2, Zenon DEF R
<1> QED BY <1>3

(* The functions that are posted. *)
LEMMA LambdaTypes ==
  ASSUME NEW c \in Conns, NEW d \in Conns
  PROVE  /\ CloseFile(c) \in Lambdas /\ CloseOf(c) \in Lambdas
         /\ CloseFile(c) # CloseOf(d)
         /\ CloseFile(c) = CloseFile(d) => c = d
         /\ CloseOf(c) = CloseOf(d) => c = d
  BY Zenon DEF CloseFile, CloseOf, Lambdas

(* What Append puts into a queue. *)
LEMMA HasAppend ==
  ASSUME NEW s \in Seq(Lambdas), NEW f \in Lambdas, NEW t, t = Append(s, f)
  PROVE  /\ t \in Seq(Lambdas)
         /\ \A g : Has(t, g) <=> Has(s, g) \/ g = f
         /\ \A g : Once(s, g) /\ (g # f \/ ~Has(s, g)) => Once(t, g)
<1>1. /\ t \in Seq(Lambdas) /\ Len(s) \in Nat /\ Len(t) = Len(s) + 1 /\ t[Len(s) + 1] = f
      /\ \A p \in 1..Len(s) : t[p] = s[p]
  OBVIOUS
<1>2. \A p : p \in 1..Len(t) <=> p \in 1..Len(s) \/ p = Len(s) + 1
  BY <1>1
<1>3. \A g : Has(t, g) <=> Has(s, g) \/ g = f
  BY <1>1, <1>2, Zenon DEF Has
<1>4. ASSUME NEW g, Once(s, g), g # f \/ ~Has(s, g)
      PROVE  Once(t, g)
  <2>1. ASSUME NEW p \in 1..Len(t), NEW q \in 1..Len(t), t[p] = g, t[q] = g
        PROVE  p = q
    <3>1. CASE g # f
      BY <1>1, <1>2, <1>4, <2>1, <3>1, Zenon DEF Once
    <3>2. CASE ~Has(s, g)
      BY <1>1, <1>2, <2>1, <3>2, Zenon DEF Has
    <3> QED BY <1>4, <3>1, <3>2, Zenon
  <2> QED BY <2>1, Zenon DEF Once
<1> QED BY <1>1, <1>3, <1>4, Zenon

(* What is left of a queue without its first element. *)
LEMMA HasTail ==
  ASSUME NEW S, NEW s \in Seq(S), s # <<>>
  PROVE  /\ Tail(s) \in Seq(S) /\ Has(s, Head(s))
         /\ \A g : Has(Tail(s), g) => Has(s, g)
         /\ \A g : Once(s, g) => Once(Tail(s), g)
         /\ Once(s, Head(s)) => ~Has(Tail(s), Head(s))
<1>1. PICK t : t = Tail(s)
  BY Zenon
<1>2. /\ t \in Seq(S) /\ Len(s) \in Nat /\ Len(t) = Len(s) - 1 /\ Head(s) = s[1] /\ 1 \in 1..Len(s)
      /\ \A p \in 1..Len(t) : p + 1 \in 1..Len(s) /\ t[p] = s[p + 1]
  BY <1>1
<1>3. Has(s, Head(s))
  BY <1>2, Zenon DEF Has
<1>4. ASSUME NEW g, Has(t, g)
      PROVE  Has(s, g)
  BY <1>2, <1>4, Zenon DEF Has
<1>5. ASSUME NEW g, Once(s, g)
      PROVE  Once(t, g)
  <2>1. ASSUME NEW p \in 1..Len(t), NEW q \in 1..Len(t), t[p] = g, t[q] = g
        PROVE  p = q
    <3>1. p + 1 = q + 1
      BY <1>2, <1>5, <2>1, ZenonT(30) DEF Once
    <3> QED BY <3>1
  <2> QED BY <2>1, Zenon DEF Once
<1>6. ASSUME Once(s, Head(s)), Has(t, Head(s))
      PROVE  FALSE
  <2>1. PICK p \in 1..Len(t) : t[p] = Head(s)
    BY <1>6, Zenon DEF Has
  <2>2. p + 1 = 1
    BY <1>2, <1>6, <2>1, Zenon DEF Once
  <2> QED BY <2>1, <2>2, <1>2
<1> QED BY <1>1, <1>2, <1>3, <1>4, <1>5, <1>6, Zenon

(* Nothing is in an empty queue. *)
LEMMA HasNothing ==
  ASSUME NEW g
  PROVE  ~Has(<<>>, g) /\ Once(<<>>, g)
  BY DEF Has, Once
-----------------------------------------------------------------------------
(* What Closing says of one connection. *)
ClosingOf(c, p, r, cl, ep, sh, wr) ==
    /\ Has(p, CloseFile(c)) \/ Has(r, CloseFile(c)) => cl[c] /\ c \in ep
    /\ Once(p, CloseFile(c)) /\ Once(r, CloseFile(c))
    /\ ~(Has(p, CloseFile(c)) /\ Has(r, CloseFile(c)))
    /\ Has(p, CloseOf(c)) \/ Has(r, CloseOf(c)) => c \in ep \/ cl[c]
    /\ sh[c] \/ wr[c].pc # "idle" => c \in ep \/ cl[c]

(* Session.Close on a connection that is watched: it posts its function. *)
LEMMA PostSession ==
  ASSUME NEW p \in Seq(Lambdas), NEW r, NEW cl, NEW ep, NEW wr, NEW sh \in [Conns -> BOOLEAN],
         NEW c \in Conns, c \in ep \/ cl[c], Closing(p, r, cl, ep, sh, wr),
         NEW p2, p2 = p \/ p2 = Append(p, CloseOf(c))
  PROVE  p2 \in Seq(Lambdas) /\ Closing(p2, r, cl, ep, [sh EXCEPT ![c] = TRUE], wr)
<1>1. CloseOf(c) \in Lambdas
  BY LambdaTypes, Zenon
<1>2. p2 \in Seq(Lambdas)
  BY <1>1, HasAppend, Zenon
<1>3. ASSUME NEW d \in Conns
      PROVE  ClosingOf(d, p2, r, cl, ep, [sh EXCEPT ![c] = TRUE], wr)
  <2>1. ClosingOf(d, p, r, cl, ep, sh, wr)
    BY Zenon DEF Closing, ClosingOf
  <2>2. CloseFile(d) # CloseOf(c) /\ (CloseOf(d) = CloseOf(c) => d = c)
    BY LambdaTypes, Zenon
  <2>3. /\ Has(p2, CloseFile(d)) <=> Has(p, CloseFile(d))
        /\ Once(p2, CloseFile(d))
        /\ Has(p2, CloseOf(d)) => Has(p, CloseOf(d)) \/ d = c
    <3>1. CASE p2 = p
      BY <2>1, <3>1, Zenon DEF ClosingOf
    <3>2. CASE p2 = Append(p, CloseOf(c))
      <4>1. /\ \A g : Has(p2, g) <=> Has(p, g) \/ g = CloseOf(c)
            /\ \A g : Once(p, g) /\ (g # CloseOf(c) \/ ~Has(p, g)) => Once(p2, g)
        BY ONLY <1>1, <3>2, p \in Seq(Lambdas), HasAppend, ZenonT(30)
      <4> QED BY <2>1, <2>2, <4>1, Zenon DEF ClosingOf
    <3> QED BY <3>1, <3>2, Zenon
  <2>4. [sh EXCEPT ![c] = TRUE][d] => sh[d] \/ d = c
    BY Zenon
  <2> QED BY <2>1, <2>3, <2>4, Zenon DEF ClosingOf
<1> QED BY <1>2, <1>3, Zenon DEF Closing, ClosingOf

(* deferredClose on a connection that is watched. *)
LEMMA PostFile ==
  ASSUME NEW p \in Seq(Lambdas), NEW r, NEW cl \in [Conns -> BOOLEAN], NEW ep, NEW wr, NEW sh,
         NEW c \in Conns, c \in ep \/ cl[c], Closing(p, r, cl, ep, sh, wr),
         NEW p2, p2 = IF cl[c] THEN p ELSE Append(p, CloseFile(c))
  PROVE  p2 \in Seq(Lambdas) /\ Closing(p2, r, [cl EXCEPT ![c] = TRUE], ep, sh, wr)
<1>1. CloseFile(c) \in Lambdas
  BY LambdaTypes, Zenon
<1>2. p2 \in Seq(Lambdas)
  BY <1>1, HasAppend, Zenon
<1>3. ASSUME NEW d \in Conns
      PROVE  ClosingOf(d, p2, r, [cl EXCEPT ![c] = TRUE], ep, sh, wr)
  <2>1. ClosingOf(d, p, r, cl, ep, sh, wr)
    BY Zenon DEF Closing, ClosingOf
  <2>2. CloseOf(d) # CloseFile(c) /\ (CloseFile(d) = CloseFile(c) => d = c)
    BY LambdaTypes, Zenon
  <2>3. (cl[d] => [cl EXCEPT ![c] = TRUE][d]) /\ [cl EXCEPT ![c] = TRUE][c]
    BY Zenon
  <2>4. CASE cl[c]
    BY <2>1, <2>3, <2>4, Zenon DEF ClosingOf
  <2>5. CASE ~cl[c]
    <3>1. p2 = Append(p, CloseFile(c)) /\ c \in ep
      BY <2>5, Zenon
    <3>2. /\ \A g : Has(p2, g) <=> Has(p, g) \/ g = CloseFile(c)
          /\ \A g : Once(p, g) /\ (g # CloseFile(c) \/ ~Has(p, g)) => Once(p2, g)
      BY <1>1, <3>1, HasAppend, Zenon
    <3>3. /\ Has(p2, CloseFile(d)) => Has(p, CloseFile(d)) \/ d = c
          /\ Has(p2, CloseOf(d)) => Has(p, CloseOf(d))
      BY <2>2, <3>2, Zenon
    <3>4. d = c => ~Has(p, CloseFile(d)) /\ ~Has(r, CloseFile(d))
      BY <2>1, <2>5, Zenon DEF ClosingOf
    <3>5. Once(p2, CloseFile(d))
      BY <2>1, <2>2, <3>4, <3>2, Zenon DEF ClosingOf
    <3> QED BY <2>1, <2>3, <3>1, <3>3, <3>4, <3>5, Zenon DEF ClosingOf
  <2> QED BY <2>4, <2>5, Zenon
<1> QED BY <1>2, <1>3, Zenon DEF Closing, ClosingOf

(* A function of Session.Close leaves runningLambda. *)
LEMMA Unqueue ==
  ASSUME NEW p, NEW r \in Seq(Lambdas), r # <<>>, NEW cl, NEW ep, NEW wr, NEW sh,
         Closing(p, r, cl, ep, sh, wr)
  PROVE  Tail(r) \in Seq(Lambdas) /\ Closing(p, Tail(r), cl, ep, sh, wr)
  BY HasTail, Zenon DEF Closing

(* The function of deferredClose runs: the connection is not watched any     *)
(* more, and no second function waits for it.                                *)
LEMMA Released ==
  ASSUME NEW p, NEW r \in Seq(Lambdas), r # <<>>, NEW cl, NEW ep, NEW wr, NEW sh,
         NEW c \in Conns, Head(r) = CloseFile(c), Closing(p, r, cl, ep, sh, wr)
  PROVE  /\ Tail(r) \in Seq(Lambdas) /\ c \in ep
         /\ Closing(p, Tail(r), cl, ep \ {c}, sh, wr)
<1>1. /\ Tail(r) \in Seq(Lambdas) /\ Has(r, CloseFile(c))
      /\ \A g : Has(Tail(r), g) => Has(r, g)
      /\ \A g : Once(r, g) => Once(Tail(r), g)
      /\ Once(r, CloseFile(c)) => ~Has(Tail(r), CloseFile(c))
  BY HasTail, Zenon
<1>2. ASSUME NEW d \in Conns
      PROVE  ClosingOf(d, p, Tail(r), cl, ep \ {c}, sh, wr)
  <2>1. ClosingOf(d, p, r, cl, ep, sh, wr) /\ ClosingOf(c, p, r, cl, ep, sh, wr)
    BY Zenon DEF Closing, ClosingOf
  <2>2. CASE d = c
    BY <1>1, <2>1, <2>2, Zenon DEF ClosingOf
  <2>3. CASE d # c
    BY <1>1, <2>1, <2>3, Zenon DEF ClosingOf
  <2> QED BY <2>2, <2>3, Zenon
<1> QED BY <1>1, <1>2, Zenon DEF Closing, ClosingOf

(* runLambda takes what was posted. *)
LEMMA Taken ==
  ASSUME NEW p, NEW r, NEW cl, NEW ep, NEW wr, NEW sh, Closing(p, r, cl, ep, sh, wr)
  PROVE  Closing(<<>>, p, cl, ep, sh, wr)
  BY HasNothing, Zenon DEF Closing

(* A writer starts on a connection that is watched, and a connection gets    *)
(* watched.                                                                  *)
LEMMA Spread ==
  ASSUME NEW p, NEW r, NEW cl, NEW ep, NEW ep2, NEW wr, NEW wr2, NEW sh,
         Closing(p, r, cl, ep, sh, wr), ep \subseteq ep2,
         \A c \in Conns : wr2[c].pc # "idle" => wr[c].pc # "idle" \/ c \in ep
  PROVE  Closing(p, r, cl, ep2, sh, wr2)
  BY Zenon DEF Closing
-----------------------------------------------------------------------------
(* Init establishes the invariant. *)
LEMMA InitInvariant == Init => IInv
<1> SUFFICES ASSUME Init PROVE IInv
  BY Zenon
<1>1. FileInv
  BY NoneAssumption, Zenon DEF Init, FileInv
<1>2. EventInv
  BY NoneAssumption, Zenon DEF Init, EventInv, Edges
<1>3. CloseInv
  <2>1. Closing(<<>>, <<>>, isClose, epoll, shutdown, writer)
    BY HasNothing, Zenon DEF Init, Closing
  <2> QED BY <2>1 DEF Init, CloseInv
<1>4. WriterInv
  BY SizesAssumption DEF Init, WriterInv
<1> QED BY <1>1, <1>2, <1>3, <1>4, Zenon DEF IInv

(* The parts of the invariant that a step leaves alone. *)
LEMMA FilesSame ==
  ASSUME FileInv, UNCHANGED <<fd, file, conns, epoll>>
  PROVE  FileInv'
  BY Zenon DEF FileInv

LEMMA EventsSame ==
  ASSUME EventInv, UNCHANGED <<ready, batch, loop, epoll>>
  PROVE  EventInv'
  BY Zenon DEF EventInv

LEMMA CloseSame ==
  ASSUME CloseInv, UNCHANGED <<isClose, shutdown, pending, running, epoll, writer>>
  PROVE  CloseInv'
  BY Zenon DEF CloseInv

LEMMA WritersSame ==
  ASSUME WriterInv, UNCHANGED <<room, writer>>
  PROVE  WriterInv'
  BY Zenon DEF WriterInv

(* An edge of a connection comes only when epoll watches it. *)
LEMMA EdgeStep ==
  ASSUME EventInv, NEW c \in Conns, NEW e \in SUBSET Edges, Edge(c, e),
         UNCHANGED <<batch, loop, epoll>>
  PROVE  EventInv'
<1>1. ready' \in [Conns -> SUBSET Edges]
  BY Zenon DEF EventInv, Edge
<1>2. \A d \in Conns : ready'[d] # {} => ready[d] # {} \/ d \in epoll
  BY Zenon DEF EventInv, Edge
<1> QED BY <1>1, <1>2, Zenon DEF EventInv

(* The peer's steps. *)
LEMMA PeerStep ==
  ASSUME IInv, NEW c \in Conns, Peer(c)
  PROVE  IInv'
<1>1. FileInv /\ EventInv /\ CloseInv /\ WriterInv
  BY Zenon DEF IInv
<1>2. /\ \E e \in SUBSET Edges : Edge(c, e)
      /\ UNCHANGED <<connVars, conns, epoll, shutdown, loop, batch, pending, running, writer>>
      /\ UNCHANGED room \/ room' = [room EXCEPT ![c] = Room]
  BY Zenon DEF Peer, PeerSend, PeerWrite, PeerRead, PeerClose, Edges
<1>3. FileInv'
  BY <1>1, <1>2, FilesSame, Zenon DEF connVars
<1>4. EventInv'
  BY <1>1, <1>2, EdgeStep, Zenon
<1>5. CloseInv'
  BY <1>1, <1>2, CloseSame, Zenon DEF connVars
<1>6. WriterInv'
  BY <1>1, <1>2, SizesAssumption DEF WriterInv
<1> QED BY <1>3, <1>4, <1>5, <1>6, Zenon DEF IInv

(* A new connection gets a number that no open file has. *)
LEMMA DupFdStep ==
  ASSUME IInv, NEW c \in Conns, DupFd(c)
  PROVE  IInv'
<1>1. FileInv /\ EventInv /\ CloseInv /\ WriterInv
  BY Zenon DEF IInv
<1>2. PICK f \in Fds : /\ \A d \in Conns : file[d] = "open" => fd[d] # f
                       /\ fd' = [fd EXCEPT ![c] = f]
  <2> DEFINE free == {f \in Fds : \A d \in Conns : file[d] = "open" => fd[d] # f}
  <2>1. free # {} /\ fd' = [fd EXCEPT ![c] = CHOOSE f \in free : \A g \in free : f <= g]
    BY Zenon DEF DupFd
  <2>2. \E f \in free : \A g \in free : f <= g
    BY <2>1, LowestExists, FdsAssumption, Zenon
  <2>3. (CHOOSE f \in free : \A g \in free : f <= g) \in free
    BY <2>2, Zenon
  <2> QED BY <2>1, <2>3, Zenon
<1>3. FileInv'
  <2>1. /\ file[c] = "none" /\ file' = [file EXCEPT ![c] = "open"]
        /\ UNCHANGED <<conns, epoll>>
    BY Zenon DEF DupFd
  <2>2. /\ fd' \in [Conns -> Fds \cup {None}]
        /\ file' \in [Conns -> {"none", "open", "closed"}]
        /\ fd'[c] = f /\ \A d \in Conns \ {c} : fd'[d] = fd[d] /\ file'[d] = file[d]
    BY <1>1, <1>2, <2>1, Zenon DEF FileInv
  <2>3. \A d \in epoll : d # c /\ d \in Conns /\ file[d] = "open" /\ conns[fd[d]] = d
    BY <1>1, <2>1, Zenon DEF FileInv
  <2>4. \A d \in Conns : file'[d] = "open" => fd'[d] \in Fds
    BY <1>1, <2>2, Zenon DEF FileInv
  <2>5. ASSUME NEW d \in Conns, NEW b \in Conns, file'[d] = "open", file'[b] = "open", fd'[d] = fd'[b]
        PROVE  d = b
    BY <1>1, <1>2, <2>2, <2>5 DEF FileInv
  <2> QED BY <1>1, <2>1, <2>2, <2>3, <2>4, <2>5, Zenon DEF FileInv
<1>4. EventInv'
  BY <1>1, EventsSame, Zenon DEF DupFd
<1>5. CloseInv'
  BY <1>1, CloseSame, Zenon DEF DupFd
<1>6. WriterInv'
  BY <1>1, WritersSame, Zenon DEF DupFd
<1> QED BY <1>3, <1>4, <1>5, <1>6, Zenon DEF IInv

(* A connection is added to epoll and to the table. *)
LEMMA SetCallbackStep ==
  ASSUME IInv, NEW c \in Conns, SetCallback(c)
  PROVE  IInv'
<1>1. FileInv /\ EventInv /\ CloseInv /\ WriterInv
  BY Zenon DEF IInv
<1>2. FileInv'
  <2>1. /\ file[c] = "open" /\ fd[c] \in Fds
        /\ epoll' = epoll \cup {c} /\ conns' = [conns EXCEPT ![fd[c]] = c]
        /\ UNCHANGED <<fd, file>>
    BY <1>1, Zenon DEF FileInv, SetCallback, connVars
  <2>2. conns' \in [Fds -> Conns \cup {None}] /\ epoll' \in SUBSET Conns
    BY <1>1, <2>1, Zenon DEF FileInv
  <2>3. ASSUME NEW d \in epoll'
        PROVE  file[d] = "open" /\ conns'[fd[d]] = d
    BY <1>1, <2>1, <2>3, Zenon DEF FileInv
  <2> QED BY <1>1, <2>1, <2>2, <2>3, Zenon DEF FileInv
<1>3. EventInv'
  <2>1. \E e \in SUBSET Edges : ready' = [ready EXCEPT ![c] = e]
    BY Zenon DEF SetCallback, Edges
  <2>2. UNCHANGED <<batch, loop>> /\ epoll' = epoll \cup {c}
    BY Zenon DEF SetCallback
  <2> QED BY <1>1, <2>1, <2>2, Zenon DEF EventInv
<1>4. CloseInv'
  <2>1. Closing(pending, running, isClose, epoll', shutdown, writer)
    BY <1>1, Spread, Zenon DEF CloseInv, SetCallback
  <2> QED BY <1>1, <2>1, Zenon DEF CloseInv, SetCallback, connVars
<1>5. WriterInv'
  BY <1>1, WritersSame, Zenon DEF SetCallback
<1> QED BY <1>2, <1>3, <1>4, <1>5, Zenon DEF IInv

(* Session.Close, by anybody, on a connection that is watched or on which    *)
(* deferredClose was called.                                                 *)
LEMMA SessionClosesStep ==
  ASSUME CloseInv, NEW c \in Conns, c \in epoll \/ isClose[c], SessionCloses(c),
         UNCHANGED <<isClose, running, epoll, writer>>
  PROVE  CloseInv'
<1>1. /\ pending' = pending \/ pending' = Append(pending, CloseOf(c))
      /\ shutdown' = [shutdown EXCEPT ![c] = TRUE]
  BY Zenon DEF SessionCloses, CloseOf
<1>2. pending' \in Seq(Lambdas) /\ Closing(pending', running, isClose, epoll, shutdown', writer)
  BY <1>1, PostSession, Zenon DEF CloseInv
<1> QED BY <1>1, <1>2, Zenon DEF CloseInv

LEMMA CloseSessionStep ==
  ASSUME IInv, NEW c \in Conns, CloseSession(c)
  PROVE  IInv'
<1>1. FileInv /\ EventInv /\ CloseInv /\ WriterInv
  BY Zenon DEF IInv
<1>2. FileInv'
  BY <1>1, FilesSame, Zenon DEF CloseSession, connVars
<1>3. EventInv'
  BY <1>1, EventsSame, Zenon DEF CloseSession
<1>4. CloseInv'
  BY <1>1, SessionClosesStep, Zenon DEF CloseSession, connVars
<1>5. WriterInv'
  BY <1>1, WritersSame, Zenon DEF CloseSession
<1> QED BY <1>2, <1>3, <1>4, <1>5, Zenon DEF IInv

(* deferredClose after something was posted or nothing. *)
LEMMA DeferredStep ==
  ASSUME CloseInv, NEW c \in Conns, c \in epoll \/ isClose[c],
         OnRemoteClose(c) \/ (DeferredClose(c, pending) /\ UNCHANGED shutdown)
  PROVE  /\ isClose' \in [Conns -> BOOLEAN] /\ shutdown' \in [Conns -> BOOLEAN]
         /\ pending' \in Seq(Lambdas)
         /\ Closing(pending', running, isClose', epoll, shutdown', writer)
<1>1. PICK posted : /\ DeferredClose(c, posted)
                    /\ posted \in Seq(Lambdas)
                    /\ shutdown' \in [Conns -> BOOLEAN]
                    /\ Closing(posted, running, isClose, epoll, shutdown', writer)
  <2>1. CASE DeferredClose(c, pending) /\ UNCHANGED shutdown
    BY <2>1, Zenon DEF CloseInv
  <2>2. CASE OnRemoteClose(c)
    <3>1. PICK posted : /\ DeferredClose(c, posted)
                        /\ posted = pending \/ posted = Append(pending, CloseOf(c))
      BY <2>2, Zenon DEF OnRemoteClose, CloseOf
    <3>2. shutdown' = [shutdown EXCEPT ![c] = TRUE]
      BY <2>2, Zenon DEF OnRemoteClose
    <3>3. posted \in Seq(Lambdas) /\ Closing(posted, running, isClose, epoll, shutdown', writer)
      BY <3>1, <3>2, PostSession, Zenon DEF CloseInv
    <3> QED BY <3>1, <3>2, <3>3, Zenon DEF CloseInv
  <2> QED BY <2>1, <2>2, Zenon
<1>2. /\ isClose' = [isClose EXCEPT ![c] = TRUE]
      /\ pending' = IF isClose[c] THEN posted ELSE Append(posted, CloseFile(c))
  BY <1>1, Zenon DEF DeferredClose, CloseFile
<1>3. pending' \in Seq(Lambdas) /\ Closing(pending', running, isClose', epoll, shutdown', writer)
  BY <1>1, <1>2, PostFile, Zenon DEF CloseInv
<1> QED BY <1>1, <1>2, <1>3, Zenon DEF CloseInv

(* What happens in the loop between two functions. *)
LEMMA LoopStep ==
  ASSUME IInv, EpollWait \/ WaitTimeout \/ BatchDone \/ LambdasDone
  PROVE  IInv'
<1>1. FileInv /\ EventInv /\ CloseInv /\ WriterInv
  BY Zenon DEF IInv
<1>2. UNCHANGED <<connVars, conns, epoll, shutdown, room, writer>>
  BY Zenon DEF EpollWait, WaitTimeout, BatchDone, LambdasDone
<1>3. FileInv'
  BY <1>1, <1>2, FilesSame, Zenon DEF connVars
<1>4. EventInv'
  <2>1. CASE EpollWait
    BY <1>1, <2>1, Zenon DEF EventInv, EpollWait
  <2>2. CASE WaitTimeout
    BY <1>1, <2>2, Zenon DEF EventInv, WaitTimeout, RunLambda
  <2>3. CASE BatchDone
    BY <1>1, <2>3, NoneAssumption, Zenon DEF EventInv, BatchDone, RunLambda
  <2>4. CASE LambdasDone
    BY <1>1, <2>4, Zenon DEF EventInv, LambdasDone
  <2> QED BY <2>1, <2>2, <2>3, <2>4, Zenon
<1>5. CloseInv'
  <2>1. CASE UNCHANGED <<pending, running>>
    BY <1>1, <1>2, <2>1, CloseSame, Zenon DEF connVars
  <2>2. CASE running' = pending /\ pending' = <<>>
    <3>1. Closing(<<>>, pending, isClose, epoll, shutdown, writer)
      BY <1>1, Taken, Zenon DEF CloseInv
    <3> QED BY <1>1, <1>2, <2>2, <3>1 DEF CloseInv, connVars
  <2> QED BY <2>1, <2>2, Zenon DEF EpollWait, WaitTimeout, BatchDone, LambdasDone, RunLambda
<1>6. WriterInv'
  BY <1>1, <1>2, WritersSame, Zenon
<1> QED BY <1>3, <1>4, <1>5, <1>6, Zenon DEF IInv

(* handleEvent of a connection, which is watched. *)
LEMMA HandleEventStep ==
  ASSUME IInv, NEW c \in Conns, HandleEvent(c)
  PROVE  IInv'
<1>1. FileInv /\ EventInv /\ CloseInv /\ WriterInv
  BY Zenon DEF IInv
<1>2. FileInv'
  BY <1>1, FilesSame, Zenon DEF HandleEvent
<1>3. c \in epoll /\ loop.pc = "batch" /\ loop.cur = None
  BY <1>1, Zenon DEF EventInv, HandleEvent
<1>4. EventInv'
  <2>1. /\ batch' = [batch EXCEPT ![c] = {}] /\ UNCHANGED <<ready, epoll>>
        /\ UNCHANGED loop \/ loop' = [pc |-> "read", cur |-> c, events |-> batch[c]]
    BY Zenon DEF HandleEvent
  <2>2. batch' \in [Conns -> SUBSET Edges] /\ \A d \in Conns : batch'[d] # {} => batch[d] # {}
    BY <1>1, <2>1, Zenon DEF EventInv
  <2>3. CASE UNCHANGED loop
    BY <1>1, <1>3, <2>1, <2>2, <2>3, Zenon DEF EventInv
  <2>4. CASE loop' = [pc |-> "read", cur |-> c, events |-> batch[c]]
    BY <1>1, <1>3, <2>1, <2>2, <2>4, Zenon DEF EventInv
  <2> QED BY <2>1, <2>3, <2>4, Zenon
<1>5. CloseInv'
  <2>1. UNCHANGED <<running, epoll, writer>>
    BY Zenon DEF HandleEvent
  <2>2. CASE UNCHANGED <<isClose, shutdown, pending>>
    BY <1>1, <2>1, <2>2, CloseSame, Zenon
  <2>3. CASE OnRemoteClose(c)
    BY <1>1, <1>3, <2>1, <2>3, DeferredStep, Zenon DEF CloseInv
  <2> QED BY <2>2, <2>3, Zenon DEF HandleEvent
<1>6. WriterInv'
  BY <1>1, WritersSame, Zenon DEF HandleEvent
<1> QED BY <1>2, <1>4, <1>5, <1>6, Zenon DEF IInv

(* Session.onEventData closes the session or leaves it alone. *)
LEMMA OnEventDataCloses ==
  ASSUME NEW c \in Conns, NEW buf, OnEventData(c, buf)
  PROVE  SessionCloses(c) \/ UNCHANGED <<shutdown, pending>>
  BY Zenon DEF OnEventData

(* onReadReady: the connection that is read is watched. *)
LEMMA ReadStep ==
  ASSUME IInv, NEW c \in Conns, ReadSome(c) \/ ReadEnd(c) \/ ReadFails(c)
  PROVE  IInv'
<1>1. FileInv /\ EventInv /\ CloseInv /\ WriterInv
  BY Zenon DEF IInv
<1>2. /\ UNCHANGED <<fd, file, conns, epoll, ready, batch, running, room, writer>>
      /\ loop.cur = c
      /\ UNCHANGED loop \/ loop' = [pc |-> "batch", cur |-> None, events |-> {}]
      /\ \/ UNCHANGED isClose /\ (SessionCloses(c) \/ UNCHANGED <<shutdown, pending>>)
         \/ OnRemoteClose(c)
  BY OnEventDataCloses, Zenon DEF ReadSome, ReadEnd, ReadFails, connVars
<1>3. c \in epoll
  BY <1>1, <1>2, Zenon DEF EventInv
<1>4. FileInv'
  BY <1>1, <1>2, FilesSame, Zenon
<1>5. EventInv'
  <2>1. CASE UNCHANGED loop
    BY <1>1, <1>2, <2>1, EventsSame, Zenon
  <2>2. CASE loop' = [pc |-> "batch", cur |-> None, events |-> {}]
    BY <1>1, <1>2, <2>2, NoneAssumption, Zenon DEF EventInv
  <2> QED BY <1>2, <2>1, <2>2, Zenon
<1>6. CloseInv'
  <2>1. CASE UNCHANGED <<isClose, shutdown, pending>>
    BY <1>1, <1>2, <2>1, CloseSame, Zenon
  <2>2. CASE UNCHANGED isClose /\ SessionCloses(c)
    BY <1>1, <1>2, <1>3, <2>2, SessionClosesStep, Zenon
  <2>3. CASE OnRemoteClose(c)
    BY <1>1, <1>2, <1>3, <2>3, DeferredStep, Zenon DEF CloseInv
  <2> QED BY <1>2, <2>1, <2>2, <2>3, Zenon
<1>7. WriterInv'
  BY <1>1, <1>2, WritersSame, Zenon
<1> QED BY <1>4, <1>5, <1>6, <1>7, Zenon DEF IInv

(* The function of Session.Close. *)
LEMMA RunCloseSessionStep ==
  ASSUME IInv, NEW c \in Conns, RunCloseSession(c)
  PROVE  IInv'
<1>1. FileInv /\ EventInv /\ CloseInv /\ WriterInv
  BY Zenon DEF IInv
<1>2. FileInv'
  BY <1>1, FilesSame, Zenon DEF RunCloseSession
<1>3. EventInv'
  BY <1>1, EventsSame, Zenon DEF RunCloseSession
<1>4. CloseInv'
  <2>1. /\ running \in Seq(Lambdas) /\ running # <<>> /\ Head(running) = CloseOf(c)
        /\ running' = Tail(running) /\ UNCHANGED <<epoll, shutdown, writer>>
        /\ DeferredClose(c, pending)
    BY <1>1, Zenon DEF CloseInv, RunCloseSession, CloseOf
  <2>2. Has(running, CloseOf(c))
    BY <2>1, HasTail, Zenon
  <2>3. c \in epoll \/ isClose[c]
    BY <1>1, <2>2, Zenon DEF CloseInv, Closing
  <2>4. /\ isClose' \in [Conns -> BOOLEAN] /\ shutdown' \in [Conns -> BOOLEAN]
        /\ pending' \in Seq(Lambdas)
        /\ Closing(pending', running, isClose', epoll, shutdown', writer)
    BY <1>1, <2>1, <2>3, DeferredStep, Zenon
  <2>5. Tail(running) \in Seq(Lambdas)
        /\ Closing(pending', Tail(running), isClose', epoll, shutdown', writer)
    BY <2>1, <2>4, Unqueue, Zenon
  <2> QED BY <2>1, <2>4, <2>5, Zenon DEF CloseInv
<1>5. WriterInv'
  BY <1>1, WritersSame, Zenon DEF RunCloseSession
<1> QED BY <1>2, <1>3, <1>4, <1>5, Zenon DEF IInv

(* The function of deferredClose closes the descriptor of its own connection,*)
(* of which there is no event.                                               *)
LEMMA RunCloseFileStep ==
  ASSUME IInv, NEW c \in Conns, RunCloseFile(c)
  PROVE  IInv'
<1>1. FileInv /\ EventInv /\ CloseInv /\ WriterInv
  BY Zenon DEF IInv
<1>2. /\ loop.pc = "run" /\ running \in Seq(Lambdas) /\ running # <<>>
      /\ Head(running) = CloseFile(c) /\ running' = Tail(running)
      /\ epoll' = epoll \ {c} /\ ready' = [ready EXCEPT ![c] = {}]
      /\ conns' = [conns EXCEPT ![fd[c]] = None] /\ file' = [file EXCEPT ![c] = "closed"]
      /\ UNCHANGED <<fd, isClose, shutdown, loop, batch, pending, room, writer>>
  BY <1>1, Zenon DEF CloseInv, RunCloseFile, CloseFile
<1>3. /\ Tail(running) \in Seq(Lambdas) /\ c \in epoll
      /\ Closing(pending, Tail(running), isClose, epoll \ {c}, shutdown, writer)
  BY <1>1, <1>2, Released, Zenon DEF CloseInv
<1>4. FileInv'
  <2>1. file[c] = "open" /\ fd[c] \in Fds
    BY <1>1, <1>3, Zenon DEF FileInv
  <2>2. /\ conns' \in [Fds -> Conns \cup {None}] /\ epoll' \in SUBSET Conns
        /\ file' \in [Conns -> {"none", "open", "closed"}]
        /\ \A d \in Conns : file'[d] = "open" => d # c /\ file[d] = "open"
        /\ \A d \in Conns \ {c} : file'[d] = file[d]
    BY <1>1, <1>2, Zenon DEF FileInv
  <2>3. ASSUME NEW d \in epoll'
        PROVE  file'[d] = "open" /\ conns'[fd[d]] = d
    <3>1. d \in Conns /\ d # c /\ file[d] = "open" /\ fd[d] \in Fds /\ conns[fd[d]] = d
      BY <1>1, <1>2, <2>3, Zenon DEF FileInv
    <3>2. fd[d] # fd[c]
      BY <1>1, <2>1, <3>1, Zenon DEF FileInv
    <3> QED BY <1>1, <1>2, <2>1, <2>2, <3>1, <3>2, ZenonT(30) DEF FileInv
  <2> QED BY <1>1, <1>2, <2>2, <2>3 DEF FileInv
<1>5. EventInv'
  BY <1>1, <1>2, NoneAssumption, Zenon DEF EventInv
<1>6. CloseInv'
  BY <1>1, <1>2, <1>3, Zenon DEF CloseInv
<1>7. WriterInv'
  BY <1>1, <1>2, WritersSame, Zenon
<1> QED BY <1>4, <1>5, <1>6, <1>7, Zenon DEF IInv

(* A writer starts on a connection that is watched, and its error closes the *)
(* session.                                                                  *)
LEMMA WriteStep ==
  ASSUME IInv, NEW c \in Conns, Write(c) \/ WriteStart(c)
  PROVE  IInv'
<1>1. FileInv /\ EventInv /\ CloseInv /\ WriterInv
  BY Zenon DEF IInv
<1>2. UNCHANGED <<fd, file, isClose, conns, epoll, ready, loop, batch, running>>
  BY Zenon DEF Write, WriteStart, WriteCheck, WriteSyscall, WriteResume, connVars
<1>3. FileInv'
  BY <1>1, <1>2, FilesSame, Zenon
<1>4. EventInv'
  BY <1>1, <1>2, EventsSame, Zenon
<1>5. WriterInv'
  <2>1. CASE WriteStart(c)
    BY <1>1, <2>1, SizesAssumption DEF WriterInv, WriteStart
  <2>2. CASE WriteCheck(c)
    BY <1>1, <2>2, ZenonT(30) DEF WriterInv, WriteCheck
  <2>3. CASE WriteResume(c)
    BY <1>1, <2>3, Zenon DEF WriterInv, WriteResume
  <2>4. CASE WriteSyscall(c)
    <3> DEFINE Owner(d) == file[d] = "open" /\ fd[d] = fd[c]
               target == CHOOSE d \in Conns : Owner(d)
               n == IF room[target] < writer[c].left THEN room[target] ELSE writer[c].left
    <3>1. CASE writer' = [writer EXCEPT ![c].pc = "done"] /\ UNCHANGED room
      BY <1>1, <3>1, Zenon DEF WriterInv
    <3>2. CASE /\ \E d \in Conns : Owner(d)
               /\ writer' = [writer EXCEPT ![c] =
                      IF n = 0 THEN [@ EXCEPT !.pc = "wait"]
                      ELSE [pc |-> IF n < @.left THEN "check" ELSE "done", left |-> @.left - n]]
               /\ room' = [room EXCEPT ![target] = @ - n]
      <4>1. target \in Conns
        BY <3>2, Zenon
      <4> HIDE DEF target
      <4>2. n \in Int /\ writer[c].left \in Int /\ room[target] \in Int
        BY <1>1, <4>1, Zenon DEF WriterInv
      <4> HIDE DEF n
      <4> QED BY <1>1, <3>2, <4>1, <4>2 DEF WriterInv
    <3> QED BY <2>4, <3>1, <3>2, Zenon DEF WriteSyscall
  <2> QED BY <2>1, <2>2, <2>3, <2>4, Zenon DEF Write
<1>6. CloseInv'
  <2>1. ASSUME NEW d \in Conns, writer'[d].pc # "idle"
        PROVE  writer[d].pc # "idle" \/ d \in epoll
    <3>1. writer[d].pc # "idle" \/ d = c
      BY <1>1, <2>1, Zenon DEF WriterInv, Write, WriteStart, WriteCheck, WriteSyscall, WriteResume
    <3>2. writer[c].pc # "idle" \/ c \in epoll
      BY Zenon DEF Write, WriteStart, WriteCheck, WriteSyscall, WriteResume
    <3> QED BY <3>1, <3>2, Zenon
  <2>2. Closing(pending, running, isClose, epoll, shutdown, writer')
    BY <1>1, <2>1, Spread, Zenon DEF CloseInv
  <2>3. CASE UNCHANGED <<shutdown, pending>>
    BY <1>1, <1>2, <2>2, <2>3, Zenon DEF CloseInv
  <2>4. CASE SessionCloses(c) /\ writer[c].pc = "syscall"
    <3>1. /\ pending' = pending \/ pending' = Append(pending, CloseOf(c))
          /\ shutdown' = [shutdown EXCEPT ![c] = TRUE]
      BY <2>4, Zenon DEF SessionCloses, CloseOf
    <3>2. c \in epoll \/ isClose[c]
      BY <1>1, <2>4, Zenon DEF CloseInv, Closing
    <3>3. pending' \in Seq(Lambdas) /\ Closing(pending', running, isClose, epoll, shutdown', writer')
      BY <1>1, <2>2, <3>1, <3>2, PostSession, Zenon DEF CloseInv
    <3> QED BY <1>1, <1>2, <3>1, <3>3, Zenon DEF CloseInv
  <2> QED BY <2>3, <2>4, Zenon DEF Write, WriteStart, WriteCheck, WriteSyscall, WriteResume
<1> QED BY <1>3, <1>4, <1>5, <1>6, Zenon DEF IInv

(* Every step keeps the invariant. *)
LEMMA StepInvariant == IInv /\ [Next]_vars => IInv'
<1> SUFFICES ASSUME IInv, [Next]_vars PROVE IInv'
  BY Zenon
<1>1. CASE EpollWait \/ WaitTimeout \/ BatchDone \/ LambdasDone
  BY <1>1, LoopStep, Zenon
<1>2. ASSUME NEW c \in Conns, Peer(c)
      PROVE  IInv'
  BY <1>2, PeerStep, Zenon
<1>3. ASSUME NEW c \in Conns, Loop(c)
      PROVE  IInv'
  BY <1>3, HandleEventStep, ReadStep, RunCloseSessionStep, RunCloseFileStep, Zenon DEF Loop
<1>4. ASSUME NEW c \in Conns, Write(c) \/ WriteStart(c)
      PROVE  IInv'
  BY <1>4, WriteStep, Zenon
<1>5. ASSUME NEW c \in Conns, DupFd(c) \/ SetCallback(c) \/ CloseSession(c)
      PROVE  IInv'
  BY <1>5, DupFdStep, SetCallbackStep, CloseSessionStep, Zenon
<1>6. CASE UNCHANGED vars
  BY <1>6, FilesSame, EventsSame, CloseSame, WritersSame, Zenon DEF vars, connVars, IInv
<1> QED BY <1>1, <1>2, <1>3, <1>4, <1>5, <1>6, Zenon DEF Next
-----------------------------------------------------------------------------
(* A connection that the dispatcher has an event of, or that it is reading,  *)
(* has its descriptor open and is the one the table has under its number:    *)
(* the closes of sessions, of peers and of writers that fail wait until the  *)
(* batch is done, and each closes its own descriptor once, even when the     *)
(* number has been given to another connection since.                        *)
THEOREM DescriptorsOutliveEvents == Spec => []EventsMeetOpenFiles
<1>1. Init => IInv
  BY InitInvariant, Zenon
<1>2. IInv /\ [Next]_vars => IInv'
  BY StepInvariant, Zenon
<1>3. IInv => EventsMeetOpenFiles
  BY Zenon DEF IInv, FileInv, EventInv, EventsMeetOpenFiles
<1> QED BY <1>1, <1>2, <1>3, PTL DEF Spec

(* The function that deferredClose posts closes a descriptor that is open    *)
(* and takes its own connection out of the table, never one that got the     *)
(* number since.                                                             *)
ClosesOwnDescriptor ==
    \A c \in Conns : RunCloseFile(c) => file[c] = "open" /\ conns[fd[c]] = c

(* The same holds at every step: deferredClose is called by the loop, by the *)
(* functions of Session.Close and after failed reads, and still posts its    *)
(* function once for each connection.                                        *)
THEOREM DescriptorsClosedOnce == Spec => [][ClosesOwnDescriptor]_vars
<1>1. Init => IInv
  BY InitInvariant, Zenon
<1>2. IInv /\ [Next]_vars => IInv'
  BY StepInvariant, Zenon
<1>3. IInv => ClosesOwnDescriptor
  <2> SUFFICES ASSUME IInv, NEW c \in Conns, RunCloseFile(c)
               PROVE  file[c] = "open" /\ conns[fd[c]] = c
    BY Zenon DEF ClosesOwnDescriptor
  <2>1. running \in Seq(Lambdas) /\ running # <<>> /\ Head(running) = CloseFile(c)
    BY Zenon DEF IInv, CloseInv, RunCloseFile, CloseFile
  <2>2. c \in epoll
    BY <2>1, Released, Zenon DEF IInv, CloseInv
  <2> QED BY <2>2, Zenon DEF IInv, FileInv
<1> QED BY <1>1, <1>2, <1>3, PTL DEF Spec
=============================================================================
