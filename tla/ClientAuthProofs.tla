-------------------------- MODULE ClientAuthProofs --------------------------
(***************************************************************************)
(* Proofs about ClientAuth, for any number of tokens, requests, reloads    *)
(* and messages between page and shell, and for the two tabs of a browser: *)
(* no failure of the network signs a browser out, a sign-out lasts, and a  *)
(* device neither falls out of step with its vault nor presents a token    *)
(* twice, unless one of the named causes came first.                       *)
(***************************************************************************)
EXTENDS ClientAuth, TLAPS

Late == {"sent", "ok", "gone"}

(* What each client does without.                                          *)
Places ==
  /\ app # "desktop" => toMain = <<>> /\ toPage = <<>>
  /\ app # "mobile" => writes = <<>>
  /\ app = "web" => saved = 0 /\ ~starting
  /\ kicked # {} => ~starting

(* A request of the main process is one at a time, before there is a page. *)
MainFirst ==
  \A f \in Flights :
    flight[f].by = Main /\ Under(f) =>
      app = "desktop" /\ starting /\ promise[Main] = f

(* What the answers hold.                                                  *)
Answers ==
  \A f \in Flights :
    /\ At(f, "ok") => flight[f].new # 0
    /\ At(f, "refused") => refused
    /\ flight[f].at \in {"sent", "refused", "bad", "failed"} => flight[f].new = 0

(* The vault is empty, or will be when a message on its way has arrived,    *)
(* and nothing that is asked or told after that has a token.               *)
Emptied(s, q) ==
  \E i \in 0 .. Len(q) :
    /\ i = 0 => s = 0
    /\ i # 0 => q[i].op = "clear"
    /\ \A j \in 1 .. Len(q) : IF j < i THEN q[j].op \in {"set", "clear"} ELSE q[j].tok = 0

Mute(q) == \A i \in 1 .. Len(q) : q[i].tok = 0
Drained(s, q) == IF q = <<>> THEN s = 0 ELSE q[Len(q)] = 0

(* After a sign-out that met nothing under way, nothing has a token.        *)
SignedOut == out /\ causes \cap {"crossed", "crash"} = {}
Silence ==
  SignedOut =>
    /\ page = 0 /\ ~starting
    /\ \A f \in Flights : flight[f].at \notin Late
    /\ Mute(toPage)
    /\ app = "mobile" => Drained(saved, writes)
    /\ app = "desktop" => Emptied(saved, toMain)

Inv == Places /\ MainFirst /\ Answers /\ KeepsThroughBlip /\ Silence

-----------------------------------------------------------------------------
(* The queue of messages to the vault                                      *)

LEMMA EmptiedAppend ==
  ASSUME NEW s, NEW q \in Seq(Message), NEW m \in Message, m.tok = 0, Emptied(s, q)
  PROVE  Emptied(s, Append(q, m))
<1>1. PICK i \in 0 .. Len(q) :
        /\ i = 0 => s = 0
        /\ i # 0 => q[i].op = "clear"
        /\ \A j \in 1 .. Len(q) : IF j < i THEN q[j].op \in {"set", "clear"} ELSE q[j].tok = 0
  BY DEF Emptied
<1>2. /\ Len(Append(q, m)) = Len(q) + 1
      /\ \A j \in 1 .. Len(q) : Append(q, m)[j] = q[j]
      /\ Append(q, m)[Len(q) + 1] = m
  OBVIOUS
<1>3. i \in 0 .. Len(Append(q, m)) /\ (i # 0 => Append(q, m)[i].op = "clear")
  BY <1>1, <1>2
<1>4. ASSUME NEW j \in 1 .. Len(Append(q, m))
      PROVE  IF j < i THEN Append(q, m)[j].op \in {"set", "clear"} ELSE Append(q, m)[j].tok = 0
  BY <1>1, <1>2
<1>5. QED
  BY <1>1, <1>3, <1>4 DEF Emptied

(* A clear that follows nothing but stores empties the vault.              *)
LEMMA EmptiedClear ==
  ASSUME NEW s, NEW q \in Seq(Message),
         \A j \in 1 .. Len(q) : q[j].op \in {"set", "clear"}
  PROVE  Emptied(s, Append(q, Clear))
<1>1. /\ Len(Append(q, Clear)) = Len(q) + 1
      /\ \A j \in 1 .. Len(q) : Append(q, Clear)[j] = q[j]
      /\ Append(q, Clear)[Len(q) + 1] = Clear
  OBVIOUS
<1>2. Len(q) + 1 \in 0 .. Len(Append(q, Clear)) /\ Len(q) + 1 # 0 /\ Len(q) \in Nat
  BY <1>1
<1>3. ASSUME NEW j \in 1 .. Len(Append(q, Clear))
      PROVE  IF j < Len(q) + 1 THEN Append(q, Clear)[j].op \in {"set", "clear"}
                               ELSE Append(q, Clear)[j].tok = 0
  BY <1>1, <1>2 DEF Clear
<1>4. QED
  BY <1>1, <1>2, <1>3 DEF Emptied, Clear

LEMMA EmptiedTail ==
  ASSUME NEW s, NEW q \in Seq(Message), q # <<>>, Emptied(s, q)
  PROVE  /\ Head(q).op \in {"set", "clear"} => Emptied(Head(q).tok, Tail(q))
         /\ Head(q).op \in {"snap", "get", "loaded"} =>
              s = 0 /\ Head(q).tok = 0 /\ Emptied(0, Tail(q))
<1>1. PICK i \in 0 .. Len(q) :
        /\ i = 0 => s = 0
        /\ i # 0 => q[i].op = "clear"
        /\ \A j \in 1 .. Len(q) : IF j < i THEN q[j].op \in {"set", "clear"} ELSE q[j].tok = 0
  BY DEF Emptied
<1>2. /\ Len(q) \in Nat \ {0} /\ Len(Tail(q)) = Len(q) - 1
      /\ \A j \in 1 .. Len(q) - 1 : Tail(q)[j] = q[j + 1]
      /\ Head(q) = q[1]
  OBVIOUS
<1>3. CASE i \in {0, 1}
  <2>1. \A j \in 1 .. Len(q) : q[j].tok = 0
    BY <1>1, <1>2, <1>3 DEF Message
  <2>2. \A j \in 1 .. Len(Tail(q)) : Tail(q)[j].tok = 0
    BY <2>1, <1>2
  <2>3. Emptied(0, Tail(q)) /\ Head(q).tok = 0
    BY <2>1, <2>2, <1>2 DEF Emptied
  <2>4. Head(q).op \in {"snap", "get", "loaded"} => s = 0
    BY <1>1, <1>2, <1>3
  <2>5. QED
    BY <2>3, <2>4
<1>4. CASE i > 1
  <2>1. i - 1 \in 0 .. Len(Tail(q)) /\ i - 1 # 0 /\ Tail(q)[i - 1].op = "clear"
    BY <1>1, <1>2, <1>4
  <2>2. ASSUME NEW j \in 1 .. Len(Tail(q))
        PROVE  IF j < i - 1 THEN Tail(q)[j].op \in {"set", "clear"} ELSE Tail(q)[j].tok = 0
    BY <1>1, <1>2, <1>4
  <2>3. Emptied(Head(q).tok, Tail(q))
    BY <2>1, <2>2 DEF Emptied
  <2>4. Head(q).op \in {"set", "clear"}
    BY <1>1, <1>2, <1>4
  <2>5. QED
    BY <2>3, <2>4
<1>5. QED
  BY <1>1, <1>3, <1>4


(* The other queues.                                                       *)
LEMMA Appended ==
  ASSUME NEW S, NEW q \in Seq(S), NEW m \in S
  PROVE  /\ Append(q, m) \in Seq(S)
         /\ q # <<>> => Tail(q) \in Seq(S) /\ Head(q) \in S
  OBVIOUS

LEMMA MuteQueues ==
  ASSUME NEW q \in Seq(Script), Mute(q)
  PROVE  /\ \A m \in Script : m.tok = 0 => Mute(Append(q, m))
         /\ q # <<>> => Head(q).tok = 0 /\ Mute(Tail(q))
  BY DEF Mute

LEMMA DrainedQueues ==
  ASSUME NEW s, NEW q \in Seq(Held)
  PROVE  /\ Drained(s, Append(q, 0))
         /\ q # <<>> /\ Drained(s, q) => Drained(Head(q), Tail(q))
<1>1. Drained(s, Append(q, 0))
  BY DEF Drained
<1>2. ASSUME q # <<>>, Drained(s, q)
      PROVE  Drained(Head(q), Tail(q))
  <2>1. /\ q[Len(q)] = 0 /\ Len(q) \in Nat \ {0} /\ Head(q) = q[1]
        /\ Tail(q) \in Seq(Held) /\ Len(Tail(q)) = Len(q) - 1
        /\ \A j \in 1 .. Len(q) - 1 : Tail(q)[j] = q[j + 1]
    BY <1>2 DEF Drained
  <2>2. CASE Tail(q) = <<>>
    <3>1. Len(q) = 1
      BY <2>1, <2>2
    <3>2. QED
      BY <2>1, <2>2, <3>1 DEF Drained
  <2>3. CASE Tail(q) # <<>>
    <3>1. Len(Tail(q)) \in 1 .. Len(q) - 1
      BY <2>1, <2>3
    <3>2. Tail(q)[Len(Tail(q))] = 0
      BY <2>1, <3>1
    <3>3. QED
      BY <2>3, <3>2 DEF Drained
  <2>4. QED
    BY <2>2, <2>3
<1>3. QED
  BY <1>1, <1>2

LEMMA Words ==
  /\ Clear \in Message /\ [op |-> "get", tok |-> 0] \in Message
  /\ [op |-> "loaded", tok |-> 0] \in Message /\ Read \in Script
  /\ \A n \in Held : /\ Set(n) \in Message /\ [op |-> "snap", tok |-> n] \in Message
                     /\ Inject(n) \in Script /\ [op |-> "give", tok |-> n] \in Script
  /\ 0 \in Held
  BY AuthAssumption DEF Clear, Read, Set, Inject, Message, Script, Held

(* What a page is given when it opens.                                     *)
LEMMA Opened ==
  \A n \in Held : (IF n # 0 THEN <<Inject(n)>> ELSE <<>>) \o <<Read>> \in Seq(Script)
<1>1. ASSUME NEW n \in Held
      PROVE  (IF n # 0 THEN <<Inject(n)>> ELSE <<>>) \o <<Read>> \in Seq(Script)
  <2>1. <<Inject(n)>> \in Seq(Script) /\ <<>> \in Seq(Script) /\ <<Read>> \in Seq(Script)
    <3>1. Inject(n) \in Script /\ Read \in Script
      BY Words
    <3>2. \A m \in Script : <<m>> \in Seq(Script)
      OBVIOUS
    <3>3. QED
      BY <3>1, <3>2
  <2>2. QED
    BY <2>1
<1>2. QED
  BY <1>1

-----------------------------------------------------------------------------
(* What a step does to the requests                                        *)

LEMMA Moved ==
  ASSUME TypeOK, NEW e \in Flights, NEW a \in Stages, Move(e, a)
  PROVE  /\ flight' \in [Flights -> FlightType]
         /\ \A g \in Flights :
              /\ flight'[g].by = flight[g].by /\ flight'[g].new = flight[g].new
              /\ flight'[g].at = IF g = e THEN a ELSE flight[g].at
<1>1. flight \in [Flights -> FlightType] /\ flight[e] \in FlightType
  BY DEF TypeOK
<1>2. [flight[e] EXCEPT !.at = a] \in FlightType
  BY <1>1 DEF FlightType
<1>3. flight' = [flight EXCEPT ![e] = [flight[e] EXCEPT !.at = a]]
  BY DEF Move
<1>4. \A g \in Flights : flight'[g] = IF g = e THEN [flight[e] EXCEPT !.at = a] ELSE flight[g]
  BY <1>1, <1>3
<1>5. flight' \in [Flights -> FlightType]
  BY <1>1, <1>2, <1>3
<1>6. QED
  BY <1>1, <1>4, <1>5 DEF FlightType

LEMMA Departed ==
  ASSUME TypeOK, NEW t \in Processes, NEW n \in Held, Depart(t, n)
  PROVE  /\ flight' \in [Flights -> FlightType]
         /\ promise' \in [Processes -> 0 .. MaxFlights]
         /\ \A q \in Processes \ {t} : promise'[q] = promise[q]
         /\ causes' \in {causes, causes \cup {"two processes"}}
         /\ \E e \in Flights :
              /\ promise'[t] = e
              /\ flight'[e].by = t /\ flight'[e].at = "sent" /\ flight'[e].new = 0
              /\ \A g \in Flights \ {e} : flight'[g] = flight[g]
<1>1. PICK e \in Flights :
        /\ flight' = [flight EXCEPT ![e] = [by |-> t, tok |-> n, at |-> "sent", new |-> 0]]
        /\ promise' = [promise EXCEPT ![t] = e]
  BY DEF Depart
<1>2. [by |-> t, tok |-> n, at |-> "sent", new |-> 0] \in FlightType
  BY Words DEF FlightType, Stages
<1>3. flight \in [Flights -> FlightType] /\ promise \in [Processes -> 0 .. MaxFlights]
  BY DEF TypeOK
<1>4. e \in 0 .. MaxFlights
  BY AuthAssumption DEF Flights
<1>5. causes' \in {causes, causes \cup {"two processes"}}
  BY DEF Depart
<1>6. QED
  BY <1>1, <1>2, <1>3, <1>4, <1>5

LEMMA Abandoned ==
  ASSUME TypeOK, NEW P, Abandon(P)
  PROVE  /\ flight' \in [Flights -> FlightType]
         /\ \A g \in Flights :
              /\ flight'[g].by = flight[g].by /\ flight'[g].new = flight[g].new
              /\ flight'[g].tok = flight[g].tok
              /\ flight'[g].at = IF flight[g].by \in P /\ (Under(g) \/ At(g, "saving"))
                                 THEN IF At(g, "sent") THEN "gone" ELSE "done"
                                 ELSE flight[g].at
<1>1. ASSUME NEW g \in Flights
      PROVE  /\ flight'[g] \in FlightType
             /\ flight'[g].by = flight[g].by /\ flight'[g].new = flight[g].new
             /\ flight'[g].tok = flight[g].tok
             /\ flight'[g].at = IF flight[g].by \in P /\ (Under(g) \/ At(g, "saving"))
                                THEN IF At(g, "sent") THEN "gone" ELSE "done"
                                ELSE flight[g].at
  <2>1. flight[g] \in FlightType
    BY DEF TypeOK
  <2>2. flight'[g] = IF flight[g].by \in P /\ (Under(g) \/ At(g, "saving"))
                     THEN [flight[g] EXCEPT !.at = IF @ = "sent" THEN "gone" ELSE "done"]
                     ELSE flight[g]
    BY DEF Abandon
  <2>3. QED
    BY <2>1, <2>2 DEF FlightType, Stages, At
<1>2. flight' \in [Flights -> FlightType]
  BY <1>1 DEF Abandon
<1>3. QED
  BY <1>1, <1>2

-----------------------------------------------------------------------------
(* Each step keeps the types and the invariant.                            *)

LEMMA AskStep ==
  ASSUME TypeOK, Inv, NEW t \in Tabs, NEW isApi \in BOOLEAN, Ask(t, isApi)
  PROVE  TypeOK' /\ Inv'
<1>1. /\ flight' \in [Flights -> FlightType]
      /\ promise' \in [Processes -> 0 .. MaxFlights]
      /\ promise'[Main] = promise[Main]
      /\ causes' \in {causes, causes \cup {"two processes"}}
      /\ \/ UNCHANGED flight
         \/ \E e \in Flights :
              /\ flight'[e].by = t /\ flight'[e].at = "sent" /\ flight'[e].new = 0
              /\ \A g \in Flights \ {e} : flight'[g] = flight[g]
  <2>1. t \in Processes /\ Main \in Processes \ {t} /\ page \in Held
    <3>1. page \in Held /\ t \in 1 .. 2
      BY DEF TypeOK, Tabs
    <3>2. QED
      BY <3>1 DEF Main, Processes
  <2>2. CASE promise[t] = 0
    <3>1. Depart(t, page)
      BY <2>2 DEF Ask
    <3>2. QED
      BY <2>1, <3>1, Departed
  <2>3. CASE promise[t] # 0
    BY <2>3 DEF Ask, TypeOK
  <2>4. QED
    BY <2>2, <2>3
<1>2. promise' \in [Processes -> 0 .. MaxFlights] /\ caller' \in [Processes -> BOOLEAN]
  BY <1>1, AuthAssumption DEF Ask, Land, TypeOK
<1>3. causes' \subseteq Causes
  BY <1>1 DEF Causes, TypeOK
<1>4. TypeOK'
  BY <1>1, <1>3 DEF TypeOK, Tabs, Ask, server, shell
<1>5. Places'
  BY DEF Inv, Places, Ask, shell
<1>6. MainFirst'
  <2>1. UNCHANGED <<app, starting>> /\ t # Main
    <3>1. t \in 1 .. 2
      BY DEF Tabs
    <3>2. QED
      BY <3>1 DEF Ask, shell, Main
  <2>2. ASSUME NEW g \in Flights, (flight[g].by = Main /\ Under(g))'
        PROVE  flight[g].by = Main /\ Under(g)
    BY <1>1, <2>1, <2>2 DEF Under
  <2>3. QED
    BY <1>1, <2>1, <2>2 DEF MainFirst, Inv
<1>7. Answers'
  BY <1>1 DEF Inv, Answers, At, Ask
<1>8. KeepsThroughBlip'
  BY DEF KeepsThroughBlip, Ask
<1>9. Silence'
  BY <1>1 DEF Inv, Silence, SignedOut, Ask
<1>10. QED
  BY <1>4, <1>5, <1>6, <1>7, <1>8, <1>9 DEF Inv

LEMMA RotateStep ==
  ASSUME TypeOK, Inv, NEW e \in Flights, Rotate(e)
  PROVE  TypeOK' /\ Inv'
<1>1. /\ flight' \in [Flights -> FlightType]
      /\ \A g \in Flights :
           /\ flight'[g].by = flight[g].by /\ (g # e => flight'[g] = flight[g])
      /\ At(e, "sent") => flight'[e].at = "ok" /\ flight'[e].new = issued + 1
      /\ ~At(e, "sent") => flight'[e].at = "done" /\ flight'[e].new = flight[e].new
  <2>1. flight \in [Flights -> FlightType] /\ flight[e] \in FlightType /\ issued + 1 \in Held
    BY AuthAssumption DEF TypeOK, Rotate, Held
  <2>2. CASE At(e, "sent")
    <3>1. flight' = [flight EXCEPT ![e] = [flight[e] EXCEPT !.at = "ok", !.new = issued + 1]]
      BY <2>2 DEF Rotate
    <3>2. [flight[e] EXCEPT !.at = "ok", !.new = issued + 1] \in FlightType
      BY <2>1 DEF FlightType, Stages
    <3>3. \A g \in Flights : flight'[g] =
            IF g = e THEN [flight[e] EXCEPT !.at = "ok", !.new = issued + 1] ELSE flight[g]
      BY <2>1, <3>1
    <3>4. flight' \in [Flights -> FlightType]
      BY <2>1, <3>1, <3>2
    <3>5. QED
      BY <2>1, <2>2, <3>3, <3>4 DEF FlightType
  <2>3. CASE ~At(e, "sent")
    <3>1. Move(e, "done")
      BY <2>3 DEF Rotate
    <3>2. \A g \in Flights : g # e => flight'[g] = flight[g]
      BY <2>1, <3>1 DEF Move
    <3>3. QED
      BY <2>3, <3>1, <3>2, Moved DEF Stages
  <2>4. QED
    BY <2>2, <2>3
<1>2. causes' \in {causes, causes \cup {"lost"}}
  BY DEF Rotate
<1>3. causes' \subseteq Causes
  BY <1>2 DEF Causes, TypeOK
<1>4. TypeOK'
  BY <1>1, <1>3, AuthAssumption DEF TypeOK, Held, Tabs, Rotate, shell
<1>5. Places'
  BY DEF Inv, Places, Rotate, shell
<1>6. MainFirst'
  BY <1>1 DEF Inv, MainFirst, At, Under, Rotate, shell
<1>7. Answers'
  <2>1. issued + 1 # 0 /\ UNCHANGED refused
    BY AuthAssumption DEF Rotate, TypeOK, Held
  <2>2. QED
    BY <1>1, <2>1 DEF Answers, Inv, At
<1>8. KeepsThroughBlip'
  BY DEF Inv, KeepsThroughBlip, Rotate
<1>9. Silence'
  BY DEF Inv, Silence, SignedOut, Late, Rotate
<1>10. QED
  BY <1>4, <1>5, <1>6, <1>7, <1>8, <1>9 DEF Inv

LEMMA ReuseStep ==
  ASSUME TypeOK, Inv, NEW e \in Flights, Reuse(e)
  PROVE  TypeOK' /\ Inv'
<1>1. /\ flight' \in [Flights -> FlightType]
      /\ \A g \in Flights :
           /\ flight'[g].by = flight[g].by /\ flight'[g].new = flight[g].new
           /\ flight'[g].at = IF g = e THEN IF At(e, "sent") THEN "refused" ELSE "done" ELSE flight[g].at
  <2>1. CASE At(e, "sent")
    BY <2>1, Moved DEF Reuse, Stages
  <2>2. CASE ~At(e, "sent")
    BY <2>2, Moved DEF Reuse, Stages
  <2>3. QED
    BY <2>1, <2>2
<1>2. TypeOK'
  BY <1>1, Words DEF TypeOK, Tabs, Reuse, shell
<1>3. Places'
  BY DEF Inv, Places, Reuse, shell
<1>4. MainFirst'
  BY <1>1 DEF Inv, MainFirst, At, Under, Reuse, shell
<1>5. Answers'
  BY <1>1 DEF Inv, Answers, At, Reuse
<1>6. KeepsThroughBlip'
  BY DEF Inv, KeepsThroughBlip, Reuse
<1>7. Silence'
  BY DEF Inv, Silence, SignedOut, Late, Reuse
<1>8. QED
  BY <1>2, <1>3, <1>4, <1>5, <1>6, <1>7 DEF Inv

LEMMA TurnAwayStep ==
  ASSUME TypeOK, Inv, NEW e \in Flights, TurnAway(e)
  PROVE  TypeOK' /\ Inv'
<1>1. /\ flight' \in [Flights -> FlightType]
      /\ \A g \in Flights :
           /\ flight'[g].by = flight[g].by /\ flight'[g].new = flight[g].new
           /\ flight'[g].at = IF g = e THEN "refused" ELSE flight[g].at
  BY Moved DEF TurnAway, Stages
<1>2. TypeOK'
  BY <1>1 DEF TypeOK, Tabs, TurnAway, shell, server, Causes
<1>3. Places'
  BY DEF Inv, Places, TurnAway, shell
<1>4. MainFirst'
  BY <1>1 DEF Inv, MainFirst, At, Under, TurnAway, shell
<1>5. Answers'
  BY <1>1 DEF Inv, Answers, At, TurnAway
<1>6. KeepsThroughBlip'
  BY DEF KeepsThroughBlip, TurnAway
<1>7. Silence'
  BY DEF Inv, Silence, SignedOut, Late, TurnAway, At
<1>8. QED
  BY <1>2, <1>3, <1>4, <1>5, <1>6, <1>7 DEF Inv

LEMMA BlipStep ==
  ASSUME TypeOK, Inv, NEW e \in Flights, Blip(e)
  PROVE  TypeOK' /\ Inv'
<1>1. /\ flight' \in [Flights -> FlightType]
      /\ \A g \in Flights :
           /\ flight'[g].by = flight[g].by /\ (g # e => flight'[g] = flight[g])
      /\ flight'[e].at \in {"failed", "bad"} /\ flight'[e].new = 0
  <2>1. PICK a \in {"failed", "bad"} :
          flight' = [flight EXCEPT ![e] = [flight[e] EXCEPT !.at = a, !.new = 0]]
    BY DEF Blip
  <2>2. flight \in [Flights -> FlightType] /\ flight[e] \in FlightType
    BY DEF TypeOK
  <2>3. [flight[e] EXCEPT !.at = a, !.new = 0] \in FlightType
    BY <2>2, Words DEF FlightType, Stages
  <2>4. \A g \in Flights : flight'[g] =
          IF g = e THEN [flight[e] EXCEPT !.at = a, !.new = 0] ELSE flight[g]
    BY <2>1, <2>2
  <2>5. flight' \in [Flights -> FlightType]
    BY <2>1, <2>2, <2>3
  <2>6. QED
    BY <2>2, <2>4, <2>5 DEF FlightType
<1>2. causes' \in {causes, causes \cup {"lost"}}
  BY DEF Blip
<1>3. causes' \subseteq Causes
  BY <1>2 DEF Causes, TypeOK
<1>4. TypeOK'
  BY <1>1, <1>3 DEF TypeOK, Tabs, Blip, server, shell
<1>5. Places'
  BY DEF Inv, Places, Blip, shell
<1>6. MainFirst'
  BY <1>1 DEF Inv, MainFirst, Under, Blip, shell
<1>7. Answers'
  BY <1>1 DEF Inv, Answers, At, Blip
<1>8. KeepsThroughBlip'
  BY DEF Inv, KeepsThroughBlip, Blip
<1>9. Silence'
  BY DEF Inv, Silence, SignedOut, Late, Blip
<1>10. QED
  BY <1>4, <1>5, <1>6, <1>7, <1>8, <1>9 DEF Inv

LEMMA WebReplyStep ==
  ASSUME TypeOK, Inv, NEW e \in Flights, WebReply(e)
  PROVE  TypeOK' /\ Inv'
<1>1. /\ flight' \in [Flights -> FlightType]
      /\ \A g \in Flights :
           /\ flight'[g].by = flight[g].by /\ flight'[g].new = flight[g].new
           /\ flight'[g].at = IF g = e THEN "done" ELSE flight[g].at
  BY Moved DEF WebReply, Stages
<1>2. flight[e].by \in Processes /\ flight[e].new \in Held
  BY DEF TypeOK, FlightType
<1>3. UNCHANGED toMain \/ \E m \in Message : toMain' = Append(toMain, m)
  BY <1>2, Words DEF WebReply, setTokens, clearToken, Tell
<1>4. writes \in Seq(Held) /\ toMain \in Seq(Message) /\ toPage \in Seq(Script)
  BY DEF TypeOK
<1>5. writes' \in Seq(Held) /\ toMain' \in Seq(Message) /\ toPage' \in Seq(Script)
  BY <1>4, <1>3, Appended DEF WebReply
<1>6. promise' \in [Processes -> 0 .. MaxFlights] /\ caller' \in [Processes -> BOOLEAN]
  BY <1>2, AuthAssumption DEF WebReply, Land, TypeOK
<1>7. TypeOK'
  BY <1>1, <1>2, <1>5, <1>6, Words DEF TypeOK, Tabs, WebReply, setTokens, clearToken, server, history
<1>8. Places'
  BY DEF Inv, Places, WebReply, setTokens, clearToken, Tell
<1>9. MainFirst'
  BY <1>1 DEF Inv, MainFirst, Under, WebReply, Land
<1>10. Answers'
  BY <1>1 DEF Inv, Answers, At, WebReply, history
<1>11. KeepsThroughBlip'
  BY DEF Inv, KeepsThroughBlip, Answers, WebReply, setTokens, history
<1>12. Silence'
  <2>. SUFFICES ASSUME SignedOut'
       PROVE  /\ page' = 0 /\ ~starting'
              /\ \A f \in Flights : flight'[f].at \notin Late
              /\ Mute(toPage')
              /\ app' = "mobile" => Drained(saved', writes')
              /\ app' = "desktop" => Emptied(saved', toMain')
    BY DEF Silence
  <2>1. /\ page = 0 /\ ~starting /\ \A f \in Flights : flight[f].at \notin Late
        /\ Mute(toPage)
        /\ app = "mobile" => Drained(saved, writes)
        /\ app = "desktop" => Emptied(saved, toMain)
    BY DEF Inv, Silence, SignedOut, WebReply, history
  <2>2. flight[e].at \in {"refused", "bad", "failed"} /\ ~At(e, "ok")
    BY <2>1 DEF WebReply, Late, At
  <2>3. page' = 0 /\ ~starting'
    BY <2>1, <2>2 DEF WebReply, clearToken
  <2>4. \A f \in Flights : flight'[f].at \notin Late
    BY <1>1, <2>1 DEF Late
  <2>5. Mute(toPage')
    BY <2>1 DEF WebReply, server, shell
  <2>6. app' = "mobile" => Drained(saved', writes')
    BY DEF WebReply
  <2>7. app' = "desktop" => Emptied(saved', toMain')
    BY <2>1, <2>2, <1>4, Words, EmptiedAppend DEF WebReply, clearToken, Tell, Clear
  <2>8. QED
    BY <2>3, <2>4, <2>5, <2>6, <2>7
<1>13. QED
  BY <1>7, <1>8, <1>9, <1>10, <1>11, <1>12 DEF Inv

LEMMA MobileReplyStep ==
  ASSUME TypeOK, Inv, NEW e \in Flights, MobileReply(e)
  PROVE  TypeOK' /\ Inv'
<1>1. /\ flight' \in [Flights -> FlightType]
      /\ \A g \in Flights :
           /\ flight'[g].by = flight[g].by /\ flight'[g].new = flight[g].new
           /\ g # e => flight'[g].at = flight[g].at
           /\ flight'[e].at = IF At(e, "failed") /\ ~caller[1] THEN "done" ELSE "saving"
  <2>1. CASE At(e, "failed") /\ ~caller[1]
    BY <2>1, Moved DEF MobileReply, Stages
  <2>2. CASE ~(At(e, "failed") /\ ~caller[1])
    BY <2>2, Moved DEF MobileReply, Stages
  <2>3. QED
    BY <2>1, <2>2
<1>2. flight[e].by \in Processes /\ flight[e].new \in Held
  BY DEF TypeOK, FlightType
<1>3. UNCHANGED writes \/ writes' = Append(writes, flight[e].new)
  BY DEF MobileReply
<1>4. writes \in Seq(Held) /\ toMain \in Seq(Message) /\ toPage \in Seq(Script)
  BY DEF TypeOK
<1>5. writes' \in Seq(Held) /\ toMain' \in Seq(Message) /\ toPage' \in Seq(Script)
  BY <1>4, <1>2, Appended DEF MobileReply, shell
<1>6. promise' \in [Processes -> 0 .. MaxFlights] /\ caller' \in [Processes -> BOOLEAN]
  <2>1. CASE At(e, "failed") /\ ~caller[1]
    <3>1. /\ promise' = [promise EXCEPT ![flight[e].by] = 0]
          /\ caller' = [caller EXCEPT ![flight[e].by] = FALSE]
      BY <2>1 DEF MobileReply, Land
    <3>2. 0 \in 0 .. MaxFlights
      BY AuthAssumption
    <3>3. QED
      BY <3>1, <3>2, <1>2 DEF TypeOK
  <2>2. CASE ~(At(e, "failed") /\ ~caller[1])
    BY <2>2 DEF MobileReply, TypeOK
  <2>3. QED
    BY <2>1, <2>2
<1>7. TypeOK'
  BY <1>1, <1>5, <1>6 DEF TypeOK, Tabs, MobileReply, server, shell, history
<1>8. Places'
  BY DEF Inv, Places, MobileReply, shell
<1>9. MainFirst'
  BY <1>1 DEF Inv, MainFirst, Under, MobileReply
<1>10. Answers'
  BY <1>1 DEF Inv, Answers, At, MobileReply, history
<1>11. KeepsThroughBlip'
  BY DEF KeepsThroughBlip, MobileReply
<1>12. Silence'
  <2>. SUFFICES ASSUME SignedOut'
       PROVE  /\ page' = 0 /\ ~starting'
              /\ \A f \in Flights : flight'[f].at \notin Late
              /\ Mute(toPage')
              /\ app' = "mobile" => Drained(saved', writes')
              /\ app' = "desktop" => Emptied(saved', toMain')
    BY DEF Silence
  <2>1. /\ page = 0 /\ ~starting /\ \A f \in Flights : flight[f].at \notin Late
        /\ Mute(toPage)
        /\ app = "mobile" => Drained(saved, writes)
        /\ app = "desktop" => Emptied(saved, toMain)
    BY DEF Inv, Silence, SignedOut, MobileReply, history
  <2>2. flight[e].new = 0
    BY <2>1 DEF MobileReply, Late, Answers, Inv
  <2>3. page' = 0 /\ ~starting'
    BY <2>1, <2>2 DEF MobileReply, shell
  <2>4. \A f \in Flights : flight'[f].at \notin Late
    BY <1>1, <2>1 DEF Late
  <2>5. Mute(toPage')
    BY <2>1 DEF MobileReply, server, shell
  <2>6. app' = "mobile" => Drained(saved', writes')
    BY <2>1, <2>2, <1>4, DrainedQueues DEF MobileReply
  <2>7. app' = "desktop" => Emptied(saved', toMain')
    BY DEF MobileReply
  <2>8. QED
    BY <2>3, <2>4, <2>5, <2>6, <2>7
<1>13. QED
  BY <1>7, <1>8, <1>9, <1>10, <1>11, <1>12 DEF Inv

LEMMA WriteStep ==
  ASSUME TypeOK, Inv, Write
  PROVE  TypeOK' /\ Inv'
<1>1. /\ flight' \in [Flights -> FlightType]
      /\ \A g \in Flights :
           /\ flight'[g].by = flight[g].by /\ flight'[g].new = flight[g].new
           /\ flight'[g].at # flight[g].at => At(g, "saving") /\ flight'[g].at = "done"
  <2>1. flight \in [Flights -> FlightType]
    BY DEF TypeOK
  <2>2. CASE Len(writes) = 1
    <3>1. \A g \in Flights : flight'[g] =
            IF At(g, "saving") THEN [flight[g] EXCEPT !.at = "done"] ELSE flight[g]
      BY <2>2 DEF Write
    <3>2. \A g \in Flights : flight'[g] \in FlightType
      BY <2>1, <3>1 DEF FlightType, Stages
    <3>3. flight' \in [Flights -> FlightType]
      BY <2>2, <3>2 DEF Write
    <3>4. QED
      BY <2>1, <3>1, <3>3 DEF FlightType
  <2>3. CASE Len(writes) # 1
    BY <2>1, <2>3 DEF Write
  <2>4. QED
    BY <2>2, <2>3
<1>2. writes # <<>> /\ writes' = Tail(writes)
  BY DEF Write
<1>3. writes \in Seq(Held) /\ toMain \in Seq(Message) /\ toPage \in Seq(Script)
  BY DEF TypeOK
<1>4. writes' \in Seq(Held) /\ toMain' \in Seq(Message) /\ toPage' \in Seq(Script)
  BY <1>3 DEF Write, shell
<1>5. promise' \in [Processes -> 0 .. MaxFlights] /\ caller' \in [Processes -> BOOLEAN]
  <2>1. 0 \in 0 .. MaxFlights
    BY AuthAssumption
  <2>2. promise' \in {promise, [promise EXCEPT ![1] = 0]}
    BY DEF Write
  <2>3. caller' \in {caller, [caller EXCEPT ![1] = FALSE]}
    BY DEF Write
  <2>4. QED
    BY <2>1, <2>2, <2>3 DEF TypeOK
<1>6. TypeOK'
  BY <1>1, <1>5 DEF TypeOK, Tabs, Write, server, shell, history
<1>7. Places'
  BY DEF Inv, Places, Write, shell
<1>8. MainFirst'
  BY <1>1 DEF Inv, Places, MainFirst, Under, Write
<1>9. Answers'
  BY <1>1 DEF Inv, Answers, At, Write, history
<1>10. KeepsThroughBlip'
  BY DEF Inv, Places, KeepsThroughBlip, Write
<1>11. Silence'
  BY <1>1, <1>3, DrainedQueues DEF Inv, Places, Silence, SignedOut, Late, Write, shell, history
<1>12. QED
  BY <1>6, <1>7, <1>8, <1>9, <1>10, <1>11 DEF Inv

LEMMA LogoutPostStep ==
  ASSUME TypeOK, Inv, LogoutPost
  PROVE  TypeOK' /\ Inv'
<1>1. causes' \in {causes, causes \cup {"crossed"}}
  BY DEF LogoutPost, Crossing
<1>2. causes' \subseteq Causes
  BY <1>1 DEF Causes, TypeOK
<1>3. TypeOK'
  BY <1>2, Words DEF TypeOK, Tabs, LogoutPost, shell
<1>4. Places'
  BY DEF Inv, Places, LogoutPost, shell
<1>5. MainFirst'
  BY DEF Inv, MainFirst, Under, LogoutPost
<1>6. Answers'
  BY DEF Inv, Answers, At, LogoutPost
<1>7. KeepsThroughBlip'
  BY DEF KeepsThroughBlip, LogoutPost
<1>8. Silence'
  BY <1>1 DEF Inv, Silence, SignedOut, LogoutPost
<1>9. QED
  BY <1>3, <1>4, <1>5, <1>6, <1>7, <1>8 DEF Inv

LEMMA webLogoutStep ==
  ASSUME TypeOK, Inv, webLogout
  PROVE  TypeOK' /\ Inv'
<1>1. UNCHANGED toMain \/ toMain' = Append(toMain, Clear)
  BY DEF webLogout, clearToken, Tell
<1>2. writes \in Seq(Held) /\ toMain \in Seq(Message) /\ toPage \in Seq(Script)
  BY DEF TypeOK
<1>3. writes' \in Seq(Held) /\ toMain' \in Seq(Message) /\ toPage' \in Seq(Script)
  BY <1>2, <1>1, Words, Appended DEF webLogout
<1>4. causes' \in {causes, causes \cup {"crossed"}}
  BY DEF webLogout, Crossing
<1>5. causes' \subseteq Causes
  BY <1>4 DEF Causes, TypeOK
<1>6. TypeOK'
  BY <1>3, <1>5, Words DEF TypeOK, Tabs, webLogout, clearToken, server
<1>7. Places'
  BY DEF Inv, Places, webLogout, clearToken, Tell
<1>8. MainFirst'
  BY DEF Inv, MainFirst, Under, webLogout
<1>9. Answers'
  BY DEF Inv, Answers, At, webLogout
<1>10. KeepsThroughBlip'
  BY DEF KeepsThroughBlip, webLogout
<1>11. Silence'
  <2>. SUFFICES ASSUME SignedOut'
       PROVE  /\ page' = 0 /\ ~starting'
              /\ \A f \in Flights : flight'[f].at \notin Late
              /\ Mute(toPage')
              /\ app' = "mobile" => Drained(saved', writes')
              /\ app' = "desktop" => Emptied(saved', toMain')
    BY DEF Silence
  <2>1. /\ \A f \in Flights : flight[f].at \notin Late
        /\ toPage = <<>> /\ \A i \in 1 .. Len(toMain) : toMain[i].op \notin {"snap", "get", "loaded"}
    <3>1. ~Busy
      BY DEF SignedOut, webLogout, Crossing
    <3>2. QED
      BY <3>1 DEF Busy, Late
  <2>2. \A i \in 1 .. Len(toMain) : toMain[i].op \in {"set", "clear"}
    BY <2>1, <1>2 DEF Message
  <2>3. page' = 0 /\ ~starting'
    BY DEF webLogout, clearToken
  <2>4. \A f \in Flights : flight'[f].at \notin Late
    BY <2>1 DEF webLogout
  <2>5. Mute(toPage')
    BY <2>1 DEF webLogout, Mute
  <2>6. app' = "mobile" => Drained(saved', writes')
    BY DEF webLogout
  <2>7. app' = "desktop" => Emptied(saved', toMain')
    BY <2>2, <1>2, EmptiedClear DEF webLogout, clearToken, Tell
  <2>8. QED
    BY <2>3, <2>4, <2>5, <2>6, <2>7
<1>12. QED
  BY <1>6, <1>7, <1>8, <1>9, <1>10, <1>11 DEF Inv

LEMMA mobileSignOutStep ==
  ASSUME TypeOK, Inv, mobileSignOut
  PROVE  TypeOK' /\ Inv'
<1>1. writes' = Append(writes, 0)
  BY DEF mobileSignOut
<1>2. writes \in Seq(Held) /\ toMain \in Seq(Message) /\ toPage \in Seq(Script)
  BY DEF TypeOK
<1>3. writes' \in Seq(Held) /\ toMain' \in Seq(Message) /\ toPage' \in Seq(Script)
  BY <1>2, Words DEF mobileSignOut, shell
<1>4. causes' \in {causes, causes \cup {"crossed"}}
  BY DEF mobileSignOut, Crossing
<1>5. causes' \subseteq Causes
  BY <1>4 DEF Causes, TypeOK
<1>6. TypeOK'
  BY <1>3, <1>5 DEF TypeOK, Tabs, mobileSignOut, server, shell
<1>7. Places'
  BY DEF Inv, Places, mobileSignOut, shell
<1>8. MainFirst'
  BY DEF Inv, MainFirst, Under, mobileSignOut
<1>9. Answers'
  BY DEF Inv, Answers, At, mobileSignOut
<1>10. KeepsThroughBlip'
  BY DEF KeepsThroughBlip, mobileSignOut
<1>11. Silence'
  <2>. SUFFICES ASSUME SignedOut'
       PROVE  /\ page' = 0 /\ ~starting'
              /\ \A f \in Flights : flight'[f].at \notin Late
              /\ Mute(toPage')
              /\ app' = "mobile" => Drained(saved', writes')
              /\ app' = "desktop" => Emptied(saved', toMain')
    BY DEF Silence
  <2>1. /\ \A f \in Flights : flight[f].at \notin Late
        /\ toPage = <<>> /\ \A i \in 1 .. Len(toMain) : toMain[i].op \notin {"snap", "get", "loaded"}
    <3>1. ~Busy
      BY DEF SignedOut, mobileSignOut, Crossing
    <3>2. QED
      BY <3>1 DEF Busy, Late
  <2>3. page' = 0 /\ ~starting'
    BY DEF mobileSignOut, shell
  <2>4. \A f \in Flights : flight'[f].at \notin Late
    BY <2>1 DEF mobileSignOut
  <2>5. Mute(toPage')
    BY <2>1 DEF mobileSignOut, shell, Mute
  <2>6. app' = "mobile" => Drained(saved', writes')
    BY <1>1, <1>2, DrainedQueues
  <2>7. app' = "desktop" => Emptied(saved', toMain')
    BY DEF mobileSignOut
  <2>8. QED
    BY <2>3, <2>4, <2>5, <2>6, <2>7
<1>12. QED
  BY <1>6, <1>7, <1>8, <1>9, <1>10, <1>11 DEF Inv

LEMMA SignInStep ==
  ASSUME TypeOK, Inv, SignIn
  PROVE  TypeOK' /\ Inv'
<1>1. /\ issued \in Nat /\ issued + 1 \in Held
      /\ UNCHANGED writes \/ writes' = Append(writes, issued + 1)
      /\ UNCHANGED toMain \/ toMain' = Append(toMain, Set(issued + 1))
  BY AuthAssumption DEF SignIn, setTokens, Tell, TypeOK, Held
<1>2. writes \in Seq(Held) /\ toMain \in Seq(Message) /\ toPage \in Seq(Script)
  BY DEF TypeOK
<1>3. writes' \in Seq(Held) /\ toMain' \in Seq(Message) /\ toPage' \in Seq(Script)
  BY <1>2, <1>1, Words, Appended DEF SignIn
<1>4. causes' \in {causes, causes \cup {"crossed"}}
  BY DEF SignIn, Crossing
<1>5. causes' \subseteq Causes
  BY <1>4 DEF Causes, TypeOK
<1>6. TypeOK'
  <2>1. /\ good' \in Held /\ issued' \in Held /\ page' \in Held /\ out' = FALSE
        /\ UNCHANGED <<app, saved, flight, promise, caller, starting, kicked, restarts,
                       refused, killed>>
    BY <1>1 DEF SignIn, setTokens
  <2>2. QED
    BY <2>1, <1>3, <1>5 DEF TypeOK, Tabs
<1>7. Places'
  BY DEF Inv, Places, SignIn, setTokens, Tell
<1>8. MainFirst'
  BY DEF Inv, MainFirst, Under, SignIn
<1>9. Answers'
  BY DEF Inv, Answers, At, SignIn
<1>10. KeepsThroughBlip'
  BY <1>1 DEF KeepsThroughBlip, SignIn, setTokens
<1>11. Silence'
  BY DEF Silence, SignedOut, SignIn
<1>12. QED
  BY <1>6, <1>7, <1>8, <1>9, <1>10, <1>11 DEF Inv

LEMMA RevokeStep ==
  ASSUME TypeOK, Inv, Revoke
  PROVE  TypeOK' /\ Inv'
<1>1. TypeOK'
  BY Words DEF TypeOK, Tabs, Revoke, shell, history
<1>2. Places'
  BY DEF Inv, Places, Revoke, server, shell, history
<1>3. MainFirst'
  BY DEF Inv, MainFirst, Under, Revoke
<1>4. Answers'
  BY DEF Inv, Answers, At, Revoke, history
<1>5. KeepsThroughBlip'
  BY DEF Inv, KeepsThroughBlip, Revoke, history
<1>6. Silence'
  BY DEF Inv, Silence, SignedOut, Revoke, shell, history
<1>7. QED
  BY <1>1, <1>2, <1>3, <1>4, <1>5, <1>6 DEF Inv

LEMMA webRevokedStep ==
  ASSUME TypeOK, Inv, NEW t \in Tabs, webRevoked(t)
  PROVE  TypeOK' /\ Inv'
<1>1. /\ flight' \in [Flights -> FlightType]
      /\ \A g \in Flights :
           /\ flight'[g].by = flight[g].by /\ flight'[g].new = flight[g].new
           /\ flight'[g].at = IF flight[g].by \in {t} /\ (Under(g) \/ At(g, "saving"))
                              THEN IF At(g, "sent") THEN "gone" ELSE "done"
                              ELSE flight[g].at
  BY Abandoned DEF webRevoked
<1>2. UNCHANGED toMain \/ toMain' = Append(toMain, Clear)
  BY DEF webRevoked, clearToken, Tell
<1>3. writes \in Seq(Held) /\ toMain \in Seq(Message) /\ toPage \in Seq(Script)
  BY DEF TypeOK
<1>4. writes' \in Seq(Held) /\ toMain' \in Seq(Message) /\ toPage' \in Seq(Script)
  BY <1>3, <1>2, Words, Appended DEF webRevoked
<1>5. promise' \in [Processes -> 0 .. MaxFlights] /\ caller' \in [Processes -> BOOLEAN]
  <2>1. 0 \in 0 .. MaxFlights
    BY AuthAssumption
  <2>2. promise' = [promise EXCEPT ![t] = 0] /\ caller' = [caller EXCEPT ![t] = FALSE]
    BY DEF webRevoked
  <2>3. QED
    BY <2>1, <2>2 DEF TypeOK
<1>6. causes' \subseteq causes \cup {"lost", "crossed", "late kick"}
  BY DEF webRevoked, LeftBehind
<1>7. causes' \subseteq Causes
  BY <1>6 DEF Causes, TypeOK
<1>8. TypeOK'
  BY <1>1, <1>4, <1>5, <1>7, Words DEF TypeOK, Tabs, webRevoked, clearToken, server
<1>9. Places'
  BY DEF Inv, Places, webRevoked, clearToken, Tell
<1>10. MainFirst'
  BY <1>1 DEF Inv, MainFirst, Under, webRevoked
<1>11. Answers'
  BY <1>1 DEF Inv, Answers, At, webRevoked
<1>12. KeepsThroughBlip'
  BY DEF KeepsThroughBlip, webRevoked
<1>13. Silence'
  <2>. SUFFICES ASSUME SignedOut'
       PROVE  /\ page' = 0 /\ ~starting'
              /\ \A f \in Flights : flight'[f].at \notin Late
              /\ Mute(toPage')
              /\ app' = "mobile" => Drained(saved', writes')
              /\ app' = "desktop" => Emptied(saved', toMain')
    BY DEF Silence
  <2>1. /\ \A f \in Flights : flight[f].at \notin Late
        /\ toPage = <<>> /\ \A i \in 1 .. Len(toMain) : toMain[i].op \notin {"snap", "get", "loaded"}
    <3>1. ~Busy
      BY DEF SignedOut, webRevoked
    <3>2. QED
      BY <3>1 DEF Busy, Late
  <2>2. \A i \in 1 .. Len(toMain) : toMain[i].op \in {"set", "clear"}
    BY <2>1, <1>3 DEF Message
  <2>3. page' = 0 /\ ~starting'
    BY DEF webRevoked, clearToken
  <2>4. \A f \in Flights : flight'[f].at \notin Late
    BY <1>1, <2>1 DEF Late, At
  <2>5. Mute(toPage')
    <3>1. toPage' = <<>>
      BY <2>1 DEF webRevoked
    <3>2. QED
      BY <3>1 DEF Mute
  <2>6. app' = "mobile" => Drained(saved', writes')
    BY DEF webRevoked
  <2>7. app' = "desktop" => Emptied(saved', toMain')
    BY <2>2, <1>3, EmptiedClear DEF webRevoked, clearToken, Tell
  <2>8. QED
    BY <2>3, <2>4, <2>5, <2>6, <2>7
<1>14. QED
  BY <1>8, <1>9, <1>10, <1>11, <1>12, <1>13 DEF Inv

LEMMA mobileRevokedStep ==
  ASSUME TypeOK, Inv, mobileRevoked
  PROVE  TypeOK' /\ Inv'
<1>1. writes' = Append(writes, 0)
  BY DEF mobileRevoked
<1>2. writes \in Seq(Held) /\ toMain \in Seq(Message) /\ toPage \in Seq(Script)
  BY DEF TypeOK
<1>3. writes' \in Seq(Held) /\ toMain' \in Seq(Message) /\ toPage' \in Seq(Script)
  BY <1>2, Words DEF mobileRevoked, shell
<1>4. causes' \in {causes, causes \cup {"crossed"}}
  BY DEF mobileRevoked, Crossing
<1>5. causes' \subseteq Causes
  BY <1>4 DEF Causes, TypeOK
<1>6. TypeOK'
  BY <1>3, <1>5 DEF TypeOK, mobileRevoked, server, shell
<1>7. Places'
  BY DEF Inv, Places, mobileRevoked, shell
<1>8. MainFirst'
  BY DEF Inv, MainFirst, Under, mobileRevoked
<1>9. Answers'
  BY DEF Inv, Answers, At, mobileRevoked
<1>10. KeepsThroughBlip'
  BY DEF KeepsThroughBlip, mobileRevoked
<1>11. Silence'
  <2>. SUFFICES ASSUME SignedOut'
       PROVE  /\ page' = 0 /\ ~starting'
              /\ \A f \in Flights : flight'[f].at \notin Late
              /\ Mute(toPage')
              /\ app' = "mobile" => Drained(saved', writes')
              /\ app' = "desktop" => Emptied(saved', toMain')
    BY DEF Silence
  <2>1. /\ \A f \in Flights : flight[f].at \notin Late
        /\ toPage = <<>> /\ \A i \in 1 .. Len(toMain) : toMain[i].op \notin {"snap", "get", "loaded"}
    <3>1. ~Busy
      BY DEF SignedOut, mobileRevoked, Crossing
    <3>2. QED
      BY <3>1 DEF Busy, Late
  <2>3. page' = 0 /\ ~starting'
    BY DEF mobileRevoked, shell, Places, Inv
  <2>4. \A f \in Flights : flight'[f].at \notin Late
    BY <2>1 DEF mobileRevoked
  <2>5. Mute(toPage')
    BY <2>1 DEF mobileRevoked, shell, Mute
  <2>6. app' = "mobile" => Drained(saved', writes')
    BY <1>1, <1>2, DrainedQueues
  <2>7. app' = "desktop" => Emptied(saved', toMain')
    BY DEF mobileRevoked
  <2>8. QED
    BY <2>3, <2>4, <2>5, <2>6, <2>7
<1>12. QED
  BY <1>6, <1>7, <1>8, <1>9, <1>10, <1>11 DEF Inv

LEMMA SyncStep ==
  ASSUME TypeOK, Inv, Sync
  PROVE  TypeOK' /\ Inv'
<1>1. toPage' = Append(toPage, Read)
  BY DEF Sync
<1>2. writes \in Seq(Held) /\ toMain \in Seq(Message) /\ toPage \in Seq(Script)
  BY DEF TypeOK
<1>3. writes' \in Seq(Held) /\ toMain' \in Seq(Message) /\ toPage' \in Seq(Script)
  BY <1>2, Words DEF Sync
<1>4. TypeOK'
  BY <1>3 DEF TypeOK, Tabs, Sync, server, history
<1>5. Places'
  BY DEF Inv, Places, Sync
<1>6. MainFirst'
  BY DEF Inv, MainFirst, Under, Sync
<1>7. Answers'
  BY DEF Inv, Answers, At, Sync, history
<1>8. KeepsThroughBlip'
  BY DEF Inv, KeepsThroughBlip, Sync, history
<1>9. Silence'
  <2>. SUFFICES ASSUME SignedOut'
       PROVE  /\ page' = 0 /\ ~starting'
              /\ \A f \in Flights : flight'[f].at \notin Late
              /\ Mute(toPage')
              /\ app' = "mobile" => Drained(saved', writes')
              /\ app' = "desktop" => Emptied(saved', toMain')
    BY DEF Silence
  <2>1. /\ page = 0 /\ ~starting /\ \A f \in Flights : flight[f].at \notin Late
        /\ Mute(toPage)
        /\ app = "mobile" => Drained(saved, writes)
        /\ app = "desktop" => Emptied(saved, toMain)
    BY DEF Inv, Silence, SignedOut, Sync, history
  <2>3. page' = 0 /\ ~starting'
    BY <2>1 DEF Sync, server, shell
  <2>4. \A f \in Flights : flight'[f].at \notin Late
    BY <2>1 DEF Sync, server, shell
  <2>5. Mute(toPage')
    <3>1. Read \in Script /\ Read.tok = 0
      BY Words DEF Read
    <3>2. QED
      BY <2>1, <3>1, <1>1, <1>2, MuteQueues
  <2>6. app' = "mobile" => Drained(saved', writes')
    BY DEF Sync
  <2>7. app' = "desktop" => Emptied(saved', toMain')
    BY <2>1 DEF Sync, server, shell
  <2>8. QED
    BY <2>3, <2>4, <2>5, <2>6, <2>7
<1>10. QED
  BY <1>4, <1>5, <1>6, <1>7, <1>8, <1>9 DEF Inv

LEMMA RestoreStep ==
  ASSUME TypeOK, Inv, Restore
  PROVE  TypeOK' /\ Inv'
<1>1. toMain' = Append(toMain, [op |-> "get", tok |-> 0])
  BY DEF Restore, Tell
<1>2. writes \in Seq(Held) /\ toMain \in Seq(Message) /\ toPage \in Seq(Script)
  BY DEF TypeOK
<1>3. writes' \in Seq(Held) /\ toMain' \in Seq(Message) /\ toPage' \in Seq(Script)
  BY <1>2, <1>1, Words DEF Restore
<1>4. TypeOK'
  BY <1>3 DEF TypeOK, Tabs, Restore, server, history
<1>5. Places'
  BY DEF Inv, Places, Restore
<1>6. MainFirst'
  BY DEF Inv, MainFirst, Under, Restore
<1>7. Answers'
  BY DEF Inv, Answers, At, Restore, history
<1>8. KeepsThroughBlip'
  BY DEF Inv, KeepsThroughBlip, Restore, history
<1>9. Silence'
  BY <1>1, <1>2, Words, EmptiedAppend DEF Inv, Silence, SignedOut, Restore, history
<1>10. QED
  BY <1>4, <1>5, <1>6, <1>7, <1>8, <1>9 DEF Inv

LEMMA RunScriptStep ==
  ASSUME TypeOK, Inv, RunScript
  PROVE  TypeOK' /\ Inv'
<1>1. /\ toPage # <<>> /\ toPage' = Tail(toPage) /\ page \in Held
      /\ UNCHANGED toMain \/ toMain' = Append(toMain, [op |-> "snap", tok |-> page])
  BY DEF RunScript, TypeOK
<1>2. writes \in Seq(Held) /\ toMain \in Seq(Message) /\ toPage \in Seq(Script)
  BY DEF TypeOK
<1>3. writes' \in Seq(Held) /\ toMain' \in Seq(Message) /\ toPage' \in Seq(Script)
  BY <1>2, <1>1, Words, Appended DEF RunScript
<1>4. causes' \in {causes, causes \cup {"overwritten"}}
  BY DEF RunScript
<1>5. causes' \subseteq Causes
  BY <1>4 DEF Causes, TypeOK
<1>6. TypeOK'
  <2>1. /\ page' \in Held
        /\ UNCHANGED <<app, good, issued, saved, flight, promise, caller, starting, kicked,
                       restarts, out, refused, killed>>
    <3>1. Head(toPage) \in Script
      BY <1>1, <1>2, Appended
    <3>2. QED
      BY <1>1, <3>1 DEF RunScript, Script, server
  <2>2. QED
    BY <2>1, <1>3, <1>5 DEF TypeOK, Tabs
<1>7. Places'
  BY DEF Inv, Places, RunScript
<1>8. MainFirst'
  BY DEF Inv, MainFirst, Under, RunScript
<1>9. Answers'
  BY DEF Inv, Answers, At, RunScript
<1>10. KeepsThroughBlip'
  BY DEF Inv, KeepsThroughBlip, RunScript
<1>11. Silence'
  <2>. SUFFICES ASSUME SignedOut'
       PROVE  /\ page' = 0 /\ ~starting'
              /\ \A f \in Flights : flight'[f].at \notin Late
              /\ Mute(toPage')
              /\ app' = "mobile" => Drained(saved', writes')
              /\ app' = "desktop" => Emptied(saved', toMain')
    BY DEF Silence
  <2>1. /\ page = 0 /\ ~starting /\ \A f \in Flights : flight[f].at \notin Late
        /\ Mute(toPage)
        /\ app = "mobile" => Drained(saved, writes)
        /\ app = "desktop" => Emptied(saved, toMain)
    BY DEF Inv, Silence, SignedOut, RunScript, history
  <2>2. Head(toPage).tok = 0 /\ Mute(Tail(toPage))
    BY <2>1, <1>1, <1>2, MuteQueues
  <2>3. page' = 0 /\ ~starting'
    BY <2>1, <2>2 DEF RunScript
  <2>4. \A f \in Flights : flight'[f].at \notin Late
    BY <2>1 DEF RunScript
  <2>5. Mute(toPage')
    BY <2>2, <1>1
  <2>6. app' = "mobile" => Drained(saved', writes')
    BY <2>1 DEF RunScript
  <2>7. app' = "desktop" => Emptied(saved', toMain')
    <3>1. CASE UNCHANGED toMain
      BY <2>1, <3>1 DEF RunScript
    <3>2. CASE toMain' = Append(toMain, [op |-> "snap", tok |-> page])
      BY <2>1, <1>2, Words, EmptiedAppend DEF RunScript
    <3>3. QED
      BY <3>1, <3>2, <1>1
  <2>8. QED
    BY <2>3, <2>4, <2>5, <2>6, <2>7
<1>12. QED
  BY <1>6, <1>7, <1>8, <1>9, <1>10, <1>11 DEF Inv

LEMMA HandleStep ==
  ASSUME TypeOK, Inv, Handle
  PROVE  TypeOK' /\ Inv'
<1>1. /\ toMain # <<>> /\ toMain' = Tail(toMain) /\ saved \in Held
      /\ \/ UNCHANGED toPage
         \/ toPage' = Append(toPage, [op |-> "give", tok |-> saved])
         \/ toPage' = toPage \o Loaded
      /\ Head(toMain).op = "loaded" => UNCHANGED saved /\ toPage' = toPage \o Loaded
      /\ Head(toMain).op = "get" =>
           UNCHANGED saved /\ toPage' = Append(toPage, [op |-> "give", tok |-> saved])
  BY DEF Handle, TypeOK
<1>2. writes \in Seq(Held) /\ toMain \in Seq(Message) /\ toPage \in Seq(Script)
  BY DEF TypeOK
<1>3. writes' \in Seq(Held) /\ toMain' \in Seq(Message) /\ toPage' \in Seq(Script)
  <2>1. Loaded \in Seq(Script)
    BY <1>1, Opened DEF Loaded
  <2>2. \A p, q \in Seq(Script) : p \o q \in Seq(Script)
    OBVIOUS
  <2>3. toPage \o Loaded \in Seq(Script)
    BY <1>2, <2>1, <2>2
  <2>4. Append(toPage, [op |-> "give", tok |-> saved]) \in Seq(Script)
    BY <1>1, <1>2, Words, Appended
  <2>5. toPage' \in Seq(Script)
    BY <1>1, <1>2, <2>3, <2>4
  <2>6. toMain' \in Seq(Message)
    BY <1>1, <1>2, Appended
  <2>7. QED
    BY <1>2, <2>5, <2>6 DEF Handle
<1>4. TypeOK'
  <2>1. /\ saved' \in Held
        /\ UNCHANGED <<app, good, issued, page, flight, promise, caller, starting, kicked,
                       restarts, out, refused, killed, causes>>
    <3>1. Head(toMain) \in Message
      BY <1>1, <1>2, Appended
    <3>2. QED
      BY <1>1, <3>1, Words DEF Handle, Message, server, history
  <2>2. QED
    BY <2>1, <1>3 DEF TypeOK, Tabs
<1>5. Places'
  BY DEF Inv, Places, Handle
<1>6. MainFirst'
  BY DEF Inv, MainFirst, Under, Handle
<1>7. Answers'
  BY DEF Inv, Answers, At, Handle, history
<1>8. KeepsThroughBlip'
  BY DEF Inv, KeepsThroughBlip, Handle, history
<1>9. Silence'
  <2>. SUFFICES ASSUME SignedOut'
       PROVE  /\ page' = 0 /\ ~starting'
              /\ \A f \in Flights : flight'[f].at \notin Late
              /\ Mute(toPage')
              /\ app' = "mobile" => Drained(saved', writes')
              /\ app' = "desktop" => Emptied(saved', toMain')
    BY DEF Silence
  <2>1. /\ page = 0 /\ ~starting /\ \A f \in Flights : flight[f].at \notin Late
        /\ Mute(toPage) /\ app = "desktop" /\ Emptied(saved, toMain)
    BY <1>1 DEF Inv, Places, Silence, SignedOut, Handle, history
  <2>2. UNCHANGED <<app, page, starting, flight>>
    BY DEF Handle
  <2>3. CASE Head(toMain).op = "loaded"
    <3>1. saved = 0 /\ Emptied(0, Tail(toMain)) /\ toPage' = toPage \o Loaded /\ saved' = saved
      BY <1>1, <1>2, <2>1, <2>3, EmptiedTail
    <3>2. toPage' = Append(toPage, Read)
      BY <1>2, <3>1 DEF Loaded
    <3>3. Mute(toPage')
      BY <1>2, <2>1, <3>2, Words, MuteQueues DEF Read
    <3>4. QED
      BY <1>1, <2>1, <2>2, <3>1, <3>3
  <2>4. CASE Head(toMain).op = "get"
    <3>1. saved = 0 /\ Emptied(0, Tail(toMain)) /\ saved' = saved
      BY <1>1, <1>2, <2>1, <2>4, EmptiedTail
    <3>2. Mute(toPage')
      BY <1>1, <1>2, <2>1, <2>4, <3>1, Words, MuteQueues
    <3>3. QED
      BY <1>1, <2>1, <2>2, <3>1, <3>2
  <2>5. CASE Head(toMain).op \in {"set", "clear", "snap"}
    <3>1. UNCHANGED toPage
      BY <2>5 DEF Handle
    <3>2. Emptied(saved', toMain')
      BY <1>1, <1>2, <2>1, <2>5, EmptiedTail DEF Handle
    <3>3. QED
      BY <2>1, <2>2, <3>1, <3>2
  <2>6. QED
    BY <1>1, <1>2, <2>3, <2>4, <2>5, Appended DEF Message
<1>10. QED
  BY <1>4, <1>5, <1>6, <1>7, <1>8, <1>9 DEF Inv

LEMMA ReloadStep ==
  ASSUME TypeOK, Inv, NEW t \in Tabs, Reload(t)
  PROVE  TypeOK' /\ Inv'
<1>1. /\ flight' \in [Flights -> FlightType]
      /\ \A g \in Flights :
           /\ flight'[g].by = flight[g].by /\ flight'[g].new = flight[g].new
           /\ flight'[g].at = IF flight[g].by \in {t} /\ (Under(g) \/ At(g, "saving"))
                              THEN IF At(g, "sent") THEN "gone" ELSE "done"
                              ELSE flight[g].at
  BY Abandoned DEF Reload
<1>2. toMain' = IF app = "desktop" THEN Append(toMain, [op |-> "loaded", tok |-> 0]) ELSE toMain
  BY DEF Reload, Tell
<1>3. writes \in Seq(Held) /\ toMain \in Seq(Message) /\ toPage \in Seq(Script)
  BY DEF TypeOK
<1>4. writes' \in Seq(Held) /\ toMain' \in Seq(Message) /\ toPage' \in Seq(Script)
  BY <1>2, <1>3, Words, Appended DEF Reload
<1>5. promise' \in [Processes -> 0 .. MaxFlights] /\ caller' \in [Processes -> BOOLEAN]
  <2>1. 0 \in 0 .. MaxFlights
    BY AuthAssumption
  <2>2. promise' = [promise EXCEPT ![t] = 0] /\ caller' = [caller EXCEPT ![t] = FALSE]
    BY DEF Reload
  <2>3. QED
    BY <2>1, <2>2 DEF TypeOK
<1>6. causes' \subseteq causes \cup {"lost"}
  BY DEF Reload, LeftBehind
<1>7. causes' \subseteq Causes
  BY <1>6 DEF Causes, TypeOK
<1>8. TypeOK'
  BY <1>1, <1>4, <1>5, <1>7, AuthAssumption DEF TypeOK, Tabs, Reload, Again, LeftBehind, server
<1>9. Places'
  BY <1>2 DEF Inv, Places, Reload
<1>10. MainFirst'
  BY <1>1 DEF Inv, MainFirst, Under, Reload
<1>11. Answers'
  BY <1>1 DEF Inv, Answers, At, Reload
<1>12. KeepsThroughBlip'
  BY DEF Inv, KeepsThroughBlip, Reload
<1>13. Silence'
  <2>. SUFFICES ASSUME SignedOut'
       PROVE  /\ page' = 0 /\ ~starting'
              /\ \A f \in Flights : flight'[f].at \notin Late
              /\ Mute(toPage')
              /\ app' = "mobile" => Drained(saved', writes')
              /\ app' = "desktop" => Emptied(saved', toMain')
    BY DEF Silence
  <2>1. /\ page = 0 /\ ~starting /\ \A f \in Flights : flight[f].at \notin Late
        /\ Mute(toPage)
        /\ app = "mobile" => Drained(saved, writes)
        /\ app = "desktop" => Emptied(saved, toMain)
    BY DEF Inv, Silence, SignedOut, Reload, history
  <2>3. page' = 0 /\ ~starting'
    BY <2>1 DEF Reload, server, shell
  <2>4. \A f \in Flights : flight'[f].at \notin Late
    BY <1>1, <2>1 DEF Late, At
  <2>5. Mute(toPage')
    BY <2>1 DEF Reload
  <2>6. app' = "mobile" => Drained(saved', writes')
    BY DEF Reload
  <2>7. app' = "desktop" => Emptied(saved', toMain')
    BY <1>2, <1>3, <2>1, Words, EmptiedAppend DEF Reload
  <2>8. QED
    BY <2>3, <2>4, <2>5, <2>6, <2>7
<1>14. QED
  BY <1>8, <1>9, <1>10, <1>11, <1>12, <1>13 DEF Inv

LEMMA QuitStep ==
  ASSUME TypeOK, Inv, Quit
  PROVE  TypeOK' /\ Inv'
<1>1. /\ flight' \in [Flights -> FlightType]
      /\ \A g \in Flights :
           /\ flight'[g].by = flight[g].by /\ flight'[g].new = flight[g].new
           /\ flight'[g].at = IF flight[g].by \in Processes /\ (Under(g) \/ At(g, "saving"))
                              THEN IF At(g, "sent") THEN "gone" ELSE "done"
                              ELSE flight[g].at
  BY Abandoned DEF Quit
<1>2. /\ toMain' = <<>> /\ writes' = <<>>
      /\ toPage' = <<>> \/ (app = "desktop" /\ saved = 0 /\ toPage' = Loaded)
  BY DEF Quit
<1>0. saved = 0 => Loaded \in Seq(Script) /\ Mute(Loaded)
  <2>1. Read \in Script /\ <<Read>> \in Seq(Script) /\ Mute(<<Read>>)
    BY DEF Read, Script, Mute
  <2>2. <<>> \o <<Read>> = <<Read>>
    OBVIOUS
  <2>3. QED
    BY <2>1, <2>2 DEF Loaded
<1>3. writes \in Seq(Held) /\ toMain \in Seq(Message) /\ toPage \in Seq(Script)
  BY DEF TypeOK
<1>4. writes' \in Seq(Held) /\ toMain' \in Seq(Message) /\ toPage' \in Seq(Script)
  <2>1. <<>> \in Seq(Held) /\ <<>> \in Seq(Message) /\ <<>> \in Seq(Script)
    OBVIOUS
  <2>2. QED
    BY <1>0, <1>2, <2>1
<1>5. promise' \in [Processes -> 0 .. MaxFlights] /\ caller' \in [Processes -> BOOLEAN]
  BY AuthAssumption DEF Quit, Land, TypeOK
<1>6. causes' \subseteq causes \cup {"lost", "crash"}
  BY DEF Quit, LeftBehind
<1>7. causes' \subseteq Causes
  BY <1>6 DEF Causes, TypeOK
<1>8. TypeOK'
  BY <1>1, <1>4, <1>5, <1>7, AuthAssumption DEF TypeOK, Quit, Again, server
<1>9. Places'
  BY <1>2 DEF Places, Quit, Inv
<1>10. MainFirst'
  BY <1>1 DEF Inv, MainFirst, Under, Quit
<1>11. Answers'
  BY <1>1 DEF Inv, Answers, At, Quit
<1>12. KeepsThroughBlip'
  BY DEF Inv, KeepsThroughBlip, Quit
<1>13. Silence'
  <2>. SUFFICES ASSUME SignedOut'
       PROVE  /\ page' = 0 /\ ~starting'
              /\ \A f \in Flights : flight'[f].at \notin Late
              /\ Mute(toPage')
              /\ app' = "mobile" => Drained(saved', writes')
              /\ app' = "desktop" => Emptied(saved', toMain')
    BY DEF Silence
  <2>1. /\ page = 0 /\ ~starting /\ \A f \in Flights : flight[f].at \notin Late
        /\ Mute(toPage)
        /\ app = "mobile" => Drained(saved, writes)
        /\ app = "desktop" => Emptied(saved, toMain)
    BY DEF Inv, Silence, SignedOut, Quit, history
  <2>9. toMain = <<>> /\ writes = <<>>
    BY DEF SignedOut, Quit
  <2>2. saved = 0
    BY <2>1, <2>9 DEF Quit, Emptied, Drained, TypeOK
  <2>3. page' = 0 /\ ~starting'
    BY <2>1, <2>2 DEF Quit
  <2>4. \A f \in Flights : flight'[f].at \notin Late
    BY <1>1, <2>1 DEF Late, At
  <2>5. Mute(toPage')
    BY <1>0, <1>2 DEF Mute
  <2>6. app' = "mobile" => Drained(saved', writes')
    BY <2>2 DEF Quit, Drained
  <2>7. app' = "desktop" => Emptied(saved', toMain')
    BY <2>1, <2>9 DEF Quit
  <2>8. QED
    BY <2>3, <2>4, <2>5, <2>6, <2>7
<1>14. QED
  BY <1>8, <1>9, <1>10, <1>11, <1>12, <1>13 DEF Inv

LEMMA ReadyStep ==
  ASSUME TypeOK, Inv, Ready
  PROVE  TypeOK' /\ Inv'
<1>1. UNCHANGED writes \/ writes' = Append(writes, 0)
  BY DEF Ready
<1>2. writes \in Seq(Held) /\ toMain \in Seq(Message) /\ toPage \in Seq(Script)
  BY DEF TypeOK
<1>3. writes' \in Seq(Held) /\ toMain' \in Seq(Message) /\ toPage' \in Seq(Script)
  BY <1>2, Words, Appended DEF Ready
<1>4. TypeOK'
  BY <1>3, Words DEF TypeOK, Tabs, Ready, server, history
<1>5. Places'
  BY DEF Inv, Places, Ready
<1>6. MainFirst'
  BY DEF Inv, MainFirst, Under, Ready
<1>7. Answers'
  BY DEF Inv, Answers, At, Ready, history
<1>8. KeepsThroughBlip'
  BY DEF KeepsThroughBlip, Ready
<1>9. Silence'
  BY DEF Inv, Silence, SignedOut, Ready, history
<1>10. QED
  BY <1>4, <1>5, <1>6, <1>7, <1>8, <1>9 DEF Inv

LEMMA ProbeStep ==
  ASSUME TypeOK, Inv, Probe
  PROVE  TypeOK' /\ Inv'
<1>1. saved \in Held /\ toPage' = (IF saved # 0 THEN <<Inject(saved)>> ELSE <<>>) \o <<Read>>
  BY DEF Probe, Boot, TypeOK
<1>2. writes \in Seq(Held) /\ toMain \in Seq(Message) /\ toPage \in Seq(Script)
  BY DEF TypeOK
<1>3. writes' \in Seq(Held) /\ toMain' \in Seq(Message) /\ toPage' \in Seq(Script)
  BY <1>2, <1>1, Opened DEF Probe
<1>4. causes' \in {causes, causes \cup {"no bootstrap"}}
  BY DEF Probe, Boot
<1>5. causes' \subseteq Causes
  BY <1>4 DEF Causes, TypeOK
<1>6. TypeOK'
  BY <1>3, <1>5 DEF TypeOK, Tabs, Probe, Boot, server
<1>7. Places'
  BY DEF Inv, Places, Probe
<1>8. MainFirst'
  <2>1. promise[Main] = 0 /\ UNCHANGED flight
    BY DEF Probe
  <2>2. \A g \in Flights : ~(flight[g].by = Main /\ Under(g))
    BY <2>1 DEF MainFirst, Inv, Flights
  <2>3. QED
    BY <2>1, <2>2 DEF MainFirst, Under
<1>9. Answers'
  BY DEF Inv, Answers, At, Probe
<1>10. KeepsThroughBlip'
  BY DEF Inv, KeepsThroughBlip, Probe, Boot
<1>11. Silence'
  BY <1>4 DEF Inv, Silence, SignedOut, Probe
<1>12. QED
  BY <1>6, <1>7, <1>8, <1>9, <1>10, <1>11 DEF Inv

LEMMA ExchangeStep ==
  ASSUME TypeOK, Inv, Exchange
  PROVE  TypeOK' /\ Inv'
<1>1. /\ flight' \in [Flights -> FlightType]
      /\ promise' \in [Processes -> 0 .. MaxFlights]
      /\ \A q \in Processes \ {Main} : promise'[q] = promise[q]
      /\ causes' \in {causes, causes \cup {"two processes"}}
      /\ \E e \in Flights :
           /\ promise'[Main] = e
           /\ flight'[e].by = Main /\ flight'[e].at = "sent" /\ flight'[e].new = 0
           /\ \A g \in Flights \ {e} : flight'[g] = flight[g]
  <2>1. Main \in Processes /\ saved \in Held /\ Depart(Main, saved)
    BY DEF TypeOK, Processes, Exchange, Main
  <2>2. QED
    BY <2>1, Departed
<1>2. causes' \subseteq Causes
  BY <1>1 DEF Causes, TypeOK
<1>3. TypeOK'
  BY <1>1, <1>2 DEF TypeOK, Tabs, Exchange, server, shell
<1>4. Places'
  BY DEF Inv, Places, Exchange
<1>5. MainFirst'
  <2>1. app' = "desktop" /\ starting' /\ promise[Main] = 0
    BY DEF Exchange, shell
  <2>2. \A g \in Flights : ~(flight[g].by = Main /\ Under(g))
    BY <2>1 DEF MainFirst, Inv, Flights
  <2>3. ASSUME NEW g \in Flights, (flight[g].by = Main /\ Under(g))'
        PROVE  promise'[Main] = g
    BY <1>1, <2>2, <2>3 DEF Under
  <2>4. QED
    BY <2>1, <2>3 DEF MainFirst
<1>6. Answers'
  BY <1>1 DEF Inv, Answers, At, Exchange
<1>7. KeepsThroughBlip'
  BY DEF Inv, KeepsThroughBlip, Exchange
<1>8. Silence'
  BY <1>1 DEF Inv, Silence, SignedOut, Exchange
<1>9. QED
  BY <1>3, <1>4, <1>5, <1>6, <1>7, <1>8 DEF Inv

LEMMA MainReplyStep ==
  ASSUME TypeOK, Inv, NEW e \in Flights, MainReply(e)
  PROVE  TypeOK' /\ Inv'
<1>1. /\ flight' \in [Flights -> FlightType]
      /\ \A g \in Flights :
           /\ flight'[g].by = flight[g].by /\ flight'[g].new = flight[g].new
           /\ flight'[g].at = IF g = e THEN "done" ELSE flight[g].at
  BY Moved DEF MainReply, Stages
<1>2. flight[e].by \in Processes /\ flight[e].new \in Held
  BY DEF TypeOK, FlightType
<1>3. \E n \in Held : toPage' = (IF n # 0 THEN <<Inject(n)>> ELSE <<>>) \o <<Read>>
  BY <1>2 DEF MainReply, Boot, TypeOK
<1>4. writes \in Seq(Held) /\ toMain \in Seq(Message) /\ toPage \in Seq(Script)
  BY DEF TypeOK
<1>5. writes' \in Seq(Held) /\ toMain' \in Seq(Message) /\ toPage' \in Seq(Script)
  <2>1. toPage' \in Seq(Script)
    BY <1>3, Opened
  <2>2. QED
    BY <1>4, <2>1 DEF MainReply
<1>6. promise' \in [Processes -> 0 .. MaxFlights] /\ caller' \in [Processes -> BOOLEAN]
  BY <1>2, AuthAssumption DEF MainReply, Land, TypeOK
<1>7. causes' \in {causes, causes \cup {"no bootstrap"}}
  BY DEF MainReply, Boot
<1>8. causes' \subseteq Causes
  BY <1>7 DEF Causes, TypeOK
<1>9. TypeOK'
  BY <1>1, <1>2, <1>5, <1>6, <1>8 DEF TypeOK, Tabs, MainReply, Boot, server
<1>10. Places'
  <2>1. app = "desktop"
    BY DEF MainReply, MainFirst, Inv, Under
  <2>2. QED
    BY <2>1 DEF Places, Inv, MainReply, Boot
<1>11. MainFirst'
  <2>1. flight[e].by = Main /\ Under(e)
    BY DEF MainReply, Under
  <2>2. \A g \in Flights : flight[g].by = Main /\ Under(g) => g = e
    BY <2>1 DEF MainFirst, Inv
  <2>3. QED
    BY <1>1, <2>2 DEF MainFirst, Under
<1>12. Answers'
  BY <1>1 DEF Inv, Answers, At, MainReply
<1>13. KeepsThroughBlip'
  BY DEF Inv, KeepsThroughBlip, MainReply, Boot
<1>14. Silence'
  BY <1>7 DEF Inv, Silence, SignedOut, MainFirst, Under, MainReply
<1>15. QED
  BY <1>9, <1>10, <1>11, <1>12, <1>13, <1>14 DEF Inv

-----------------------------------------------------------------------------
(* The invariant, and what it shows                                        *)

LEMMA InitInv == Init => TypeOK /\ Inv
<1>. SUFFICES ASSUME Init PROVE TypeOK /\ Inv
  OBVIOUS
<1>1. 0 \in Held /\ 1 \in Held /\ 0 \in 0 .. MaxFlights /\ 0 \in 0 .. MaxRestarts
  BY AuthAssumption DEF Held
<1>2. NoFlight \in FlightType
  BY <1>1 DEF NoFlight, FlightType, Processes, Stages
<1>3. TypeOK
  <2>1. app \in {"web", "desktop", "mobile"}
    BY AuthAssumption DEF Init
  <2>2. good \in Held /\ issued \in Held /\ page \in Held /\ saved \in Held
    BY <1>1 DEF Init
  <2>3. /\ flight \in [Flights -> FlightType]
        /\ promise \in [Processes -> 0 .. MaxFlights] /\ caller \in [Processes -> BOOLEAN]
    BY <1>1, <1>2 DEF Init
  <2>4. writes \in Seq(Held) /\ toMain \in Seq(Message) /\ toPage \in Seq(Script)
    BY DEF Init
  <2>5. QED
    BY <1>1, <2>1, <2>2, <2>3, <2>4 DEF Init, TypeOK
<1>4. Places /\ MainFirst /\ Answers
  BY DEF Init, Places, MainFirst, Answers, Under, At, NoFlight
<1>5. KeepsThroughBlip /\ Silence
  BY DEF Init, KeepsThroughBlip, Silence, SignedOut
<1>6. QED
  BY <1>3, <1>4, <1>5 DEF Inv

LEMMA NextInv == TypeOK /\ Inv /\ [Next]_vars => TypeOK' /\ Inv'
<1>. SUFFICES ASSUME TypeOK, Inv, [Next]_vars PROVE TypeOK' /\ Inv'
  OBVIOUS
<1>1. ASSUME NEW t \in Tabs, NEW isApi \in BOOLEAN, Ask(t, isApi) PROVE TypeOK' /\ Inv'
  BY <1>1, AskStep
<1>2. ASSUME NEW t \in Tabs, webRevoked(t) \/ Reload(t) PROVE TypeOK' /\ Inv'
  BY <1>2, webRevokedStep, ReloadStep
<1>3. ASSUME NEW f \in Flights,
             \/ Rotate(f) \/ Reuse(f) \/ TurnAway(f) \/ Blip(f)
             \/ WebReply(f) \/ MobileReply(f) \/ MainReply(f)
      PROVE  TypeOK' /\ Inv'
  BY <1>3, RotateStep, ReuseStep, TurnAwayStep, BlipStep, WebReplyStep, MobileReplyStep, MainReplyStep
<1>4. CASE Write \/ LogoutPost \/ webLogout \/ mobileSignOut \/ SignIn
  BY <1>4, WriteStep, LogoutPostStep, webLogoutStep, mobileSignOutStep, SignInStep
<1>5. CASE Revoke \/ mobileRevoked
  BY <1>5, RevokeStep, mobileRevokedStep
<1>6. CASE Sync \/ Restore \/ RunScript \/ Handle
  BY <1>6, SyncStep, RestoreStep, RunScriptStep, HandleStep
<1>7. CASE Quit \/ Ready \/ Probe \/ Exchange
  BY <1>7, QuitStep, ReadyStep, ProbeStep, ExchangeStep
<1>8. CASE UNCHANGED vars
  <2>1. UNCHANGED <<app, good, issued, page, saved, flight, promise, caller, writes,
                    toMain, toPage, starting, kicked, restarts, out, refused, killed,
                    causes>>
    BY <1>8 DEF vars, server, shell, history
  <2>2. TypeOK'
    BY <2>1 DEF TypeOK, Tabs
  <2>3. Places' /\ MainFirst' /\ Answers'
    BY <2>1 DEF Inv, Places, MainFirst, Answers, Under, At
  <2>4. KeepsThroughBlip' /\ Silence'
    BY <2>1 DEF Inv, KeepsThroughBlip, Silence, SignedOut
  <2>5. QED
    BY <2>2, <2>3, <2>4 DEF Inv
<1>9. QED
  BY <1>1, <1>2, <1>3, <1>4, <1>5, <1>6, <1>7, <1>8 DEF Next

THEOREM InvHolds == Spec => [](TypeOK /\ Inv)
<1>1. QED
  BY InitInv, NextInv, PTL DEF Spec

(* The types of every variable of a device and of its server.              *)
THEOREM TypeCorrect == Spec => []TypeOK
<1>1. QED
  BY InvHolds, PTL

(* A browser or a shell whose token is gone without a sign-out was answered *)
(* 401 or 403 by the server, however many requests failed or were answered *)
(* by something else (refreshAccess).                                      *)
THEOREM NetworkKeepsSession == Spec => []KeepsThroughBlip
<1>1. TypeOK /\ Inv => KeepsThroughBlip
  BY DEF Inv
<1>2. QED
  BY <1>1, InvHolds, PTL

(* After a sign-out that met nothing under way, no page, store or vault    *)
(* has a token again before the next sign-in (logout, syncFromPage, the    *)
(* injection of the vault, the start of the mobile client).                *)
THEOREM SignOutLasts == Spec => []SignedOutStaysOut
<1>1. ASSUME TypeOK, Inv PROVE SignedOutStaysOut
  <2>. SUFFICES ASSUME SignedOut PROVE page = 0 /\ (Quiet => saved = 0)
    BY DEF SignedOut, SignedOutStaysOut
  <2>1. /\ page = 0
        /\ app = "mobile" => Drained(saved, writes)
        /\ app = "desktop" => Emptied(saved, toMain)
        /\ app = "web" => saved = 0
    BY <1>1 DEF Inv, Silence, Places
  <2>2. ASSUME Quiet PROVE saved = 0
    <3>1. toMain = <<>> /\ writes = <<>>
      BY <2>2 DEF Quiet
    <3>2. QED
      BY <1>1, <2>1, <3>1 DEF TypeOK, Drained, Emptied
  <2>3. QED
    BY <2>1, <2>2
<1>2. QED
  BY <1>1, InvHolds, PTL


-----------------------------------------------------------------------------
(* Which copies of a token there are                                       *)

(* A request that is not over is the one its process waits for; the main   *)
(* process makes its own before there is a page, and with what the vault   *)
(* has.                                                                    *)
Pending(f) == Under(f) \/ At(f, "saving")
Owned ==
  /\ \A f \in Flights :
       Pending(f) => promise[flight[f].by] = f /\ flight[f].by \in Tabs \cup {Main}
  /\ \A f \in Flights : At(f, "saving") => app = "mobile" /\ flight[f].by = 1
  /\ app = "desktop" /\ starting =>
       /\ toMain = <<>> /\ toPage = <<>> /\ saved # 0
       /\ \A f \in Flights : Under(f) => flight[f].by = Main
  /\ \A f \in Flights : flight[f].at \in {"sent", "gone"} => flight[f].tok # 0

(* One request at most has the token that is good, on the way there or on  *)
(* the way back.                                                           *)
Live(f) == flight[f].at \in {"sent", "gone", "ok"}
OneBearer ==
  /\ \A f \in Flights : flight[f].at \in {"sent", "gone"} => flight[f].tok = good
  /\ \A f \in Flights : At(f, "ok") => flight[f].new = good
  /\ \A f, g \in Flights : Live(f) /\ Live(g) => f = g

(* What the page has is good, unless its successor is on the way back.     *)
Answered(n) == \E g \in Flights : At(g, "ok") /\ flight[g].tok = n
NoAnswer == \A g \in Flights : ~At(g, "ok")
PageFollows == page = 0 \/ (page = good /\ NoAnswer) \/ Answered(page)

(* The store of the phone, when what is being written is there.            *)
Ends(s, q) == IF q = <<>> THEN s ELSE q[Len(q)]

(* The vault, when what was sent has arrived, has v, and until then it     *)
(* gives away no other token.                                              *)
Stores(m, v) == m.op # "get" /\ (v = 0 => m.op # "loaded")
Agrees(m, v) == m.tok = v \/ m.op = "loaded"
Settles(s, q, v) ==
  \E i \in 0 .. Len(q) :
    /\ i = 0 => s = v
    /\ i # 0 => q[i].tok = v /\ (v = 0 => q[i].op = "clear")
    /\ \A j \in 1 .. Len(q) : IF j < i THEN Stores(q[j], v) ELSE Agrees(q[j], v)

(* The vault was emptied, but the page will be read again.                 *)
HasRead(q) == \E i \in 1 .. Len(q) : q[i].op = "read"
OnlyLoads(q) == \A j \in 1 .. Len(q) : q[j].op = "loaded"
NoLoads(q) == \A j \in 1 .. Len(q) : q[j].op # "loaded"
ReadAgain == saved = 0 /\ OnlyLoads(toMain) /\ HasRead(toPage)

Idle == \A f \in Flights : flight[f].at \notin {"sent", "ok"}
Refusal == \E f \in Flights : At(f, "refused")

Copies ==
  /\ PageFollows
  /\ app = "mobile" => Ends(saved, writes) = page
  /\ app = "desktop" /\ starting =>
       saved = good \/ \E g \in Flights : At(g, "ok") /\ flight[g].by = Main
  /\ app = "desktop" /\ ~starting =>
       /\ Settles(saved, toMain, page) \/ ReadAgain
       /\ page = 0 => Idle
       /\ page = 0 \/ Refusal => Mute(toPage)
       /\ Refusal => NoLoads(toMain)

(* As long as nothing has happened that may lose the newest token.         *)
Chain == causes = {} => ~killed /\ (good # 0 => OneBearer /\ Copies)

-----------------------------------------------------------------------------
(* The queues                                                              *)

LEMMA SettlesNone == \A s, v : Settles(s, <<>>, v) <=> s = v
BY DEF Settles

LEMMA SettlesAppend ==
  ASSUME NEW s, NEW v, NEW q \in Seq(Message), NEW m \in Message,
         \/ Settles(s, q, v) /\ Agrees(m, v)
         \/ /\ \A j \in 1 .. Len(q) : Stores(q[j], v)
            /\ m.tok = v /\ (v = 0 => m.op = "clear")
  PROVE  Settles(s, Append(q, m), v)
<1>1. /\ Len(q) \in Nat /\ Len(Append(q, m)) = Len(q) + 1
      /\ \A j \in 1 .. Len(q) : Append(q, m)[j] = q[j]
      /\ Append(q, m)[Len(q) + 1] = m
  OBVIOUS
<1>2. CASE Settles(s, q, v) /\ Agrees(m, v)
  <2>1. PICK i \in 0 .. Len(q) :
          /\ i = 0 => s = v
          /\ i # 0 => q[i].tok = v /\ (v = 0 => q[i].op = "clear")
          /\ \A j \in 1 .. Len(q) : IF j < i THEN Stores(q[j], v) ELSE Agrees(q[j], v)
    BY <1>2 DEF Settles
  <2>2. /\ i \in 0 .. Len(Append(q, m))
        /\ i # 0 => Append(q, m)[i].tok = v /\ (v = 0 => Append(q, m)[i].op = "clear")
    BY <1>1, <2>1
  <2>3. \A j \in 1 .. Len(Append(q, m)) :
          IF j < i THEN Stores(Append(q, m)[j], v) ELSE Agrees(Append(q, m)[j], v)
    BY <1>1, <1>2, <2>1
  <2>4. QED
    BY <2>1, <2>2, <2>3 DEF Settles
<1>3. CASE (\A j \in 1 .. Len(q) : Stores(q[j], v)) /\ m.tok = v /\ (v = 0 => m.op = "clear")
  <2> DEFINE i == Len(q) + 1
  <2>1. /\ i \in 0 .. Len(Append(q, m)) /\ i # 0
        /\ Append(q, m)[i].tok = v /\ (v = 0 => Append(q, m)[i].op = "clear")
    BY <1>1, <1>3
  <2>0. Agrees(m, v)
    BY <1>3 DEF Agrees
  <2>2. \A j \in 1 .. Len(Append(q, m)) :
          IF j < i THEN Stores(Append(q, m)[j], v) ELSE Agrees(Append(q, m)[j], v)
    BY <1>1, <1>3, <2>0
  <2> HIDE DEF i
  <2>3. QED
    BY <2>1, <2>2 DEF Settles
<1>4. QED
  BY <1>2, <1>3

LEMMA SettlesTail ==
  ASSUME NEW s, NEW v, NEW q \in Seq(Message), q # <<>>, Settles(s, q, v)
  PROVE  /\ Head(q).op \in {"set", "clear", "snap"} => Settles(Head(q).tok, Tail(q), v)
         /\ Head(q).op = "snap" /\ Head(q).tok = 0 => Settles(s, Tail(q), v)
         /\ Head(q).op = "get" => s = 0 /\ v = 0 /\ Settles(s, Tail(q), v)
         /\ Head(q).op = "loaded" => (v = 0 => s = 0) /\ Settles(s, Tail(q), v)
<1>1. PICK i \in 0 .. Len(q) :
        /\ i = 0 => s = v
        /\ i # 0 => q[i].tok = v /\ (v = 0 => q[i].op = "clear")
        /\ \A j \in 1 .. Len(q) : IF j < i THEN Stores(q[j], v) ELSE Agrees(q[j], v)
  BY DEF Settles
<1>2. /\ Len(q) \in Nat \ {0} /\ Len(Tail(q)) = Len(q) - 1
      /\ \A j \in 1 .. Len(q) - 1 : Tail(q)[j] = q[j + 1]
      /\ Head(q) = q[1] /\ 1 \in 1 .. Len(q) /\ Head(q) \in Message
  OBVIOUS
<1>3. CASE i \in {0, 1}
  <2>1. \A j \in 1 .. Len(q) : Agrees(q[j], v)
    BY <1>1, <1>2, <1>3
  <2>2. \A j \in 1 .. Len(Tail(q)) : Agrees(Tail(q)[j], v)
    BY <2>1, <1>2
  <2>3. Settles(v, Tail(q), v) /\ Agrees(Head(q), v)
    BY <2>1, <2>2, <1>2 DEF Settles
  <2>4. Head(q).op \in {"get", "loaded"} => Head(q).tok = 0
    BY <1>2 DEF Message
  <2>5. Head(q).op = "loaded" => i = 0 \/ v = 0
    BY <1>1, <1>2, <1>3, <2>4
  <2>6. Head(q).op = "loaded" => i = 0
    BY <1>1, <1>2, <1>3, <2>5
  <2>7. Head(q).op # "loaded" => Head(q).tok = v
    BY <2>3 DEF Agrees
  <2>8. Head(q).tok = 0 /\ Head(q).op \in {"snap", "get"} => i = 0 /\ s = v
    BY <1>1, <1>2, <1>3, <2>7
  <2>9. i = 0 => s = v
    BY <1>1
  <2>10. QED
    BY <2>3, <2>4, <2>6, <2>7, <2>8, <2>9
<1>4. CASE i > 1
  <2> DEFINE k == i - 1
  <2>1. /\ k \in 0 .. Len(Tail(q)) /\ k # 0
        /\ Tail(q)[k].tok = v /\ (v = 0 => Tail(q)[k].op = "clear")
    BY <1>1, <1>2, <1>4
  <2>2. \A j \in 1 .. Len(Tail(q)) :
          IF j < k THEN Stores(Tail(q)[j], v) ELSE Agrees(Tail(q)[j], v)
    BY <1>1, <1>2, <1>4
  <2>3. Stores(Head(q), v)
    BY <1>1, <1>2, <1>4
  <2> HIDE DEF k
  <2>4. \A r : Settles(r, Tail(q), v)
    BY <2>1, <2>2 DEF Settles
  <2>5. QED
    BY <2>3, <2>4 DEF Stores
<1>5. QED
  BY <1>1, <1>3, <1>4

(* A vault that keeps a token is asked for none.                           *)
LEMMA SettlesAsked ==
  ASSUME NEW s, NEW v, NEW q \in Seq(Message), Settles(s, q, v), v # 0
  PROVE  \A j \in 1 .. Len(q) : q[j].op # "get"
<1>1. \A j \in 1 .. Len(q) : q[j].op = "get" => q[j].tok = 0
  BY DEF Message
<1>2. QED
  BY <1>1 DEF Settles, Stores, Agrees

(* An empty vault to which only loads are told stays empty.                *)
LEMMA SettlesLoads ==
  ASSUME NEW q \in Seq(Message), OnlyLoads(q)
  PROVE  Settles(0, q, 0)
<1>1. \A j \in 1 .. Len(q) : Agrees(q[j], 0)
  BY DEF OnlyLoads, Agrees
<1>2. 0 \in 0 .. Len(q) /\ \A j \in 1 .. Len(q) : ~(j < 0)
  OBVIOUS
<1>3. QED
  BY <1>1, <1>2 DEF Settles

LEMMA LoadQueues ==
  ASSUME NEW q \in Seq(Message)
  PROVE  /\ \A m \in Message : m.op # "loaded" /\ NoLoads(q) => NoLoads(Append(q, m))
         /\ \A m \in Message : m.op = "loaded" /\ OnlyLoads(q) => OnlyLoads(Append(q, m))
         /\ q # <<>> /\ OnlyLoads(q) => Head(q).op = "loaded" /\ OnlyLoads(Tail(q))
         /\ q # <<>> /\ NoLoads(q) => Head(q).op # "loaded" /\ NoLoads(Tail(q))
<1>1. ASSUME NEW m \in Message
      PROVE  /\ Len(q) \in Nat /\ Len(Append(q, m)) = Len(q) + 1
             /\ \A j \in 1 .. Len(q) : Append(q, m)[j] = q[j]
             /\ Append(q, m)[Len(q) + 1] = m
  OBVIOUS
<1>2. q # <<>> => /\ Len(q) \in Nat \ {0} /\ Len(Tail(q)) = Len(q) - 1
                  /\ \A j \in 1 .. Len(q) - 1 : Tail(q)[j] = q[j + 1]
                  /\ Head(q) = q[1] /\ 1 \in 1 .. Len(q)
  OBVIOUS
<1>3. ASSUME NEW m \in Message, m.op # "loaded", NoLoads(q) PROVE NoLoads(Append(q, m))
  BY <1>1, <1>3 DEF NoLoads
<1>4. ASSUME NEW m \in Message, m.op = "loaded", OnlyLoads(q) PROVE OnlyLoads(Append(q, m))
  BY <1>1, <1>4 DEF OnlyLoads
<1>5. ASSUME q # <<>>, OnlyLoads(q) PROVE Head(q).op = "loaded" /\ OnlyLoads(Tail(q))
  BY <1>2, <1>5 DEF OnlyLoads
<1>6. ASSUME q # <<>>, NoLoads(q) PROVE Head(q).op # "loaded" /\ NoLoads(Tail(q))
  BY <1>2, <1>6 DEF NoLoads
<1>7. QED
  BY <1>3, <1>4, <1>5, <1>6

LEMMA EndsQueues ==
  ASSUME NEW s, NEW q \in Seq(Held)
  PROVE  /\ \A n \in Held : Ends(s, Append(q, n)) = n
         /\ q # <<>> => Ends(Head(q), Tail(q)) = Ends(s, q)
<1>1. \A n \in Held : Ends(s, Append(q, n)) = n
  BY DEF Ends
<1>2. ASSUME q # <<>> PROVE Ends(Head(q), Tail(q)) = Ends(s, q)
  <2>1. /\ Len(q) \in Nat \ {0} /\ Head(q) = q[1]
        /\ Tail(q) \in Seq(Held) /\ Len(Tail(q)) = Len(q) - 1
        /\ \A j \in 1 .. Len(q) - 1 : Tail(q)[j] = q[j + 1]
    BY <1>2
  <2>2. CASE Tail(q) = <<>>
    <3>0. Len(<<>>) = 0
      OBVIOUS
    <3>1. Len(Tail(q)) = 0
      BY <2>2, <3>0, Zenon
    <3>4. Len(q) \in Nat /\ Len(Tail(q)) = Len(q) - 1
      BY <2>1
    <3>2. Len(q) = 1
      BY <3>1, <3>4
    <3>3. QED
      BY <1>2, <2>1, <2>2, <3>2 DEF Ends
  <2>3. CASE Tail(q) # <<>>
    <3>1. Len(Tail(q)) \in 1 .. Len(q) - 1
      BY <2>1, <2>3
    <3>2. Tail(q)[Len(Tail(q))] = q[Len(q)]
      BY <2>1, <3>1
    <3>3. QED
      BY <1>2, <2>3, <3>2 DEF Ends
  <2>4. QED
    BY <2>2, <2>3
<1>3. QED
  BY <1>1, <1>2

LEMMA ReadQueues ==
  ASSUME NEW q \in Seq(Script)
  PROVE  /\ HasRead(Append(q, Read))
         /\ \A m \in Script : HasRead(q) => HasRead(Append(q, m))
         /\ q # <<>> /\ HasRead(q) /\ Head(q).op # "read" => HasRead(Tail(q))
<1>1. HasRead(Append(q, Read))
  <2>1. Len(q) + 1 \in 1 .. Len(Append(q, Read)) /\ Append(q, Read)[Len(q) + 1] = Read
    OBVIOUS
  <2>2. QED
    BY <2>1 DEF HasRead, Read
<1>2. ASSUME NEW m \in Script, HasRead(q) PROVE HasRead(Append(q, m))
  <2>1. PICK i \in 1 .. Len(q) : q[i].op = "read"
    BY <1>2 DEF HasRead
  <2>2. i \in 1 .. Len(Append(q, m)) /\ Append(q, m)[i] = q[i]
    OBVIOUS
  <2>3. QED
    BY <2>1, <2>2 DEF HasRead
<1>3. ASSUME q # <<>>, HasRead(q), Head(q).op # "read" PROVE HasRead(Tail(q))
  <2>1. PICK i \in 1 .. Len(q) : q[i].op = "read"
    BY <1>3 DEF HasRead
  <2>2. /\ Len(q) \in Nat \ {0} /\ Len(Tail(q)) = Len(q) - 1 /\ Head(q) = q[1]
        /\ \A j \in 1 .. Len(q) - 1 : Tail(q)[j] = q[j + 1]
    BY <1>3
  <2>3. i # 1
    BY <1>3, <2>1, <2>2
  <2>4. i - 1 \in 1 .. Len(Tail(q)) /\ Tail(q)[i - 1] = q[i]
    BY <2>2, <2>3
  <2>5. QED
    BY <2>1, <2>4 DEF HasRead
<1>4. QED
  BY <1>1, <1>2, <1>3

LEMMA Joined ==
  ASSUME NEW S, NEW p \in Seq(S), NEW r \in Seq(S)
  PROVE  /\ p \o r \in Seq(S) /\ Len(p \o r) = Len(p) + Len(r)
         /\ \A i \in 1 .. Len(p) : (p \o r)[i] = p[i]
         /\ \A i \in 1 .. Len(r) : (p \o r)[Len(p) + i] = r[i]
OBVIOUS

(* A page that has loaded is read; with nothing in the vault, it is told   *)
(* nothing.                                                                *)
LEMMA OpenedRead ==
  ASSUME NEW n \in Held, NEW q \in Seq(Script)
  PROVE  LET o == (IF n # 0 THEN <<Inject(n)>> ELSE <<>>) \o <<Read>> IN
         /\ HasRead(o) /\ HasRead(q \o o)
         /\ n = 0 => o = <<Read>> /\ Mute(o) /\ (Mute(q) => Mute(q \o o))
<1> DEFINE o == (IF n # 0 THEN <<Inject(n)>> ELSE <<>>) \o <<Read>>
<1>1. o \in Seq(Script) /\ Len(o) \in 1 .. 2 /\ o[Len(o)] = Read
  <2>1. CASE n = 0
    <3>1. o = <<Read>> /\ Read \in Script
      BY <2>1, Words
    <3> HIDE DEF o
    <3>2. <<Read>> \in Seq(Script) /\ Len(<<Read>>) = 1 /\ <<Read>>[1] = Read
      BY <3>1
    <3>3. QED
      BY <3>1, <3>2
  <2>2. CASE n # 0
    <3> DEFINE p == <<Inject(n)>>
               r == <<Read>>
    <3>1. o = p \o r
      BY <2>2
    <3>2. Inject(n) \in Script /\ Read \in Script
      BY Words
    <3>3. p \in Seq(Script) /\ Len(p) = 1 /\ r \in Seq(Script) /\ Len(r) = 1 /\ r[1] = Read
      BY <3>2
    <3> HIDE DEF p, r, o
    <3>6. /\ p \o r \in Seq(Script) /\ Len(p \o r) = Len(p) + Len(r)
          /\ \A i \in 1 .. Len(r) : (p \o r)[Len(p) + i] = r[i]
      BY <3>3, Joined
    <3>7. Len(p \o r) = 2 /\ (p \o r)[1 + 1] = r[1]
      BY <3>3, <3>6
    <3>4. o \in Seq(Script) /\ Len(o) = 2 /\ o[2] = Read
      BY <3>1, <3>3, <3>6, <3>7
    <3>5. QED
      BY <3>4
  <2>3. QED
    BY <2>1, <2>2
<1>2. n = 0 => o = <<Read>>
  OBVIOUS
<1> HIDE DEF o
<1>3. /\ Len(q \o o) = Len(q) + Len(o)
      /\ \A i \in 1 .. Len(q) : (q \o o)[i] = q[i]
      /\ \A i \in 1 .. Len(o) : (q \o o)[Len(q) + i] = o[i]
  BY <1>1
<1>4. HasRead(o)
  <2>1. Len(o) \in 1 .. Len(o)
    BY <1>1
  <2>2. QED
    BY <1>1, <2>1 DEF HasRead, Read
<1>5. HasRead(q \o o)
  <2>1. Len(o) \in 1 .. Len(o) /\ Len(q) \in Nat /\ Len(q \o o) \in Nat
    BY <1>1
  <2>3. Len(q) + Len(o) \in 1 .. Len(q \o o) /\ (q \o o)[Len(q) + Len(o)] = Read
    BY <1>1, <1>3, <2>1
  <2>4. QED
    BY <2>3 DEF HasRead, Read
<1>6. ASSUME n = 0 PROVE Mute(o) /\ (Mute(q) => Mute(q \o o))
  <2>1. Mute(o)
    <3>1. o = <<Read>> /\ Len(o) = 1
      BY <1>2, <1>6
    <3>2. o[1].tok = 0
      BY <3>1 DEF Read
    <3>3. QED
      BY <3>1, <3>2 DEF Mute
  <2>2. ASSUME Mute(q), NEW i \in 1 .. Len(q \o o) PROVE (q \o o)[i].tok = 0
    <3>1. CASE i \in 1 .. Len(q)
      BY <1>3, <2>2, <3>1 DEF Mute
    <3>2. CASE i \notin 1 .. Len(q)
      <4>1. i - Len(q) \in 1 .. Len(o) /\ Len(q) + (i - Len(q)) = i
        BY <1>1, <1>3, <3>2
      <4>2. QED
        BY <1>3, <2>1, <4>1 DEF Mute
    <3>3. QED
      BY <3>1, <3>2
  <2>3. QED
    BY <2>1, <2>2 DEF Mute
<1>7. QED
  BY <1>2, <1>4, <1>5, <1>6 DEF o

-----------------------------------------------------------------------------
(* What a step does to the requests, again                                 *)

Sole == Owned /\ Chain

LEMMA OwnedKept ==
  ASSUME Owned, UNCHANGED <<app, flight, promise, starting>>,
         app = "desktop" /\ starting => toMain' = <<>> /\ toPage' = <<>> /\ saved' = saved
  PROVE  Owned'
BY DEF Owned, Pending, Under, At, Tabs

LEMMA BearersKept ==
  ASSUME UNCHANGED flight
  PROVE  /\ NoAnswer' = NoAnswer /\ Refusal' = Refusal
         /\ \A n : Answered(n)' = Answered(n)
         /\ good' = good => OneBearer' = OneBearer
BY DEF OneBearer, Live, At, NoAnswer, Refusal, Answered

LEMMA DepartSole ==
  ASSUME TypeOK, Owned, NEW t \in Tabs \cup {Main}, NEW n \in Held, Depart(t, n), promise[t] = 0, n # 0,
         UNCHANGED <<app, good, saved, starting, toMain, toPage>>,
         app = "desktop" /\ starting => t = Main,
         causes = {} /\ good # 0 => OneBearer /\ ((n = good /\ NoAnswer) \/ Answered(n))
  PROVE  /\ Owned' /\ causes \subseteq causes' /\ (Refusal' <=> Refusal)
         /\ causes' = {} /\ good # 0 => OneBearer' /\ n = good /\ NoAnswer /\ NoAnswer'
<1>1. PICK e \in Flights :
        /\ At(e, "none")
        /\ flight' = [flight EXCEPT ![e] = [by |-> t, tok |-> n, at |-> "sent", new |-> 0]]
        /\ promise' = [promise EXCEPT ![t] = e]
        /\ causes' = IF \E g \in Flights : /\ flight[g].tok = n
                                           /\ At(g, "gone") \/ (Under(g) /\ flight[g].by # t)
                     THEN causes \cup {"two processes"} ELSE causes
  BY DEF Depart
<1>2. /\ flight \in [Flights -> FlightType] /\ promise \in [Processes -> 0 .. MaxFlights]
      /\ \A g \in Flights : g # 0 /\ flight[g].by \in Processes
      /\ t \in Processes
  BY DEF TypeOK, FlightType, Flights, Tabs, Main, Processes
<1>3. /\ \A g \in Flights \ {e} : flight'[g] = flight[g]
      /\ flight'[e] = [by |-> t, tok |-> n, at |-> "sent", new |-> 0]
      /\ \A p \in Processes \ {t} : promise'[p] = promise[p]
      /\ promise'[t] = e
  BY <1>1, <1>2
<1>4. \A g \in Flights : Pending(g) => flight[g].by # t
  BY <1>2 DEF Owned
<1>5. Owned'
  <2>1. ASSUME NEW f \in Flights, Pending(f)'
        PROVE  promise'[flight'[f].by] = f /\ flight'[f].by \in Tabs' \cup {Main}
    <3>1. CASE f = e
      BY <1>3, <3>1 DEF Tabs
    <3>2. CASE f # e
      BY <1>2, <1>3, <1>4, <2>1, <3>2 DEF Owned, Pending, Under, At, Tabs
    <3>3. QED
      BY <3>1, <3>2
  <2>2. \A f \in Flights : At(f, "saving")' => app' = "mobile" /\ flight'[f].by = 1
    BY <1>3 DEF Owned, At
  <2>3. app' = "desktop" /\ starting' => toMain' = <<>> /\ toPage' = <<>> /\ saved' # 0
    BY DEF Owned
  <2>4. ASSUME app' = "desktop", starting', NEW f \in Flights, Under(f)' PROVE flight'[f].by = Main
    BY <1>3, <2>4 DEF Owned, Under
  <2>5. \A f \in Flights : flight'[f].at \in {"sent", "gone"} => flight'[f].tok # 0
    BY <1>3 DEF Owned
  <2>6. QED
    BY <2>1, <2>2, <2>3, <2>4, <2>5 DEF Owned
<1>6. causes \subseteq causes'
  BY <1>1
<1>7. Refusal' <=> Refusal
  <2>1. flight'[e].at = "sent"
    BY <1>3
  <2>4. flight[e].at = "none"
    BY <1>1 DEF At
  <2>2. \A g \in Flights \ {e} : flight'[g].at = flight[g].at
    BY <1>3
  <2>3. QED
    BY <2>1, <2>2, <2>4 DEF Refusal, At
<1>8. ASSUME causes' = {}, good # 0
      PROVE  OneBearer' /\ n = good /\ NoAnswer /\ NoAnswer'
  <2>1. causes = {}
    BY <1>6, <1>8
  <2>2. \A g \in Flights : flight[g].tok = n => ~At(g, "gone") /\ ~Under(g)
    BY <1>1, <1>4, <1>8 DEF Pending
  <2>3. n = good /\ NoAnswer
    BY <1>8, <2>1, <2>2 DEF Answered, Under, At
  <2>4. \A g \in Flights : ~Live(g)
    BY <1>8, <2>1, <2>2, <2>3 DEF OneBearer, Live, NoAnswer, Under, At
  <2>5. \A g \in Flights \ {e} : ~Live(g)'
    BY <1>3, <2>4 DEF Live
  <2>6. NoAnswer'
    BY <1>3, <2>5 DEF NoAnswer, Live, At
  <2>7. OneBearer'
    BY <1>3, <2>3, <2>5 DEF OneBearer, Live, At
  <2>8. QED
    BY <2>3, <2>6, <2>7
<1>9. QED
  BY <1>5, <1>6, <1>7, <1>8

LEMMA AskSole ==
  ASSUME TypeOK, Inv, Sole, NEW t \in Tabs, NEW isApi \in BOOLEAN, Ask(t, isApi)
  PROVE  Sole'
<1>1. UNCHANGED <<app, good, page, saved, writes, toMain, toPage, starting, killed>>
  BY DEF Ask, server, shell
<1>2. CASE promise[t] = 0
  <2>1. Depart(t, page) /\ page # 0 /\ (app = "desktop" => ~starting)
    BY <1>2 DEF Ask
  <2>2. t \in Tabs \cup {Main} /\ page \in Held
    BY DEF TypeOK
  <2>3. causes = {} /\ good # 0 => OneBearer /\ ((page = good /\ NoAnswer) \/ Answered(page))
    BY <2>1 DEF Sole, Chain, Copies, PageFollows
  <2>4. /\ Owned' /\ causes \subseteq causes' /\ (Refusal' <=> Refusal)
        /\ causes' = {} /\ good # 0 => OneBearer' /\ page = good /\ NoAnswer /\ NoAnswer'
    BY <1>1, <1>2, <2>1, <2>2, <2>3, DepartSole DEF Sole
  <2>5. ASSUME causes' = {} PROVE ~killed'
    BY <1>1, <2>4, <2>5 DEF Sole, Chain
  <2>6. ASSUME causes' = {}, good # 0 PROVE Copies'
    <3>1. Copies
      BY <2>4, <2>6 DEF Sole, Chain
    <3>2. PageFollows'
      BY <1>1, <2>4, <2>6 DEF PageFollows
    <3>3. QED
      BY <1>1, <2>1, <2>4, <3>1, <3>2 DEF Copies, ReadAgain
  <2>7. QED
    BY <1>1, <2>4, <2>5, <2>6 DEF Sole, Chain
<1>3. CASE promise[t] # 0
  <2>1. UNCHANGED <<flight, promise, causes>>
    BY <1>3 DEF Ask
  <2>2. Owned'
    BY <1>1, <2>1, OwnedKept DEF Sole, Owned
  <2>3. Chain'
    BY <1>1, <2>1, BearersKept DEF Sole, Chain, Copies, PageFollows, ReadAgain, At, Idle
  <2>4. QED
    BY <2>2, <2>3 DEF Sole
<1>4. QED
  BY <1>2, <1>3

LEMMA ExchangeSole ==
  ASSUME TypeOK, Inv, Sole, Exchange
  PROVE  Sole'
<1>1. UNCHANGED <<app, good, page, saved, writes, toMain, toPage, starting, killed>>
  BY DEF Exchange, server, shell
<1>2. /\ app = "desktop" /\ starting /\ promise[Main] = 0 /\ Depart(Main, saved)
      /\ Main \in Tabs \cup {Main} /\ saved \in Held /\ saved # 0
  BY DEF Exchange, TypeOK, Sole, Owned
<1>3. NoAnswer
  <2>1. \A g \in Flights : g # 0
    BY DEF Flights
  <2>2. \A g \in Flights : ~Under(g)
    BY <1>2, <2>1 DEF Sole, Owned, Pending
  <2>3. QED
    BY <2>2 DEF NoAnswer, Under, At
<1>4. causes = {} /\ good # 0 => OneBearer /\ saved = good
  BY <1>2, <1>3 DEF Sole, Chain, Copies, NoAnswer
<1>5. /\ Owned' /\ causes \subseteq causes' /\ (Refusal' <=> Refusal)
      /\ causes' = {} /\ good # 0 => OneBearer' /\ saved = good /\ NoAnswer /\ NoAnswer'
  BY <1>1, <1>2, <1>3, <1>4, DepartSole DEF Sole
<1>6. ASSUME causes' = {} PROVE ~killed'
  BY <1>1, <1>5, <1>6 DEF Sole, Chain
<1>7. ASSUME causes' = {}, good # 0 PROVE Copies'
  <2>1. Copies
    BY <1>5, <1>7 DEF Sole, Chain
  <2>2. PageFollows'
    BY <1>1, <1>5, <1>7, <2>1 DEF Copies, PageFollows, Answered, NoAnswer
  <2>3. QED
    BY <1>1, <1>2, <1>5, <1>7, <2>1, <2>2 DEF Copies
<1>8. QED
  BY <1>1, <1>5, <1>6, <1>7 DEF Sole, Chain

(* One request moves on, or is over.                                       *)
LEMMA MovedOwned ==
  ASSUME TypeOK, Owned, NEW e \in Flights, UNCHANGED app,
         \A g \in Flights \ {e} : flight'[g] = flight[g],
         flight'[e].by = flight[e].by /\ flight'[e].tok = flight[e].tok,
         Pending(e)' => Pending(e),
         Under(e)' => Under(e),
         At(e, "saving")' => app = "mobile" /\ flight[e].by = 1,
         flight'[e].at \in {"sent", "gone"} => flight[e].at \in {"sent", "gone"},
         \/ promise' = promise
         \/ promise' = [promise EXCEPT ![flight[e].by] = 0] /\ Pending(e) /\ ~Pending(e)',
         starting' => starting,
         app = "desktop" /\ starting' => toMain' = <<>> /\ toPage' = <<>> /\ saved' = saved
  PROVE  Owned'
<1>1. /\ promise \in [Processes -> 0 .. MaxFlights]
      /\ \A g \in Flights : g # 0 /\ flight[g].by \in Processes
  <2>1. \A g \in Flights : g # 0
    BY DEF Flights
  <2>2. QED
    BY <2>1 DEF TypeOK, FlightType
<1>2. ASSUME NEW f \in Flights, Pending(f)'
      PROVE  promise'[flight'[f].by] = f /\ flight'[f].by \in Tabs' \cup {Main}
  <2>1. Pending(f) /\ flight'[f].by = flight[f].by
    BY <1>2 DEF Pending, Under, At
  <2>2. promise[flight[f].by] = f /\ flight[f].by \in Tabs \cup {Main}
    BY <2>1 DEF Owned
  <2>3. promise'[flight[f].by] = promise[flight[f].by]
    <3>1. CASE promise' = promise
      BY <3>1
    <3>2. CASE /\ promise' = [promise EXCEPT ![flight[e].by] = 0]
               /\ Pending(e) /\ ~Pending(e)'
      <4>1. f # e /\ promise[flight[e].by] = e
        BY <1>2, <3>2 DEF Owned
      <4>2. flight[f].by # flight[e].by
        BY <2>2, <4>1
      <4>3. QED
        BY <1>1, <3>2, <4>2
    <3>3. QED
      BY <3>1, <3>2
  <2>4. QED
    BY <2>1, <2>2, <2>3 DEF Tabs
<1>3. ASSUME NEW f \in Flights, At(f, "saving")' PROVE app' = "mobile" /\ flight'[f].by = 1
  BY <1>3 DEF Owned, At
<1>4. ASSUME app' = "desktop", starting'
      PROVE  /\ toMain' = <<>> /\ toPage' = <<>> /\ saved' # 0
             /\ \A f \in Flights : Under(f)' => flight'[f].by = Main
  <2>1. saved # 0 /\ \A f \in Flights : Under(f) => flight[f].by = Main
    BY <1>4 DEF Owned
  <2>2. \A f \in Flights \ {e} : Under(f)' => Under(f)
    BY DEF Under
  <2>3. QED
    BY <1>4, <2>1, <2>2
<1>5. ASSUME NEW f \in Flights, flight'[f].at \in {"sent", "gone"} PROVE flight'[f].tok # 0
  BY <1>5 DEF Owned
<1>6. QED
  BY <1>2, <1>3, <1>4, <1>5 DEF Owned

(* Nothing is alive any more.                                              *)
LEMMA Ended ==
  ASSUME Sole, Owned', good' = 0, causes \subseteq causes', causes' = {} => killed' = killed
  PROVE  Sole'
BY DEF Sole, Chain

LEMMA RotateSole ==
  ASSUME TypeOK, Inv, Sole, NEW e \in Flights, Rotate(e)
  PROVE  Sole'
<1>1. /\ UNCHANGED <<app, page, saved, writes, promise, toMain, toPage, starting, killed>>
      /\ flight[e].at \in {"sent", "gone"} /\ flight[e].tok = good
      /\ good' = issued + 1 /\ issued \in Nat /\ good \in Nat
  BY AuthAssumption DEF Rotate, shell, TypeOK, Held
<1>2. flight \in [Flights -> FlightType]
  BY DEF TypeOK
<1>3. /\ \A g \in Flights \ {e} : flight'[g] = flight[g]
      /\ flight'[e].by = flight[e].by /\ flight'[e].tok = flight[e].tok
      /\ At(e, "sent") => flight'[e].at = "ok" /\ flight'[e].new = good' /\ causes' = causes
      /\ ~At(e, "sent") => flight'[e].at = "done" /\ causes' # {}
  BY <1>1, <1>2 DEF Rotate, Move, FlightType
<1>4. Owned'
  <2>1. /\ Pending(e)' => Pending(e)
        /\ Under(e)' => Under(e)
        /\ ~At(e, "saving")' /\ flight'[e].at \notin {"sent", "gone"}
    BY <1>1, <1>3 DEF Pending, Under, At
  <2>2. app = "desktop" /\ starting' => toMain' = <<>> /\ toPage' = <<>>
    BY <1>1 DEF Sole, Owned
  <2>3. QED
    BY <1>1, <1>3, <2>1, <2>2, MovedOwned DEF Sole
<1>5. ASSUME causes' = {} PROVE ~killed' /\ (good' # 0 => OneBearer' /\ Copies')
  <2>1. causes = {} /\ At(e, "sent") /\ good # 0
    BY <1>1, <1>3, <1>5 DEF Sole, Owned
  <2>2. ~killed /\ OneBearer /\ Copies
    BY <1>5, <2>1 DEF Sole, Chain
  <2>3. \A g \in Flights \ {e} : ~Live(g)
    BY <2>1, <2>2 DEF OneBearer, Live, At
  <2>4. flight'[e].at = "ok" /\ flight'[e].new = good' /\ flight'[e].tok = good
    BY <1>1, <1>3, <2>1
  <2>5. \A g \in Flights \ {e} : ~Live(g)'
    BY <1>3, <2>3 DEF Live
  <2>6. OneBearer'
    BY <2>4, <2>5 DEF OneBearer, Live, At
  <2>7. NoAnswer
    BY <2>1, <2>3 DEF NoAnswer, Live, At
  <2>8. PageFollows'
    BY <1>1, <2>2, <2>4, <2>7 DEF Copies, PageFollows, Answered, NoAnswer, At
  <2>9. app = "desktop" /\ starting => flight'[e].by = Main
    BY <1>3, <2>1 DEF Sole, Owned, Under, At
  <2>10. Refusal' => Refusal
    BY <1>3, <2>4 DEF Refusal, At
  <2>11. ~Idle
    BY <2>1 DEF Idle, At
  <2>12. Copies'
    BY <1>1, <2>2, <2>4, <2>8, <2>9, <2>10, <2>11 DEF Copies, ReadAgain, At
  <2>13. QED
    BY <1>1, <2>2, <2>6, <2>12
<1>6. QED
  BY <1>4, <1>5 DEF Sole, Chain

LEMMA ReuseSole ==
  ASSUME TypeOK, Inv, Sole, NEW e \in Flights, Reuse(e)
  PROVE  Sole'
<1>1. /\ UNCHANGED <<app, page, saved, writes, promise, toMain, toPage, starting, causes>>
      /\ flight[e].at \in {"sent", "gone"} /\ flight[e].tok # good
      /\ good' = 0 /\ killed' = (killed \/ good # 0)
  BY DEF Reuse, shell
<1>2. /\ \A g \in Flights \ {e} : flight'[g] = flight[g]
      /\ flight'[e].by = flight[e].by /\ flight'[e].tok = flight[e].tok
      /\ flight'[e].at = IF At(e, "sent") THEN "refused" ELSE "done"
  BY DEF Reuse, Move, TypeOK, FlightType
<1>3. Owned'
  <2>1. /\ Pending(e)' => Pending(e)
        /\ Under(e)' => Under(e)
        /\ ~At(e, "saving")' /\ flight'[e].at \notin {"sent", "gone"}
    BY <1>1, <1>2 DEF Pending, Under, At
  <2>2. app = "desktop" /\ starting' => toMain' = <<>> /\ toPage' = <<>>
    BY <1>1 DEF Sole, Owned
  <2>3. QED
    BY <1>1, <1>2, <2>1, <2>2, MovedOwned DEF Sole
<1>4. ASSUME causes' = {} PROVE killed' = killed
  <2>1. good = 0
    BY <1>1, <1>4 DEF Sole, Chain, OneBearer
  <2>2. killed \in BOOLEAN
    BY DEF TypeOK
  <2>3. QED
    BY <1>1, <2>1, <2>2
<1>5. QED
  BY <1>1, <1>3, <1>4, Ended

LEMMA TurnAwaySole ==
  ASSUME TypeOK, Inv, Sole, NEW e \in Flights, TurnAway(e)
  PROVE  Sole'
<1>1. /\ UNCHANGED <<app, page, saved, writes, promise, toMain, toPage, starting>>
      /\ At(e, "sent") /\ causes' # {}
  BY DEF TurnAway, shell
<1>2. /\ \A g \in Flights \ {e} : flight'[g] = flight[g]
      /\ flight'[e].by = flight[e].by /\ flight'[e].tok = flight[e].tok
      /\ flight'[e].at = "refused"
  BY DEF TurnAway, Move, TypeOK, FlightType
<1>3. Owned'
  <2>1. /\ Pending(e)' => Pending(e)
        /\ Under(e)' => Under(e)
        /\ ~At(e, "saving")' /\ flight'[e].at \notin {"sent", "gone"}
    BY <1>1, <1>2 DEF Pending, Under, At
  <2>2. app = "desktop" /\ starting' => toMain' = <<>> /\ toPage' = <<>>
    BY <1>1 DEF Sole, Owned
  <2>3. QED
    BY <1>1, <1>2, <2>1, <2>2, MovedOwned DEF Sole
<1>4. QED
  BY <1>1, <1>3 DEF Sole, Chain

LEMMA BlipSole ==
  ASSUME TypeOK, Inv, Sole, NEW e \in Flights, Blip(e)
  PROVE  Sole'
<1>1. /\ UNCHANGED <<app, good, page, saved, writes, promise, toMain, toPage, starting, killed>>
      /\ flight[e].at \in {"sent", "ok"}
      /\ At(e, "sent") => causes' = causes
      /\ ~At(e, "sent") => causes' # {}
  BY DEF Blip, shell, server, At
<1>2. /\ \A g \in Flights \ {e} : flight'[g] = flight[g]
      /\ flight'[e].by = flight[e].by /\ flight'[e].tok = flight[e].tok
      /\ flight'[e].at \in {"failed", "bad"}
  BY DEF Blip, TypeOK, FlightType
<1>3. Owned'
  <2>1. /\ Pending(e)' => Pending(e)
        /\ Under(e)' => Under(e)
        /\ ~At(e, "saving")' /\ flight'[e].at \notin {"sent", "gone"}
    BY <1>1, <1>2 DEF Pending, Under, At
  <2>2. app = "desktop" /\ starting' => toMain' = <<>> /\ toPage' = <<>>
    BY <1>1 DEF Sole, Owned
  <2>3. QED
    BY <1>1, <1>2, <2>1, <2>2, MovedOwned DEF Sole
<1>4. ASSUME causes' = {} PROVE ~killed' /\ (good' # 0 => OneBearer' /\ Copies')
  <2>1. causes = {} /\ At(e, "sent")
    BY <1>1, <1>4
  <2>2. ~killed /\ (good # 0 => OneBearer /\ Copies)
    BY <2>1 DEF Sole, Chain
  <2>3. ASSUME good # 0 PROVE OneBearer' /\ Copies'
    <3>1. \A g \in Flights : At(g, "ok")' <=> At(g, "ok")
      BY <1>2, <2>1 DEF At
    <3>2. OneBearer'
      BY <1>1, <1>2, <2>2, <2>3 DEF OneBearer, Live, At
    <3>3. PageFollows'
      BY <1>1, <1>2, <2>2, <2>3, <3>1 DEF Copies, PageFollows, Answered, NoAnswer
    <3>4. Refusal' => Refusal
      BY <1>2 DEF Refusal, At
    <3>5. Idle => Idle'
      BY <1>2 DEF Idle
    <3>6. QED
      BY <1>1, <1>2, <2>2, <2>3, <3>1, <3>2, <3>3, <3>4, <3>5 DEF Copies, ReadAgain
  <2>4. QED
    BY <1>1, <2>2, <2>3
<1>5. QED
  BY <1>3, <1>4 DEF Sole, Chain

(* A page that goes away.                                                  *)
LEMMA AbandonedSole ==
  ASSUME TypeOK, Owned, NEW P \in SUBSET Processes, Abandon(P), UNCHANGED app,
         \A p \in Processes \ P : promise'[p] = promise[p],
         app = "desktop" /\ starting' =>
           P = Processes /\ toMain' = <<>> /\ toPage' = <<>> /\ saved' # 0
  PROVE  /\ Owned'
         /\ \A g \in Flights : flight'[g].tok = flight[g].tok /\ flight'[g].by = flight[g].by
         /\ \A g \in Flights : flight[g].by \in P => ~Pending(g)' /\ ~At(g, "refused")'
         /\ \A g \in Flights : flight[g].by \notin P => flight'[g].at = flight[g].at
         /\ LeftBehind(P) = {} =>
              /\ \A g \in Flights : At(g, "ok")' <=> At(g, "ok")
              /\ good' = good /\ OneBearer => OneBearer'
<1>1. \A g \in Flights :
        /\ flight'[g].by = flight[g].by /\ flight'[g].new = flight[g].new
        /\ flight'[g].tok = flight[g].tok
        /\ flight'[g].at = IF flight[g].by \in P /\ (Under(g) \/ At(g, "saving"))
                           THEN IF At(g, "sent") THEN "gone" ELSE "done"
                           ELSE flight[g].at
  BY Abandoned
<1>2. \A g \in Flights : flight[g].by \in Processes
  BY DEF TypeOK, FlightType
<1>3. \A g \in Flights : flight[g].by \in P => ~Pending(g)' /\ ~At(g, "refused")'
  BY <1>1 DEF Pending, Under, At
<1>4. \A g \in Flights : flight[g].by \notin P => flight'[g].at = flight[g].at
  BY <1>1
<1>5. Owned'
  <2>1. ASSUME NEW f \in Flights, Pending(f)'
        PROVE  promise'[flight'[f].by] = f /\ flight'[f].by \in Tabs' \cup {Main}
    <3>1. flight[f].by \in Processes \ P /\ flight'[f].by = flight[f].by
      BY <1>1, <1>2, <1>3, <2>1
    <3>2. Pending(f)
      BY <1>4, <2>1, <3>1 DEF Pending, Under, At
    <3>3. QED
      BY <3>1, <3>2 DEF Owned, Tabs
  <2>2. ASSUME NEW f \in Flights, At(f, "saving")' PROVE app' = "mobile" /\ flight'[f].by = 1
    <3>1. At(f, "saving") /\ flight'[f].by = flight[f].by
      BY <1>1, <2>2 DEF At
    <3>2. QED
      BY <3>1 DEF Owned
  <2>3. ASSUME app' = "desktop", starting'
        PROVE  /\ toMain' = <<>> /\ toPage' = <<>> /\ saved' # 0
               /\ \A f \in Flights : Under(f)' => flight'[f].by = Main
    BY <1>2, <1>3, <2>3 DEF Pending
  <2>4. ASSUME NEW f \in Flights, flight'[f].at \in {"sent", "gone"} PROVE flight'[f].tok # 0
    BY <1>1, <2>4 DEF Owned, At
  <2>5. QED
    BY <2>1, <2>2, <2>3, <2>4 DEF Owned
<1>6. ASSUME LeftBehind(P) = {}
      PROVE  /\ \A g \in Flights : At(g, "ok")' <=> At(g, "ok")
             /\ good' = good /\ OneBearer => OneBearer'
  <2>1. \A g \in Flights : flight[g].by \in P => ~At(g, "ok")
    BY <1>6 DEF LeftBehind
  <2>2. \A g \in Flights : At(g, "ok")' <=> At(g, "ok")
    BY <1>1, <2>1 DEF At
  <2>3. \A g \in Flights : Live(g)' => Live(g)
    BY <1>1 DEF Live, At
  <2>4. \A g \in Flights :
          flight'[g].at \in {"sent", "gone"} => flight[g].at \in {"sent", "gone"}
    BY <1>1 DEF At
  <2>5. QED
    BY <1>1, <2>2, <2>3, <2>4 DEF OneBearer
<1>7. QED
  BY <1>1, <1>3, <1>4, <1>5, <1>6

(* A sign-in or a sign-out that meets nothing under way.                   *)
LEMMA Unbusy ==
  ASSUME ~Busy
  PROVE  /\ toPage = <<>> /\ NoLoads(toMain)
         /\ \A v : \A j \in 1 .. Len(toMain) : Stores(toMain[j], v)
         /\ UNCHANGED flight => OneBearer' /\ NoAnswer' /\ Idle'
<1>1. \A g \in Flights : ~Live(g)
  BY DEF Busy, Live
<1>2. UNCHANGED flight => OneBearer' /\ NoAnswer' /\ Idle'
  BY <1>1 DEF OneBearer, NoAnswer, Live, At, Idle
<1>3. QED
  BY <1>2 DEF Busy, NoLoads, Stores

LEMMA LogoutPostSole ==
  ASSUME TypeOK, Inv, Sole, LogoutPost \/ Revoke
  PROVE  Sole'
<1>1. /\ UNCHANGED <<app, saved, flight, promise, toMain, toPage, starting, killed>>
      /\ good' = 0 /\ causes \subseteq causes'
  BY DEF LogoutPost, Revoke, Crossing, shell, history
<1>2. Owned'
  BY <1>1, OwnedKept DEF Sole, Owned
<1>3. QED
  BY <1>1, <1>2, Ended

LEMMA webLogoutSole ==
  ASSUME TypeOK, Inv, Sole, webLogout
  PROVE  Sole'
<1>1. /\ UNCHANGED <<app, good, saved, flight, promise, writes, toPage, starting, killed>>
      /\ app # "mobile" /\ ~starting /\ page' = 0
      /\ toMain' = IF app = "desktop" THEN Append(toMain, Clear) ELSE toMain
      /\ causes' = IF Busy THEN causes \cup {"crossed"} ELSE causes
  BY DEF webLogout, server, clearToken, Tell, Crossing
<1>2. Owned'
  BY <1>1, OwnedKept DEF Sole
<1>3. ASSUME causes' = {} PROVE ~killed' /\ OneBearer' /\ Copies'
  <2>1. causes = {} /\ ~Busy /\ ~killed
    BY <1>1, <1>3 DEF Sole, Chain
  <2>2. OneBearer' /\ PageFollows' /\ Idle'
    BY <1>1, <2>1, Unbusy DEF PageFollows
  <2>3. ASSUME app = "desktop"
        PROVE  Settles(saved, Append(toMain, Clear), 0) /\ NoLoads(Append(toMain, Clear))
    <3>1. toMain \in Seq(Message) /\ Clear \in Message /\ Clear.tok = 0 /\ Clear.op = "clear"
      BY Words DEF TypeOK, Clear
    <3>2. NoLoads(toMain) /\ \A j \in 1 .. Len(toMain) : Stores(toMain[j], 0)
      BY <2>1, Unbusy
    <3>3. Settles(saved, Append(toMain, Clear), 0)
      BY <3>1, <3>2, SettlesAppend
    <3>4. QED
      BY <3>1, <3>2, <3>3, LoadQueues
  <2>4. Mute(toPage')
    BY <1>1, <2>1, Unbusy DEF Mute
  <2>5. QED
    BY <1>1, <2>1, <2>2, <2>3, <2>4 DEF Copies
<1>4. QED
  BY <1>2, <1>3 DEF Sole, Chain

LEMMA mobileSignOutSole ==
  ASSUME TypeOK, Inv, Sole, mobileSignOut \/ mobileRevoked
  PROVE  Sole'
<1>1. /\ UNCHANGED <<app, good, saved, flight, promise, toMain, toPage, starting, killed>>
      /\ app = "mobile" /\ page' = 0 /\ writes' = Append(writes, 0)
      /\ causes' = IF Busy THEN causes \cup {"crossed"} ELSE causes
  BY DEF mobileSignOut, mobileRevoked, server, shell, Crossing
<1>2. Owned'
  BY <1>1, OwnedKept DEF Sole, Owned
<1>3. ASSUME causes' = {} PROVE ~killed' /\ OneBearer' /\ Copies'
  <2>1. causes = {} /\ ~Busy /\ ~killed
    BY <1>1, <1>3 DEF Sole, Chain
  <2>2. OneBearer' /\ PageFollows' /\ Idle'
    BY <1>1, <2>1, Unbusy DEF PageFollows
  <2>3. Ends(saved', writes') = 0
    <3>1. writes \in Seq(Held) /\ 0 \in Held
      BY Words DEF TypeOK
    <3>2. QED
      BY <1>1, <3>1, EndsQueues
  <2>4. QED
    BY <1>1, <2>1, <2>2, <2>3 DEF Copies
<1>4. QED
  BY <1>2, <1>3 DEF Sole, Chain

LEMMA SignInSole ==
  ASSUME TypeOK, Inv, Sole, SignIn
  PROVE  Sole'
<1> DEFINE n == issued + 1
<1>1. /\ UNCHANGED <<app, saved, flight, promise, toPage, starting, killed>>
      /\ ~starting /\ page' = n /\ good' = n /\ n \in Held /\ n # 0
      /\ app = "mobile" => writes' = Append(writes, n) /\ UNCHANGED toMain
      /\ app # "mobile" => toMain' = IF app = "desktop" THEN Append(toMain, Set(n)) ELSE toMain
      /\ causes' = IF Busy THEN causes \cup {"crossed"} ELSE causes
  <2>1. n \in Held /\ n # 0
    BY AuthAssumption DEF SignIn, TypeOK, Held
  <2>2. QED
    BY <2>1 DEF SignIn, setTokens, Tell, Crossing
<1>2. Owned'
  BY <1>1, OwnedKept DEF Sole
<1>3. ASSUME causes' = {} PROVE ~killed' /\ OneBearer' /\ Copies'
  <2>1. causes = {} /\ ~Busy /\ ~killed
    BY <1>1, <1>3 DEF Sole, Chain
  <2>2. OneBearer' /\ PageFollows' /\ Idle'
    BY <1>1, <2>1, Unbusy DEF PageFollows
  <2>3. ASSUME app = "desktop"
        PROVE  Settles(saved, Append(toMain, Set(n)), n) /\ NoLoads(Append(toMain, Set(n)))
    <3>1. toMain \in Seq(Message) /\ Set(n) \in Message /\ Set(n).tok = n /\ Set(n).op = "set"
      BY <1>1, Words DEF TypeOK, Set
    <3>2. NoLoads(toMain) /\ \A j \in 1 .. Len(toMain) : Stores(toMain[j], n)
      BY <2>1, Unbusy
    <3>3. n # 0
      BY <1>1
    <3> HIDE DEF n
    <3>4. Settles(saved, Append(toMain, Set(n)), n)
      BY <3>1, <3>2, <3>3, SettlesAppend
    <3>5. QED
      BY <3>1, <3>2, <3>4, LoadQueues
  <2>4. Mute(toPage')
    BY <1>1, <2>1, Unbusy DEF Mute
  <2>5. ASSUME app = "mobile" PROVE Ends(saved', writes') = n
    <3>1. writes \in Seq(Held) /\ n \in Held /\ writes' = Append(writes, n) /\ saved' = saved
      BY <1>1, <2>5 DEF TypeOK
    <3> HIDE DEF n
    <3>2. Ends(saved, Append(writes, n)) = n
      BY <3>1, EndsQueues
    <3>3. QED
      BY <3>1, <3>2
  <2>6. QED
    BY <1>1, <2>1, <2>2, <2>3, <2>4, <2>5 DEF Copies
<1>4. QED
  BY <1>2, <1>3 DEF Sole, Chain

LEMMA webRevokedSole ==
  ASSUME TypeOK, Inv, Sole, NEW t \in Tabs, webRevoked(t)
  PROVE  Sole'
<1>1. /\ UNCHANGED <<app, good, killed>> /\ ~starting' /\ Abandon({t})
      /\ promise' = [promise EXCEPT ![t] = 0]
      /\ causes \subseteq causes' /\ (good # 0 => causes' # {})
  BY DEF webRevoked, server
<1>2. {t} \in SUBSET Processes /\ \A p \in Processes \ {t} : promise'[p] = promise[p]
  <2>1. t \in Processes
    BY DEF Tabs, Processes
  <2>2. QED
    BY <1>1, <2>1 DEF TypeOK
<1>3. Owned'
  BY <1>1, <1>2, AbandonedSole DEF Sole
<1>4. CASE good = 0
  BY <1>1, <1>3, <1>4, Ended
<1>5. CASE good # 0
  BY <1>1, <1>3, <1>5 DEF Sole, Chain
<1>6. QED
  BY <1>4, <1>5

LEMMA WebReplySole ==
  ASSUME TypeOK, Inv, Sole, NEW e \in Flights, WebReply(e)
  PROVE  Sole'
<1>1. /\ UNCHANGED <<app, good, saved, writes, toPage, starting, killed, causes>>
      /\ app # "mobile" /\ flight[e].by # Main
      /\ flight[e].at \in {"ok", "refused", "bad", "failed"}
      /\ promise' = [promise EXCEPT ![flight[e].by] = 0]
  BY DEF WebReply, server, history, Land
<1>2. /\ \A g \in Flights \ {e} : flight'[g] = flight[g]
      /\ flight'[e].by = flight[e].by /\ flight'[e].tok = flight[e].tok
      /\ flight'[e].at = "done"
  BY DEF WebReply, Move, TypeOK, FlightType
<1>3. ~starting
  <2>1. app \in {"web", "desktop"}
    BY <1>1 DEF TypeOK
  <2>2. QED
    BY <1>1, <2>1 DEF Sole, Owned, Under, Inv, Places
<1>4. Owned'
  <2>1. /\ Pending(e) /\ ~Pending(e)' /\ ~Under(e)'
        /\ ~At(e, "saving")' /\ flight'[e].at \notin {"sent", "gone"}
    BY <1>1, <1>2 DEF Pending, Under, At
  <2>2. QED
    BY <1>1, <1>2, <1>3, <2>1, MovedOwned DEF Sole
<1>5. ASSUME causes = {} PROVE ~killed
  BY <1>5 DEF Sole, Chain
<1>6. ASSUME causes = {}, good # 0 PROVE OneBearer' /\ Copies'
  <2>1. OneBearer /\ Copies
    BY <1>6 DEF Sole, Chain
  <2>2. OneBearer'
    BY <1>1, <1>2, <2>1 DEF OneBearer, Live, At
  <2>3. \A g \in Flights : At(g, "ok")' <=> g # e /\ At(g, "ok")
    BY <1>2 DEF At
  <2>4. /\ toMain \in Seq(Message) /\ Clear \in Message /\ Clear.tok = 0 /\ Clear.op = "clear"
        /\ Set(good) \in Message /\ Set(good).tok = good /\ Set(good).op = "set"
    BY Words DEF TypeOK, Clear, Set
  <2>5. CASE At(e, "ok")
    <3>1. /\ flight[e].new = good /\ page' = good
          /\ toMain' = IF app = "desktop" THEN Append(toMain, Set(good)) ELSE toMain
      BY <2>1, <2>5 DEF OneBearer, WebReply, setTokens, Tell, At
    <3>2. NoAnswer'
      <4>1. \A g \in Flights : At(g, "ok") => g = e
        BY <2>1, <2>5 DEF OneBearer, Live, At
      <4>2. QED
        BY <2>3, <4>1 DEF NoAnswer
    <3>3. PageFollows'
      BY <1>1, <3>1, <3>2 DEF PageFollows
    <3>4. Refusal' => Refusal
      BY <1>2 DEF Refusal, At
    <3>5. ASSUME app = "desktop"
          PROVE  /\ Settles(saved, Append(toMain, Set(good)), good)
                 /\ Refusal => NoLoads(Append(toMain, Set(good)))
      <4>1. ~Idle
        BY <2>5 DEF Idle, At
      <4>2. page # 0 /\ (Settles(saved, toMain, page) \/ OnlyLoads(toMain))
        BY <1>3, <2>1, <3>5, <4>1 DEF Copies, ReadAgain
      <4>3. \A j \in 1 .. Len(toMain) : toMain[j].op # "get"
        BY <2>4, <4>2, SettlesAsked DEF OnlyLoads
      <4>4. \A j \in 1 .. Len(toMain) : Stores(toMain[j], good)
        BY <1>6, <4>3 DEF Stores
      <4>5. Settles(saved, Append(toMain, Set(good)), good)
        BY <1>6, <2>4, <4>4, SettlesAppend
      <4>6. Refusal => NoLoads(toMain)
        BY <1>3, <2>1, <3>5 DEF Copies
      <4>7. QED
        BY <2>4, <4>5, <4>6, LoadQueues
    <3>6. QED
      BY <1>1, <1>3, <1>6, <2>1, <2>2, <3>1, <3>3, <3>4, <3>5 DEF Copies
  <2>6. CASE At(e, "refused")
    <3>1. page' = 0 /\ toMain' = IF app = "desktop" THEN Append(toMain, Clear) ELSE toMain
      BY <2>6 DEF WebReply, At, clearToken, Tell
    <3>2. ASSUME app = "desktop"
          PROVE  Settles(saved, Append(toMain, Clear), 0) /\ NoLoads(Append(toMain, Clear))
      <4>0. NoLoads(toMain)
        BY <1>3, <2>1, <2>6, <3>2 DEF Copies, Refusal
      <4>1. Settles(saved, toMain, page) \/ OnlyLoads(toMain)
        BY <1>3, <2>1, <3>2 DEF Copies, ReadAgain
      <4>2. CASE page # 0 \/ OnlyLoads(toMain)
        <5>1. \A j \in 1 .. Len(toMain) : toMain[j].op # "get"
          BY <2>4, <4>1, <4>2, SettlesAsked DEF OnlyLoads
        <5>2. \A j \in 1 .. Len(toMain) : Stores(toMain[j], 0)
          BY <4>0, <5>1 DEF Stores, NoLoads
        <5>3. Settles(saved, Append(toMain, Clear), 0)
          BY <2>4, <5>2, SettlesAppend
        <5>4. QED
          BY <2>4, <4>0, <5>3, LoadQueues
      <4>3. CASE page = 0 /\ Settles(saved, toMain, page)
        <5>1. Agrees(Clear, 0)
          BY <2>4 DEF Agrees
        <5>2. Settles(saved, Append(toMain, Clear), 0)
          BY <2>4, <4>3, <5>1, SettlesAppend
        <5>3. QED
          BY <2>4, <4>0, <5>2, LoadQueues
      <4>4. QED
        BY <4>1, <4>2, <4>3
    <3>3. app = "desktop" => Mute(toPage)
      BY <1>3, <2>1, <2>6 DEF Copies, Refusal
    <3>4. ASSUME app = "desktop" PROVE Idle'
      <4>1. \A g \in Flights : Under(g) => flight[g].by = 1
        BY <1>3, <3>4 DEF Sole, Owned, Pending, Tabs, Inv, MainFirst
      <4>2. \A g \in Flights : Under(g) => g = e
        BY <1>1, <4>1 DEF Sole, Owned, Pending, Under
      <4>3. QED
        BY <1>2, <4>2 DEF Idle, Under
    <3>5. QED
      BY <1>1, <1>3, <2>1, <2>2, <3>1, <3>2, <3>3, <3>4 DEF Copies, PageFollows
  <2>7. CASE flight[e].at \in {"bad", "failed"}
    <3>1. UNCHANGED <<page, toMain>>
      BY <2>7 DEF WebReply, At
    <3>2. PageFollows'
      BY <1>1, <1>2, <2>1, <2>3, <2>7, <3>1 DEF Copies, PageFollows, Answered, NoAnswer, At
    <3>3. (Refusal' => Refusal) /\ (Idle => Idle')
      BY <1>2 DEF Refusal, Idle, At
    <3>4. QED
      BY <1>1, <1>3, <2>1, <2>2, <3>1, <3>2, <3>3 DEF Copies, ReadAgain
  <2>8. QED
    BY <1>1, <2>5, <2>6, <2>7 DEF At
<1>7. QED
  BY <1>1, <1>4, <1>5, <1>6 DEF Sole, Chain

LEMMA MobileReplySole ==
  ASSUME TypeOK, Inv, Sole, NEW e \in Flights, MobileReply(e)
  PROVE  Sole'
<1>1. /\ UNCHANGED <<app, good, saved, toMain, toPage, starting, killed, causes>>
      /\ app = "mobile" /\ flight[e].at \in {"ok", "refused", "bad", "failed"}
  BY DEF MobileReply, server, shell, history
<1>2. Under(e) /\ flight[e].by = 1
  BY <1>1 DEF Sole, Owned, Pending, Under, Tabs, Inv, MainFirst
<1>3. /\ \A g \in Flights \ {e} : flight'[g] = flight[g]
      /\ flight'[e].by = flight[e].by /\ flight'[e].tok = flight[e].tok
      /\ flight'[e].at \in {"saving", "done"}
      /\ \/ /\ flight'[e].at = "done" /\ At(e, "failed") /\ UNCHANGED <<page, writes>>
            /\ promise' = [promise EXCEPT ![flight[e].by] = 0]
         \/ /\ flight'[e].at = "saving" /\ promise' = promise
            /\ page' = flight[e].new /\ writes' = Append(writes, flight[e].new)
  BY DEF MobileReply, Move, Land, TypeOK, FlightType
<1>4. Owned'
  <2>1. /\ Pending(e) /\ ~Under(e)' /\ flight'[e].at \notin {"sent", "gone"}
        /\ flight'[e].at = "done" => ~Pending(e)'
    BY <1>2, <1>3 DEF Pending, Under, At
  <2>2. QED
    BY <1>1, <1>2, <1>3, <2>1, MovedOwned DEF Sole
<1>5. ASSUME causes = {} PROVE ~killed
  BY <1>5 DEF Sole, Chain
<1>6. ASSUME causes = {}, good # 0 PROVE OneBearer' /\ Copies'
  <2>1. OneBearer /\ Copies
    BY <1>6 DEF Sole, Chain
  <2>2. OneBearer'
    BY <1>1, <1>3, <2>1 DEF OneBearer, Live, At
  <2>3. \A g \in Flights : At(g, "ok")' <=> g # e /\ At(g, "ok")
    BY <1>3 DEF At
  <2>4. CASE flight'[e].at = "done"
    <3>1. At(e, "failed") /\ UNCHANGED <<page, writes>>
      BY <1>3, <2>4
    <3>2. PageFollows'
      BY <1>1, <1>3, <2>1, <2>3, <3>1 DEF Copies, PageFollows, Answered, NoAnswer, At
    <3>3. QED
      BY <1>1, <2>1, <2>2, <3>1, <3>2 DEF Copies
  <2>5. CASE flight'[e].at = "saving"
    <3>1. page' = flight[e].new /\ writes' = Append(writes, flight[e].new)
      BY <1>3, <2>5
    <3>2. PageFollows'
      <4>1. CASE At(e, "ok")
        <5>1. NoAnswer'
          <6>1. \A g \in Flights : At(g, "ok") => g = e
            BY <2>1, <4>1 DEF OneBearer, Live, At
          <6>2. QED
            BY <2>3, <6>1 DEF NoAnswer
        <5>2. QED
          BY <1>1, <2>1, <3>1, <4>1, <5>1 DEF PageFollows, OneBearer
      <4>2. CASE ~At(e, "ok")
        BY <1>1, <3>1, <4>2 DEF PageFollows, Inv, Answers, At
      <4>3. QED
        BY <4>1, <4>2
    <3>3. Ends(saved, Append(writes, flight[e].new)) = flight[e].new
      <4>1. writes \in Seq(Held) /\ flight[e].new \in Held
        BY DEF TypeOK, FlightType
      <4>2. QED
        BY <4>1, EndsQueues
    <3>4. QED
      BY <1>1, <2>2, <3>1, <3>2, <3>3 DEF Copies
  <2>6. QED
    BY <1>3, <2>4, <2>5
<1>7. QED
  BY <1>1, <1>4, <1>5, <1>6 DEF Sole, Chain

LEMMA WriteSole ==
  ASSUME TypeOK, Inv, Sole, Write
  PROVE  Sole'
<1>1. /\ UNCHANGED <<app, good, page, toMain, toPage, starting, killed, causes>>
      /\ writes # <<>> /\ saved' = Head(writes) /\ writes' = Tail(writes)
      /\ app = "mobile"
  BY DEF Write, server, shell, history, Inv, Places
<1>2. /\ flight \in [Flights -> FlightType] /\ promise \in [Processes -> 0 .. MaxFlights]
      /\ 1 \in Processes
  BY DEF TypeOK, Processes
<1>3. \A g \in Flights :
        /\ flight'[g].by = flight[g].by /\ flight'[g].tok = flight[g].tok
        /\ flight'[g].new = flight[g].new
        /\ flight'[g].at # flight[g].at => At(g, "saving") /\ flight'[g].at = "done"
  <2>1. CASE Len(writes) = 1
    <3>1. \A g \in Flights : flight'[g] =
            IF At(g, "saving") THEN [flight[g] EXCEPT !.at = "done"] ELSE flight[g]
      BY <2>1 DEF Write
    <3>2. QED
      BY <1>2, <3>1 DEF FlightType
  <2>2. CASE Len(writes) # 1
    BY <2>2 DEF Write
  <2>3. QED
    BY <2>1, <2>2
<1>4. \A g \in Flights : /\ At(g, "ok")' = At(g, "ok")
                         /\ At(g, "saving")' => At(g, "saving")
                         /\ Pending(g)' => Pending(g)
                         /\ Under(g)' = Under(g)
  BY <1>3 DEF At, Pending, Under
<1>5. Owned'
  <2>1. ASSUME NEW f \in Flights, Pending(f)'
        PROVE  promise'[flight'[f].by] = f /\ flight'[f].by \in Tabs' \cup {Main}
    <3>1. Pending(f) /\ promise[flight[f].by] = f /\ flight[f].by \in Tabs \cup {Main}
      BY <1>4, <2>1 DEF Sole, Owned
    <3>2. flight[f].by = 1
      BY <1>1, <3>1 DEF Sole, Owned, Pending, Tabs, Inv, MainFirst
    <3>3. CASE promise' = promise
      BY <1>1, <1>3, <3>1, <3>3 DEF Tabs
    <3>4. CASE promise' # promise
      <4>1. Len(writes) = 1 /\ \E g \in Flights : At(g, "saving")
        BY <3>4 DEF Write
      <4>2. PICK g \in Flights : At(g, "saving")
        BY <4>1
      <4>3. promise[1] = g
        BY <4>2 DEF Sole, Owned, Pending
      <4>4. g = f
        BY <3>1, <3>2, <4>3
      <4>5. flight'[f].at = "done"
        BY <1>2, <4>1, <4>2, <4>4 DEF Write, FlightType
      <4>6. QED
        BY <2>1, <4>5 DEF Pending, Under, At
    <3>5. QED
      BY <3>3, <3>4
  <2>2. \A f \in Flights : At(f, "saving")' => app' = "mobile" /\ flight'[f].by = 1
    BY <1>1, <1>3, <1>4 DEF Sole, Owned
  <2>3. \A f \in Flights : flight'[f].at \in {"sent", "gone"} => flight'[f].tok # 0
    BY <1>3 DEF Sole, Owned
  <2>4. QED
    BY <1>1, <2>1, <2>2, <2>3 DEF Owned
<1>6. ASSUME causes = {}, good # 0 PROVE OneBearer' /\ Copies'
  <2>1. OneBearer /\ Copies
    BY <1>6 DEF Sole, Chain
  <2>2. \A g \in Flights : Live(g)' = Live(g)
    BY <1>3 DEF Live, At
  <2>3. OneBearer'
    BY <1>1, <1>3, <1>4, <2>1, <2>2 DEF OneBearer, At
  <2>4. PageFollows'
    BY <1>1, <1>3, <1>4, <2>1 DEF Copies, PageFollows, Answered, NoAnswer
  <2>5. Ends(Head(writes), Tail(writes)) = Ends(saved, writes)
    <3>1. writes \in Seq(Held)
      BY DEF TypeOK
    <3>2. QED
      BY <1>1, <3>1, EndsQueues
  <2>6. QED
    BY <1>1, <2>1, <2>3, <2>4, <2>5 DEF Copies
<1>7. QED
  BY <1>1, <1>5, <1>6 DEF Sole, Chain

LEMMA SyncSole ==
  ASSUME TypeOK, Inv, Sole, Sync
  PROVE  Sole'
<1>1. /\ UNCHANGED <<app, good, page, saved, flight, promise, writes, toMain, starting, killed, causes>>
      /\ app = "desktop" /\ ~starting /\ toPage' = Append(toPage, Read)
  BY DEF Sync, server, history
<1>2. Owned'
  BY <1>1, OwnedKept DEF Sole
<1>3. toPage \in Seq(Script) /\ Read \in Script /\ Read.tok = 0
  BY Words DEF TypeOK, Read
<1>4. (Mute(toPage) => Mute(toPage')) /\ HasRead(toPage')
  BY <1>1, <1>3, MuteQueues, ReadQueues
<1>5. OneBearer' = OneBearer /\ (Copies => Copies')
  BY <1>1, <1>4, BearersKept DEF Copies, PageFollows, ReadAgain, Idle
<1>6. QED
  BY <1>1, <1>2, <1>5 DEF Sole, Chain

LEMMA RestoreSole ==
  ASSUME TypeOK, Inv, Sole, Restore
  PROVE  Sole'
<1> DEFINE get == [op |-> "get", tok |-> 0]
<1>1. /\ UNCHANGED <<app, good, page, saved, flight, promise, writes, toPage, starting, killed, causes>>
      /\ app = "desktop" /\ ~starting /\ page = 0 /\ toMain' = Append(toMain, get)
  BY DEF Restore, Tell, server, history
<1>2. Owned'
  BY <1>1, OwnedKept DEF Sole
<1>3. toMain \in Seq(Message) /\ get \in Message /\ get.tok = 0 /\ get.op # "loaded"
  BY Words DEF TypeOK
<1> HIDE DEF get
<1>4. ASSUME Copies PROVE Copies'
  <2>1. Settles(saved, toMain, 0)
    BY <1>1, <1>3, <1>4, SettlesLoads DEF Copies, ReadAgain
  <2>2. Agrees(get, 0)
    BY <1>3 DEF Agrees
  <2>3. Settles(saved, Append(toMain, get), 0)
    BY <1>3, <2>1, <2>2, SettlesAppend
  <2>4. Refusal => NoLoads(toMain')
    BY <1>1, <1>3, <1>4, LoadQueues DEF Copies
  <2>5. QED
    BY <1>1, <1>4, <2>3, <2>4, BearersKept DEF Copies, PageFollows, Idle
<1>5. OneBearer' = OneBearer
  BY <1>1, BearersKept
<1>6. QED
  BY <1>1, <1>2, <1>4, <1>5 DEF Sole, Chain

LEMMA RunScriptSole ==
  ASSUME TypeOK, Inv, Sole, RunScript
  PROVE  Sole'
<1> DEFINE s == Head(toPage)
           snap == [op |-> "snap", tok |-> page]
<1>1. /\ UNCHANGED <<app, good, saved, flight, promise, writes, starting, killed>>
      /\ toPage # <<>> /\ toPage' = Tail(toPage)
      /\ page' = IF s.op \in {"inject", "give"} /\ s.tok # 0 THEN s.tok ELSE page
      /\ toMain' = IF s.op = "read" THEN Append(toMain, snap) ELSE toMain
      /\ causes' = IF /\ s.op \in {"inject", "give"} /\ s.tok \notin {0, page}
                      /\ (page # 0 \/ s.tok # good)
                   THEN causes \cup {"overwritten"} ELSE causes
  BY DEF RunScript, server
<1>2. app = "desktop" /\ ~starting
  BY <1>1 DEF Sole, Owned, Inv, Places
<1>3. Owned'
  BY <1>1, <1>2, OwnedKept DEF Sole
<1>4. /\ toMain \in Seq(Message) /\ toPage \in Seq(Script)
      /\ snap \in Message /\ snap.tok = page /\ snap.op # "loaded"
  BY Words DEF TypeOK
<1> HIDE DEF s, snap
<1>5. ASSUME causes' = {} PROVE causes = {} /\ ~killed
  BY <1>1, <1>5 DEF Sole, Chain
<1>6. ASSUME causes' = {}, good # 0 PROVE OneBearer' /\ Copies'
  <2>1. OneBearer /\ Copies
    BY <1>5, <1>6 DEF Sole, Chain
  <2>2. Mute(toPage) => s.tok = 0 /\ Mute(toPage')
    BY <1>1, <1>4, MuteQueues DEF s
  <2>3. page' = page
    <3>1. page = 0 => s.tok = 0
      BY <1>2, <2>1, <2>2 DEF Copies
    <3>2. QED
      BY <1>1, <1>6, <3>1
  <2>4. Settles(saved, toMain', page) \/ ReadAgain'
    <3>1. CASE s.op = "read"
      <4>1. toMain' = Append(toMain, snap)
        BY <1>1, <3>1
      <4>2. Settles(saved, toMain, page) \/ (page # 0 /\ OnlyLoads(toMain))
        BY <1>2, <1>4, <2>1, SettlesLoads DEF Copies, ReadAgain
      <4>3. page \in Held
        BY DEF TypeOK
      <4>4. Settles(saved, Append(toMain, snap), page)
        <5>1. CASE Settles(saved, toMain, page)
          <6>1. Agrees(snap, page)
            BY <1>4 DEF Agrees
          <6>2. QED
            BY <1>4, <5>1, <6>1, SettlesAppend
        <5>2. CASE page # 0 /\ OnlyLoads(toMain)
          <6>1. \A j \in 1 .. Len(toMain) : Stores(toMain[j], page)
            BY <5>2 DEF OnlyLoads, Stores
          <6>2. QED
            BY <1>4, <5>2, <6>1, SettlesAppend
        <5>3. QED
          BY <4>2, <5>1, <5>2
      <4>5. QED
        BY <4>1, <4>4
    <3>2. CASE s.op # "read"
      <4>1. HasRead(toPage) => HasRead(toPage')
        BY <1>1, <1>4, <3>2, ReadQueues DEF s
      <4>2. QED
        BY <1>1, <1>2, <2>1, <3>2, <4>1 DEF Copies, ReadAgain
    <3>3. QED
      BY <3>1, <3>2
  <2>5. Refusal => NoLoads(toMain')
    BY <1>1, <1>2, <1>4, <2>1, LoadQueues DEF Copies
  <2>6. QED
    BY <1>1, <1>2, <2>1, <2>2, <2>3, <2>4, <2>5, BearersKept DEF Copies, PageFollows, Idle
<1>7. QED
  BY <1>1, <1>3, <1>5, <1>6 DEF Sole, Chain

LEMMA HandleSole ==
  ASSUME TypeOK, Inv, Sole, Handle
  PROVE  Sole'
<1> DEFINE m == Head(toMain)
           give == [op |-> "give", tok |-> saved]
<1>1. /\ UNCHANGED <<app, good, page, flight, promise, writes, starting, killed, causes>>
      /\ toMain # <<>> /\ toMain' = Tail(toMain)
      /\ \/ m.op \in {"set", "clear", "snap"} /\ saved' = m.tok /\ UNCHANGED toPage
         \/ m.op = "snap" /\ m.tok = 0 /\ saved' = saved /\ UNCHANGED toPage
         \/ m.op = "get" /\ toPage' = Append(toPage, give) /\ UNCHANGED saved
         \/ m.op = "loaded" /\ toPage' = toPage \o Loaded /\ UNCHANGED saved
  BY DEF Handle, server, history
<1>2. app = "desktop" /\ ~starting
  BY <1>1 DEF Sole, Owned, Inv, Places
<1>3. Owned'
  BY <1>1, <1>2, OwnedKept DEF Sole
<1>4. /\ toMain \in Seq(Message) /\ toPage \in Seq(Script)
      /\ give \in Script /\ give.tok = saved
  BY Words DEF TypeOK
<1> HIDE DEF m, give
<1>5. ASSUME Copies PROVE Copies'
  <2>1. \/ Settles(saved, toMain, page)
        \/ saved = 0 /\ m.op = "loaded" /\ OnlyLoads(Tail(toMain)) /\ HasRead(toPage)
    BY <1>1, <1>2, <1>4, <1>5, LoadQueues DEF Copies, ReadAgain, m
  <2>2. ASSUME Settles(saved, toMain, page)
        PROVE  /\ m.op \in {"set", "clear", "snap"} => Settles(m.tok, Tail(toMain), page)
               /\ m.op = "snap" /\ m.tok = 0 => Settles(saved, Tail(toMain), page)
               /\ m.op = "get" => saved = 0 /\ Settles(saved, Tail(toMain), page)
               /\ m.op = "loaded" => (page = 0 => saved = 0) /\ Settles(saved, Tail(toMain), page)
    BY <1>1, <1>4, <2>2, SettlesTail DEF m
  <2>3. saved \in Held /\ (m.op = "loaded" => HasRead(toPage') /\ (saved = 0 /\ Mute(toPage) => Mute(toPage')))
    <3>1. saved \in Held
      BY DEF TypeOK
    <3>2. QED
      BY <1>1, <1>4, <3>1, OpenedRead DEF Loaded
  <2>4. Settles(saved', toMain', page) \/ ReadAgain'
    <3>1. CASE Settles(saved, toMain, page)
      BY <1>1, <2>2, <3>1
    <3>2. CASE saved = 0 /\ m.op = "loaded" /\ OnlyLoads(Tail(toMain))
      BY <1>1, <2>3, <3>2 DEF ReadAgain
    <3>3. QED
      BY <2>1, <3>1, <3>2
  <2>5. Refusal => NoLoads(toMain') /\ m.op # "loaded"
    BY <1>1, <1>2, <1>4, <1>5, LoadQueues DEF Copies, m
  <2>6. m.op = "get" => saved = 0
    BY <2>1, <2>2
  <2>7. m.op = "loaded" /\ page = 0 => saved = 0
    BY <2>1, <2>2
  <2>8. page = 0 \/ Refusal => Mute(toPage')
    <3>1. ASSUME page = 0 \/ Refusal PROVE Mute(toPage')
      <4>1. Mute(toPage)
        BY <1>2, <1>5, <3>1 DEF Copies
      <4>2. m.op = "get" => Mute(Append(toPage, give))
        BY <1>4, <2>6, <4>1, MuteQueues
      <4>3. m.op = "loaded" => Mute(toPage')
        BY <2>3, <2>5, <2>7, <3>1, <4>1
      <4>4. QED
        BY <1>1, <4>1, <4>2, <4>3
    <3>2. QED
      BY <3>1
  <2>9. QED
    BY <1>1, <1>2, <1>5, <2>4, <2>5, <2>8, BearersKept DEF Copies, PageFollows, Idle
<1>6. OneBearer' = OneBearer
  BY <1>1, BearersKept
<1>7. QED
  BY <1>1, <1>3, <1>5, <1>6 DEF Sole, Chain

LEMMA ReadySole ==
  ASSUME TypeOK, Inv, Sole, Ready
  PROVE  Sole'
<1>1. /\ UNCHANGED <<app, good, saved, flight, promise, toMain, toPage, killed, causes>>
      /\ app = "mobile" /\ ~starting'
      /\ \/ UNCHANGED <<page, writes>>
         \/ page' = 0 /\ writes' = Append(writes, 0)
  BY DEF Ready, server, history
<1>2. Owned'
  BY <1>1 DEF Sole, Owned, Pending, Under, At, Tabs
<1>3. ASSUME Copies PROVE Copies'
  <2>1. writes \in Seq(Held) /\ 0 \in Held
    BY Words DEF TypeOK
  <2>2. Ends(saved, Append(writes, 0)) = 0
    BY <2>1, EndsQueues
  <2>3. Ends(saved', writes') = page'
    BY <1>1, <1>3, <2>2 DEF Copies
  <2>4. PageFollows'
    BY <1>1, <1>3, BearersKept DEF Copies, PageFollows
  <2>5. QED
    BY <1>1, <2>3, <2>4 DEF Copies
<1>4. OneBearer' = OneBearer
  BY <1>1, BearersKept
<1>5. QED
  BY <1>1, <1>2, <1>3, <1>4 DEF Sole, Chain

LEMMA ReloadSole ==
  ASSUME TypeOK, Inv, Sole, NEW t \in Tabs, Reload(t)
  PROVE  Sole'
<1> DEFINE loaded == [op |-> "loaded", tok |-> 0]
<1>1. /\ UNCHANGED <<app, good, page, saved, writes, toPage, starting, killed>>
      /\ app # "mobile" /\ ~starting /\ Abandon({t})
      /\ promise' = [promise EXCEPT ![t] = 0]
      /\ causes' = causes \cup LeftBehind({t})
      /\ toMain' = IF app = "desktop" THEN Append(toMain, loaded) ELSE toMain
  BY DEF Reload, server, Tell
<1>2. {t} \in SUBSET Processes /\ \A p \in Processes \ {t} : promise'[p] = promise[p]
  <2>1. t \in Processes
    BY DEF Tabs, Processes
  <2>2. QED
    BY <1>1, <2>1 DEF TypeOK
<1>3. /\ Owned'
      /\ \A g \in Flights : flight'[g].tok = flight[g].tok /\ flight'[g].by = flight[g].by
      /\ \A g \in Flights : flight[g].by \in {t} => ~Pending(g)' /\ ~At(g, "refused")'
      /\ \A g \in Flights : flight[g].by \notin {t} => flight'[g].at = flight[g].at
      /\ LeftBehind({t}) = {} =>
           /\ \A g \in Flights : At(g, "ok")' <=> At(g, "ok")
           /\ good' = good /\ OneBearer => OneBearer'
  BY <1>1, <1>2, AbandonedSole DEF Sole
<1>4. ASSUME causes' = {} PROVE causes = {} /\ LeftBehind({t}) = {} /\ ~killed
  BY <1>1, <1>4 DEF Sole, Chain
<1>5. ASSUME causes' = {}, good # 0 PROVE OneBearer' /\ Copies'
  <2>1. OneBearer /\ Copies
    BY <1>4, <1>5 DEF Sole, Chain
  <2>2. OneBearer' /\ \A g \in Flights : At(g, "ok")' <=> At(g, "ok")
    BY <1>1, <1>3, <1>4, <1>5, <2>1
  <2>3. PageFollows'
    BY <1>1, <1>3, <2>1, <2>2 DEF Copies, PageFollows, Answered, NoAnswer
  <2>4. ASSUME app = "desktop"
        PROVE  /\ Settles(saved', toMain', page') \/ ReadAgain'
               /\ page' = 0 => Idle'
               /\ page' = 0 \/ Refusal' => Mute(toPage')
               /\ Refusal' => NoLoads(toMain')
    <3>1. /\ Settles(saved, toMain, page) \/ ReadAgain
          /\ page = 0 => Idle /\ Mute(toPage)
      BY <1>1, <2>1, <2>4 DEF Copies
    <3>2. /\ toMain \in Seq(Message) /\ toMain' = Append(toMain, loaded)
          /\ loaded \in Message /\ loaded.op = "loaded"
      BY <1>1, <2>4, Words DEF TypeOK
    <3> HIDE DEF loaded
    <3>3. Settles(saved, toMain, page) => Settles(saved, toMain', page)
      <4>1. Agrees(loaded, page)
        BY <3>2 DEF Agrees
      <4>2. QED
        BY <3>2, <4>1, SettlesAppend
    <3>4. ReadAgain => ReadAgain'
      BY <1>1, <3>2, LoadQueues DEF ReadAgain
    <3>5. ~Refusal'
      <4>1. \A g \in Flights : Under(g) => flight[g].by = t
        BY <1>1, <2>4 DEF Sole, Owned, Pending, Tabs, Inv, MainFirst
      <4>2. ASSUME NEW g \in Flights, At(g, "refused")' PROVE FALSE
        BY <1>3, <4>1, <4>2 DEF Under, At
      <4>3. QED
        BY <4>2 DEF Refusal
    <3>6. Idle => Idle'
      <4>1. ASSUME Idle, NEW g \in Flights PROVE flight'[g].at \notin {"sent", "ok"}
        <5>1. CASE flight[g].by = t
          BY <1>3, <5>1 DEF Pending, Under
        <5>2. CASE flight[g].by # t
          BY <1>3, <4>1, <5>2 DEF Idle
        <5>3. QED
          BY <5>1, <5>2
      <4>2. QED
        BY <4>1 DEF Idle
    <3>7. QED
      BY <1>1, <3>1, <3>3, <3>4, <3>5, <3>6 DEF ReadAgain
  <2>5. QED
    BY <1>1, <2>1, <2>2, <2>3, <2>4 DEF Copies
<1>6. QED
  BY <1>1, <1>3, <1>4, <1>5 DEF Sole, Chain

LEMMA QuitSole ==
  ASSUME TypeOK, Inv, Sole, Quit
  PROVE  Sole'
<1>1. /\ UNCHANGED <<app, good, saved, killed>>
      /\ app # "web" /\ (starting => app = "mobile") /\ Abandon(Processes)
      /\ causes' = causes \cup LeftBehind(Processes)
           \cup (IF toMain # <<>> \/ writes # <<>> THEN {"crash"} ELSE {})
      /\ toMain' = <<>> /\ writes' = <<>>
      /\ toPage' = IF app = "desktop" /\ saved = 0 THEN Loaded ELSE <<>>
      /\ starting' = (saved # 0)
      /\ page' = IF app = "mobile" THEN saved ELSE page
  BY DEF Quit, server
<1>2. Processes \in SUBSET Processes /\ \A p \in Processes \ Processes : promise'[p] = promise[p]
  OBVIOUS
<1>3. app = "desktop" /\ starting' => toMain' = <<>> /\ toPage' = <<>> /\ saved' # 0
  BY <1>1
<1>4. /\ Owned'
      /\ \A g \in Flights : flight[g].by \in Processes => ~Pending(g)' /\ ~At(g, "refused")'
      /\ LeftBehind(Processes) = {} =>
           /\ \A g \in Flights : At(g, "ok")' <=> At(g, "ok")
           /\ good' = good /\ OneBearer => OneBearer'
  BY <1>1, <1>2, <1>3, AbandonedSole DEF Sole
<1>5. \A g \in Flights : flight[g].by \in Processes
  BY DEF TypeOK, FlightType
<1>6. ASSUME causes' = {}
      PROVE causes = {} /\ LeftBehind(Processes) = {} /\ toMain = <<>> /\ writes = <<>> /\ ~killed
  BY <1>1, <1>6 DEF Sole, Chain
<1>7. ASSUME causes' = {}, good # 0 PROVE OneBearer' /\ Copies'
  <2>1. OneBearer /\ Copies
    BY <1>6, <1>7 DEF Sole, Chain
  <2>2. OneBearer'
    BY <1>1, <1>4, <1>6, <1>7, <2>1
  <2>3. NoAnswer /\ NoAnswer' /\ Idle' /\ ~Refusal'
    <3>1. \A g \in Flights : ~Pending(g)' /\ ~At(g, "refused")' /\ (At(g, "ok")' <=> At(g, "ok"))
      BY <1>4, <1>5, <1>6, <1>7
    <3>2. QED
      BY <3>1 DEF NoAnswer, Idle, Refusal, Pending, Under, At
  <2>4. page \in {0, good}
    BY <2>1, <2>3 DEF Copies, PageFollows, Answered, NoAnswer
  <2>5. CASE app = "mobile"
    <3>1. saved = page
      BY <1>6, <1>7, <2>1, <2>5 DEF Copies, Ends
    <3>2. QED
      BY <1>1, <2>2, <2>3, <2>4, <2>5, <3>1 DEF Copies, PageFollows, Ends
  <2>6. CASE app = "desktop"
    <3>1. ~starting /\ UNCHANGED page /\ PageFollows'
      BY <1>1, <2>3, <2>4, <2>6 DEF PageFollows
    <3>2. CASE saved # 0
      <4>1. saved = page
        BY <1>6, <1>7, <2>1, <2>6, <3>1, <3>2, SettlesNone DEF Copies, ReadAgain
      <4>2. QED
        BY <1>1, <2>2, <2>4, <2>6, <3>1, <3>2, <4>1 DEF Copies
    <3>3. CASE saved = 0
      <4>1. saved \in Held /\ toPage \in Seq(Script)
        BY DEF TypeOK
      <4>2. HasRead(Loaded) /\ Mute(Loaded)
        BY <3>3, <4>1, OpenedRead DEF Loaded
      <4>3. ReadAgain'
        <5>1. OnlyLoads(toMain')
          BY <1>1 DEF OnlyLoads
        <5>2. QED
          BY <1>1, <2>6, <3>3, <4>2, <5>1 DEF ReadAgain
      <4>4. QED
        BY <1>1, <2>2, <2>3, <2>6, <3>1, <3>3, <4>2, <4>3 DEF Copies
    <3>4. QED
      BY <3>2, <3>3
  <2>7. QED
    BY <1>1, <2>5, <2>6 DEF TypeOK
<1>8. QED
  BY <1>1, <1>4, <1>6, <1>7 DEF Sole, Chain

LEMMA ProbeSole ==
  ASSUME TypeOK, Inv, Sole, Probe
  PROVE  Sole'
<1>1. /\ UNCHANGED <<app, good, saved, flight, promise, writes, toMain, killed>>
      /\ app = "desktop" /\ starting /\ ~starting' /\ promise[Main] = 0
      /\ causes \subseteq causes' /\ (causes' = {} => page' = saved)
      /\ saved # 0 /\ toMain = <<>>
  BY DEF Probe, Boot, server, Sole, Owned
<1>2. Owned'
  BY <1>1 DEF Sole, Owned, Pending, Under, At, Tabs
<1>3. NoAnswer /\ ~Refusal
  <2>1. \A g \in Flights : g # 0
    BY DEF Flights
  <2>2. \A g \in Flights : ~Under(g)
    BY <1>1, <2>1 DEF Sole, Owned, Pending
  <2>3. QED
    BY <2>2 DEF NoAnswer, Refusal, Under, At
<1>4. ASSUME causes' = {} PROVE causes = {} /\ ~killed
  BY <1>1, <1>4 DEF Sole, Chain
<1>5. ASSUME causes' = {}, good # 0 PROVE OneBearer' /\ Copies'
  <2>1. OneBearer /\ Copies
    BY <1>4, <1>5 DEF Sole, Chain
  <2>2. saved = good /\ page' = good
    BY <1>1, <1>3, <1>5, <2>1 DEF Copies, NoAnswer
  <2>3. Settles(saved', toMain', page')
    BY <1>1, <2>2, SettlesNone
  <2>4. QED
    BY <1>1, <1>3, <1>5, <2>1, <2>2, <2>3, BearersKept DEF Copies, PageFollows
<1>6. QED
  BY <1>1, <1>2, <1>4, <1>5 DEF Sole, Chain

LEMMA MainReplySole ==
  ASSUME TypeOK, Inv, Sole, NEW e \in Flights, MainReply(e)
  PROVE  Sole'
<1> DEFINE n == IF At(e, "failed") THEN saved ELSE flight[e].new
<1>1. /\ UNCHANGED <<app, good, writes, toMain, killed>>
      /\ flight[e].by = Main /\ flight[e].at \in {"ok", "refused", "bad", "failed"}
      /\ promise' = [promise EXCEPT ![flight[e].by] = 0]
      /\ saved' = n /\ ~starting'
      /\ toPage' = (IF n # 0 THEN <<Inject(n)>> ELSE <<>>) \o <<Read>>
      /\ causes \subseteq causes'
      /\ causes' = {} => page' = (IF n # 0 THEN n ELSE page)
  BY DEF MainReply, Boot, Land, server
<1>2. /\ \A g \in Flights \ {e} : flight'[g] = flight[g]
      /\ flight'[e].by = flight[e].by /\ flight'[e].tok = flight[e].tok
      /\ flight'[e].at = "done"
  BY DEF MainReply, Move, TypeOK, FlightType
<1>3. /\ app = "desktop" /\ starting /\ promise[Main] = e /\ toMain = <<>> /\ saved # 0
      /\ n \in Held
  <2>1. Under(e)
    BY <1>1 DEF Under
  <2>2. QED
    BY <1>1, <2>1 DEF Sole, Owned, Inv, MainFirst, TypeOK, FlightType
<1>4. Owned'
  <2>1. /\ Pending(e) /\ ~Pending(e)' /\ ~Under(e)'
        /\ ~At(e, "saving")' /\ flight'[e].at \notin {"sent", "gone"}
    BY <1>1, <1>2 DEF Pending, Under, At
  <2>2. QED
    BY <1>1, <1>2, <2>1, MovedOwned DEF Sole
<1>5. /\ \A g \in Flights : At(g, "ok") => g = e
      /\ NoAnswer' /\ Idle' /\ ~Refusal'
  <2>1. \A g \in Flights : Under(g) => g = e
    BY <1>3 DEF Sole, Owned, Pending
  <2>2. \A g \in Flights : ~Under(g)'
    BY <1>2, <2>1 DEF Under
  <2>3. QED
    BY <2>1, <2>2 DEF NoAnswer, Idle, Refusal, Under, At
<1>6. ASSUME causes' = {} PROVE causes = {} /\ ~killed
  BY <1>1, <1>6 DEF Sole, Chain
<1>7. ASSUME causes' = {}, good # 0 PROVE OneBearer' /\ Copies'
  <2>1. OneBearer /\ Copies
    BY <1>6, <1>7 DEF Sole, Chain
  <2>2. OneBearer'
    BY <1>1, <1>2, <2>1 DEF OneBearer, Live, At
  <2>3. CASE At(e, "ok")
    <3>1. n = good
      BY <2>1, <2>3 DEF OneBearer, At
    <3> HIDE DEF n
    <3>2. page' = good /\ saved' = good /\ Settles(saved', toMain', page')
      BY <1>1, <1>3, <1>7, <3>1, SettlesNone
    <3>3. QED
      BY <1>1, <1>3, <1>5, <1>7, <2>2, <3>2 DEF Copies, PageFollows
  <2>4. CASE ~At(e, "ok")
    <3>1. NoAnswer /\ saved = good /\ page \in {0, good}
      <4>1. NoAnswer
        BY <1>5, <2>4 DEF NoAnswer
      <4>2. QED
        BY <1>3, <2>1, <4>1 DEF Copies, PageFollows, Answered, NoAnswer
    <3>2. CASE At(e, "failed")
      <4>1. n = good
        BY <3>1, <3>2
      <4> HIDE DEF n
      <4>2. page' = good /\ saved' = good /\ Settles(saved', toMain', page')
        BY <1>1, <1>3, <1>7, <4>1, SettlesNone
      <4>3. QED
        BY <1>1, <1>3, <1>5, <1>7, <2>2, <4>2 DEF Copies, PageFollows
    <3>3. CASE ~At(e, "failed")
      <4>1. n = 0
        BY <1>1, <2>4, <3>3 DEF Inv, Answers, At
      <4> HIDE DEF n
      <4>2. page' = page /\ saved' = 0
        BY <1>1, <1>7, <4>1
      <4>3. toPage \in Seq(Script)
        BY DEF TypeOK
      <4>4. HasRead(toPage') /\ Mute(toPage')
        BY <1>1, <1>3, <4>1, <4>3, OpenedRead
      <4>5. ReadAgain' /\ PageFollows'
        <5>1. OnlyLoads(toMain')
          BY <1>1, <1>3 DEF OnlyLoads
        <5>2. QED
          BY <1>1, <1>3, <1>5, <3>1, <4>2, <4>4, <5>1 DEF ReadAgain, PageFollows
      <4>6. QED
        BY <1>1, <1>3, <1>5, <2>2, <4>4, <4>5 DEF Copies
    <3>4. QED
      BY <3>2, <3>3
  <2>5. QED
    BY <2>3, <2>4
<1>8. QED
  BY <1>1, <1>4, <1>6, <1>7 DEF Sole, Chain

LEMMA InitSole == Init => Sole
<1> SUFFICES ASSUME Init PROVE Sole
  OBVIOUS
<1>1. \A f \in Flights : flight[f].at = "none"
  BY DEF Init, NoFlight
<1>2. Owned
  BY <1>1 DEF Init, Owned, Pending, Under, At
<1>3. OneBearer /\ NoAnswer /\ Idle /\ ~Refusal
  BY <1>1 DEF OneBearer, Live, NoAnswer, Idle, Refusal, At
<1>4. PageFollows
  BY <1>3 DEF Init, PageFollows
<1>5. app = "desktop" => Settles(saved, toMain, page)
  BY SettlesNone DEF Init
<1>6. app = "mobile" => Ends(saved, writes) = page
  BY DEF Init, Ends
<1>7. Copies
  BY <1>3, <1>4, <1>5, <1>6 DEF Copies, Init
<1>8. QED
  BY <1>2, <1>3, <1>7 DEF Sole, Chain, Init

LEMMA NextSole == TypeOK /\ Inv /\ Sole /\ [Next]_vars => Sole'
<1> SUFFICES ASSUME TypeOK, Inv, Sole, [Next]_vars PROVE Sole'
  OBVIOUS
<1>1. CASE UNCHANGED vars
  <2>1. /\ UNCHANGED <<app, good, page, saved, flight, promise, writes, toMain, toPage>>
        /\ UNCHANGED <<starting, killed, causes>>
    BY <1>1 DEF vars, server, shell, history
  <2>2. Owned'
    BY <2>1 DEF Sole, Owned, Pending, Under, At, Tabs
  <2>3. Copies => Copies'
    BY <2>1, BearersKept DEF Copies, PageFollows, ReadAgain, Idle, At
  <2>4. OneBearer' = OneBearer
    BY <2>1, BearersKept
  <2>5. QED
    BY <2>1, <2>2, <2>3, <2>4 DEF Sole, Chain
<1>2. ASSUME NEW t \in Tabs, NEW isApi \in BOOLEAN, Ask(t, isApi) PROVE Sole'
  BY <1>2, AskSole
<1>3. ASSUME NEW t \in Tabs, webRevoked(t) \/ Reload(t) PROVE Sole'
  BY <1>3, webRevokedSole, ReloadSole
<1>4. ASSUME NEW f \in Flights,
             \/ Rotate(f) \/ Reuse(f) \/ TurnAway(f) \/ Blip(f)
             \/ WebReply(f) \/ MobileReply(f) \/ MainReply(f)
      PROVE  Sole'
  BY <1>4, RotateSole, ReuseSole, TurnAwaySole, BlipSole, WebReplySole, MobileReplySole, MainReplySole
<1>5. CASE Write \/ LogoutPost \/ webLogout \/ mobileSignOut \/ SignIn \/ Revoke \/ mobileRevoked
  BY <1>5, WriteSole, LogoutPostSole, webLogoutSole, mobileSignOutSole, SignInSole
<1>6. CASE Sync \/ Restore \/ RunScript \/ Handle
  BY <1>6, SyncSole, RestoreSole, RunScriptSole, HandleSole
<1>7. CASE Quit \/ Ready \/ Probe \/ Exchange
  BY <1>7, QuitSole, ReadySole, ProbeSole, ExchangeSole
<1>8. QED
  BY <1>1, <1>2, <1>3, <1>4, <1>5, <1>6, <1>7 DEF Next

LEMMA SoleHolds == Spec => []Sole
<1>1. TypeOK /\ Inv /\ Sole /\ [Next]_vars => Sole'
  BY NextSole
<1>2. QED
  BY InitSole, <1>1, InvHolds, PTL DEF Spec

(* A session ends because a token came twice only after one of the named    *)
(* things, each of which may have lost the newest: refreshAccess, the      *)
(* vault and the store present no token a second time by themselves.       *)
THEOREM ReuseHolds == Spec => []ReuseHasCause
<1>1. Sole => ReuseHasCause
  BY DEF Sole, Chain, ReuseHasCause
<1>2. QED
  BY SoleHolds, <1>1, PTL

(* When nothing is under way, the page and the copy that survives it, the   *)
(* vault of the shell or the store of the phone, both have the token that  *)
(* is good, or the user is signed out in both.                             *)
THEOREM InStepHolds == Spec => []InStep
<1>1. TypeOK /\ Inv /\ Sole => InStep
  <2> SUFFICES ASSUME TypeOK, Inv, Sole, Quiet, good # 0, causes = {}
               PROVE  page \in {0, good} /\ (app # "web" => saved = page)
    BY DEF InStep
  <2>1. Copies /\ NoAnswer
    BY DEF Sole, Chain, Quiet, NoAnswer, At
  <2>2. page \in {0, good}
    BY <2>1 DEF Copies, PageFollows, Answered, NoAnswer
  <2>3. CASE app = "mobile"
    BY <2>1, <2>2, <2>3 DEF Copies, Ends, Quiet
  <2>4. CASE app = "desktop"
    <3>1. ~HasRead(toPage)
      BY DEF Quiet, HasRead
    <3>2. QED
      BY <2>1, <2>2, <2>4, <3>1, SettlesNone DEF Copies, ReadAgain, Quiet
  <2>5. QED
    BY <2>2, <2>3, <2>4 DEF TypeOK
<1>2. QED
  BY <1>1, InvHolds, SoleHolds, PTL
=============================================================================
