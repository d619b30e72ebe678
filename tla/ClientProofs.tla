---------------------------- MODULE ClientProofs ----------------------------
(***************************************************************************)
(* Proofs about ChatClient, for conversations and streams of any length,   *)
(* any number of sends and retries of the client, and any even page.       *)
(***************************************************************************)
EXTENDS ChatClient, SequenceTheorems, TLAPS

USE DEF Terminal

-----------------------------------------------------------------------------
(* Ids, views and pages                                                    *)

\* The ids of an exchange: the reply is even, its question comes before it.
LEMMA Parity ==
    /\ \A e \in Nat \ {0} :
          /\ Reply(e) \in Nat \ {0} /\ Question(e) \in Nat \ {0} /\ Reply(e) - 1 = Question(e)
          /\ IsReply(Reply(e)) /\ ~IsReply(Question(e)) /\ Reply(e) \div 2 = e
    /\ \A id \in Nat \ {0} :
          /\ IsReply(id) => /\ id \div 2 \in Nat \ {0} /\ Reply(id \div 2) = id
                            /\ id - 1 \in Nat \ {0} /\ ~IsReply(id - 1)
          /\ ~IsReply(id) => IsReply(id + 1)
  BY DEF Reply, Question, IsReply

\* A page begins with a question, holds each reply with its question, all of it
\* older than the cursor it was asked for, and as the server stores it.
LEMMA PageRead ==
    ASSUME TypeOK, NEW before \in Cursors
    PROVE  /\ Shows(Page(before).items) /\ Page(before).next \in Cursors
           /\ Aligned(Page(before).items) /\ From(Page(before).items, Page(before).next)
           /\ Current(Page(before).items)
           /\ before # None =>
                 /\ \A id \in DOMAIN Page(before).items : id < before
                 /\ Page(before).next # None => Page(before).next < before
<1> DEFINE n == Len(replies)
           newest == IF before = None THEN 2 * n ELSE before - 1
           oldest == IF newest > PageSize THEN newest - PageSize + 1 ELSE 1
<1>1. n \in Nat /\ \A e \in 1 .. n : replies[e] \in Rows
  BY LenProperties, ElementOfSeq DEF TypeOK
<1>2. newest \in 0 .. 2 * n /\ newest % 2 = 0
  <2>1. CASE before = None
    BY <1>1, <2>1
  <2>2. CASE before # None
    <3>1. before \in 1 .. 2 * n /\ before % 2 # 0
      BY <2>2 DEF Cursors, Known, IsReply
    <3> QED
      BY <1>1, <2>2, <3>1
  <2> QED
    BY <2>1, <2>2
<1>3. oldest \in Nat \ {0} /\ oldest % 2 = 1 /\ oldest <= newest + 1
  BY <1>2, BoundsAreNumbers
<1>4. /\ Page(before).items = [id \in oldest .. newest |-> Row(id)]
      /\ Page(before).next = IF oldest > 1 THEN oldest ELSE None
  BY DEF Page
<1>5. ASSUME NEW id \in oldest .. newest PROVE id \in Known /\ Row(id) \in Copies
  <2>1. id \in Known /\ id \in Nat \ {0}
    BY <1>1, <1>2, <1>3 DEF Known
  <2>2. IsReply(id) => id \div 2 \in 1 .. n
    BY <1>1, <2>1 DEF Known, IsReply
  <2>3. IsReply(id) => replies[id \div 2] \in Copies
    BY <1>1, <2>2 DEF Rows, Copies
  <2> QED
    BY <2>1, <2>3 DEF Row, Copies, Statuses, NoText
<1>6. Shows(Page(before).items) /\ Current(Page(before).items)
  BY <1>4, <1>5 DEF Shows, Current, Confirmed
<1>7. Page(before).next \in Cursors
  <2>1. oldest > 1 => oldest \in Known
    BY <1>1, <1>2, <1>3, BoundsAreNumbers DEF Known
  <2> QED
    BY <1>3, <1>4, <2>1 DEF Cursors, IsReply
<1>8. Aligned(Page(before).items)
  BY <1>2, <1>3, <1>4 DEF Aligned, IsReply
<1>9. From(Page(before).items, Page(before).next)
  BY <1>2, <1>3, <1>4 DEF From
<1>10. before # None =>
         /\ \A id \in DOMAIN Page(before).items : id < before
         /\ Page(before).next # None => Page(before).next < before
  BY <1>1, <1>2, <1>3, <1>4, BoundsAreNumbers DEF Cursors, Known
<1> QED
  BY <1>6, <1>7, <1>8, <1>9, <1>10

-----------------------------------------------------------------------------
(* The server                                                              *)

\* The exchange that a request is answered with, a new one or an earlier one.
Accepted(s) == IF send[s].exchange = 0 THEN Len(replies) + 1 ELSE send[s].exchange

\* The row of reply e, and no other, may be another one.
Resettled(e) ==
    /\ replies' \in Seq(Rows) /\ made' \in Seq((Nat \ {0}) \X Nat)
    /\ Len(replies') = Len(replies) /\ Len(made') = Len(replies')
    /\ \A j \in 1 .. Len(replies) : j # e => replies'[j] = replies[j]

\* The server loses no reply, and a completed one it changes is withdrawn.
LEMMA ServerStep ==
    ASSUME TypeOK, [Next]_vars
    PROVE  /\ replies' \in Seq(Rows) /\ made' \in Seq((Nat \ {0}) \X Nat)
           /\ Len(made') = Len(replies') /\ Len(replies') >= Len(replies)
           /\ doubted' \subseteq 1 .. Len(replies') /\ withdrawn' \subseteq Nat \X Rows
           /\ withdrawn \subseteq withdrawn'
           /\ \A e \in 1 .. Len(replies) :
                 replies[e].status = "completed" =>
                     replies'[e] = replies[e] \/ <<Reply(e), replies[e]>> \in withdrawn'
<1> DEFINE Texts == (Nat \ {0}) \X Nat
<1>1. /\ Len(replies) \in Nat /\ Len(made) = Len(replies)
      /\ DOMAIN replies = 1 .. Len(replies)
      /\ \A e \in 1 .. Len(replies) : replies[e] \in Rows /\ made[e] \in Texts
      /\ doubted \subseteq 1 .. Len(replies) /\ withdrawn \subseteq Nat \X Rows
  BY LenProperties, ElementOfSeq DEF TypeOK
<1>2. CASE UNCHANGED server
  BY <1>1, <1>2 DEF server, TypeOK
<1>3. CASE ServerChunk
  <2>1. PICK e \in 1 .. Len(replies) :
          /\ made' = [made EXCEPT ![e] = <<made[e][1], made[e][2] + 1>>] /\ replies' = replies
          /\ UNCHANGED <<doubted, withdrawn>>
    BY <1>1, <1>3 DEF ServerChunk
  <2>2. <<made[e][1], made[e][2] + 1>> \in Texts
    BY <1>1
  <2>3. made' \in Seq(Texts) /\ Len(made') = Len(made)
    BY <1>1, <2>1, <2>2, ExceptSeq DEF TypeOK
  <2> QED
    BY <1>1, <2>1, <2>3 DEF TypeOK
<1>4. ASSUME NEW e \in 1 .. Len(replies), NEW status \in Terminal,
             made' = made, replies' = [replies EXCEPT ![e] = Settled(e, status)]
      PROVE  Resettled(e)
  <2>1. Settled(e, status) \in Rows
    BY <1>1 DEF Rows, Statuses, Settled
  <2>2. /\ replies' \in Seq(Rows) /\ Len(replies') = Len(replies)
        /\ \A j \in 1 .. Len(replies) : j # e => replies'[j] = replies[j]
    BY <1>4, <2>1, ExceptSeq DEF TypeOK
  <2> QED
    BY <1>1, <1>4, <2>2 DEF TypeOK, Resettled
<1>6. CASE ServerSettle
  <2>1. PICK e \in 1 .. Len(replies), status \in Terminal :
          /\ replies[e].status = "streaming" /\ made' = made
          /\ replies' = [replies EXCEPT ![e] = Settled(e, status)]
    BY <1>1, <1>6 DEF ServerSettle, Settles, Generating
  <2>2. Resettled(e)
    BY <1>4, <2>1
  <2>3. UNCHANGED <<doubted, withdrawn>>
    BY <1>6 DEF ServerSettle
  <2> QED
    BY <1>1, <2>1, <2>2, <2>3 DEF Resettled
<1>7. CASE ServerCommitsInDoubt
  <2>1. PICK e \in 1 .. Len(replies) :
          /\ replies[e].status = "streaming" /\ made' = made
          /\ replies' = [replies EXCEPT ![e] = Settled(e, "completed")]
          /\ doubted' = doubted \cup {e} /\ withdrawn' = withdrawn
    BY <1>1, <1>7 DEF ServerCommitsInDoubt, Generating
  <2>2. Resettled(e)
    BY <1>4, <2>1
  <2>3. doubted' \subseteq 1 .. Len(replies') /\ withdrawn' \subseteq Nat \X Rows
    <3>1. Len(replies') = Len(replies)
      BY <2>2 DEF Resettled
    <3>2. withdrawn' = withdrawn
      BY <2>1
    <3>3. doubted' = doubted \cup {e}
      BY <2>1
    <3> QED
      BY <1>1, <3>1, <3>2, <3>3
  <2>4. \A j \in 1 .. Len(replies) :
          replies[j].status = "completed" => replies'[j] = replies[j]
    BY <2>1, <2>2 DEF Resettled
  <2>5. withdrawn \subseteq withdrawn'
    BY <2>1
  <2> QED
    BY <1>1, <2>2, <2>3, <2>4, <2>5 DEF Resettled
<1>8. CASE ServerWithdraws
  <2>1. PICK e \in 1 .. Len(replies) :
          /\ made' = made /\ replies' = [replies EXCEPT ![e] = Settled(e, "failed")]
          /\ doubted' = doubted \ {e} /\ withdrawn' = withdrawn \cup {<<Reply(e), replies[e]>>}
    BY <1>1, <1>8 DEF ServerWithdraws, Settles
  <2>2. Resettled(e)
    BY <1>4, <2>1
  <2>3. doubted' \subseteq 1 .. Len(replies')
    BY <1>1, <2>1, <2>2 DEF Resettled
  <2>4. <<Reply(e), replies[e]>> \in Nat \X Rows
    BY <1>1 DEF Reply
  <2> DEFINE pair == <<Reply(e), replies[e]>>
  <2>5. withdrawn' = withdrawn \cup {pair} /\ pair \in Nat \X Rows
    BY <2>1, <2>4
  <2>6. withdrawn' \subseteq Nat \X Rows /\ withdrawn \subseteq withdrawn'
    <3> HIDE DEF pair
    <3> DEFINE pairs == Nat \X Rows
    <3> HIDE DEF pairs
    <3>1. withdrawn \subseteq pairs /\ pair \in pairs
      BY <1>1, <2>5 DEF pairs
    <3>2. withdrawn' \subseteq pairs /\ withdrawn \subseteq withdrawn'
      BY <2>5, <3>1
    <3> QED
      BY <3>2 DEF pairs
  <2>7. \A j \in 1 .. Len(replies) :
          replies'[j] = replies[j] \/ <<Reply(j), replies[j]>> \in withdrawn'
    BY <2>1, <2>2 DEF Resettled
  <2> QED
    BY <1>1, <2>2, <2>3, <2>6, <2>7 DEF Resettled
<1>5. ASSUME NEW s \in Sends, ServerAccepts(s), ~UNCHANGED server
      PROVE  /\ replies' \in Seq(Rows) /\ made' \in Seq(Texts)
             /\ Len(made') = Len(replies') /\ Len(replies') >= Len(replies)
             /\ UNCHANGED <<doubted, withdrawn>>
             /\ \A e \in 1 .. Len(replies) :
                   replies[e].status = "completed" => replies'[e] = replies[e]
  <2> DEFINE e == Accepted(s)
  <2>0. UNCHANGED <<doubted, withdrawn>>
    BY <1>5 DEF ServerAccepts, Accepted, Attempt, server
  <2>1. Attempt(e) /\ ~(e <= Len(replies) /\ replies[e].status = "completed")
    BY <1>5 DEF ServerAccepts, Accepted
  <2>2. e \in 1 .. Len(replies) + 1
    BY <1>1 DEF Accepted, TypeOK
  <2> DEFINE text == IF e > Len(replies) THEN <<1, 0>> ELSE <<replies[e].text[1] + 1, 0>>
             row == [status |-> "streaming", text |-> text]
  <2>3. text \in Texts
    BY <1>1, <2>2 DEF Rows
  <2>4. row \in Rows /\ row.text = text
    BY <2>3 DEF Rows, Statuses
  <2>5. CASE e > Len(replies)
    <3>1. replies' = Append(replies, row) /\ made' = Append(made, text)
      BY <2>1, <2>5 DEF Attempt
    <3>2. /\ replies' \in Seq(Rows) /\ Len(replies') = Len(replies) + 1
          /\ \A i \in 1 .. Len(replies) : replies'[i] = replies[i]
      BY <2>4, <3>1, AppendProperties DEF TypeOK
    <3>3. made' \in Seq(Texts) /\ Len(made') = Len(made) + 1
      BY <2>3, <3>1, AppendProperties DEF TypeOK
    <3> QED
      BY <1>1, <2>0, <3>2, <3>3
  <2>6. CASE e <= Len(replies)
    <3>1. replies' = [replies EXCEPT ![e] = row] /\ made' = [made EXCEPT ![e] = text]
      <4>1. ~(e > Len(replies))
        BY <1>1, <2>2, <2>6
      <4> HIDE DEF e
      <4> QED
        BY <2>1, <4>1 DEF Attempt
    <3>2. /\ replies' \in Seq(Rows) /\ Len(replies') = Len(replies)
          /\ \A i \in 1 .. Len(replies) : i # e => replies'[i] = replies[i]
      BY <2>2, <2>4, <2>6, <3>1, ExceptSeq DEF TypeOK
    <3>3. made' \in Seq(Texts) /\ Len(made') = Len(made)
      BY <1>1, <2>2, <2>3, <2>6, <3>1, ExceptSeq DEF TypeOK
    <3>4. \A i \in 1 .. Len(replies) :
            replies[i].status = "completed" => replies'[i] = replies[i]
      BY <2>1, <2>6, <3>2
    <3>5. Len(made') = Len(replies') /\ Len(replies') >= Len(replies)
      BY <1>1, <3>2, <3>3
    <3> HIDE DEF e
    <3> QED
      BY <2>0, <3>2, <3>3, <3>4, <3>5
  <2> QED
    BY <1>1, <2>0, <2>2, <2>5, <2>6
<1>9. ASSUME NEW s \in Sends, ServerAccepts(s), ~UNCHANGED server
      PROVE  /\ doubted' \subseteq 1 .. Len(replies')
             /\ withdrawn' \subseteq Nat \X Rows /\ withdrawn \subseteq withdrawn'
  <2>1. Len(replies') \in Nat /\ Len(replies') >= Len(replies) /\ UNCHANGED <<doubted, withdrawn>>
    BY <1>5, <1>9, LenProperties
  <2> QED
    BY <1>1, <2>1
<1> QED
  BY <1>2, <1>3, <1>5, <1>6, <1>7, <1>8, <1>9
     DEF Next, vars, Reload, BuildRead, BuildDone, BuildFails, LoadOlder, OlderRead, OlderDone,
         OlderFails, Send, Retry, Start, ConnectionCloses, Receive, SendEnds

\* What there was to show stays there to show.
LEMMA Growth ==
    ASSUME TypeOK, [Next]_vars
    PROVE  /\ Known \subseteq Known' /\ Cursors \subseteq Cursors'
           /\ Len(replies) \in Nat /\ Len(replies') \in Nat /\ Len(replies') >= Len(replies)
<1>1. Len(replies) \in Nat /\ Len(replies') \in Nat /\ Len(replies') >= Len(replies)
  BY ServerStep, LenProperties DEF TypeOK
<1>2. Known \subseteq Known'
  BY <1>1 DEF Known
<1> QED
  BY <1>1, <1>2 DEF Cursors

-----------------------------------------------------------------------------
(* The events                                                              *)

\* What an event of exchange e makes of the messages that are shown.
LEMMA Applied ==
    ASSUME TypeOK, NEW e \in 1 .. Len(replies), NEW event \in Events, event.id = Reply(e),
           event.type = "started" => event.exchange = e
    PROVE  LET new == ApplyEvent(messages, event)
           IN /\ Shows(new)
              /\ DOMAIN new = DOMAIN messages \cup
                    (IF event.type = "started" THEN {Question(e), Reply(e)}
                     ELSE IF event.type = "completed" THEN {Reply(e)} ELSE {})
              /\ \A id \in DOMAIN messages \ {Question(e), Reply(e)} : new[id] = messages[id]
              /\ event.type \in {"started", "completed"} => new[Reply(e)] = event.row
              /\ event.type = "delta" /\ Reply(e) \in DOMAIN messages =>
                    new[Reply(e)] = [status |-> "streaming",
                                     text   |-> <<messages[Reply(e)].text[1], messages[Reply(e)].text[2] + 1>>]
              /\ event.type = "failed" /\ Reply(e) \in DOMAIN messages =>
                    /\ new[Reply(e)].status = "failed"
                    /\ new[Reply(e)].text = messages[Reply(e)].text
<1> DEFINE new == ApplyEvent(messages, event)
<1>1. /\ Reply(e) \in Known /\ Question(e) \in Known /\ Reply(e) # Question(e)
      /\ ~IsReply(Question(e))
  BY LenProperties DEF TypeOK, Known, Reply, Question, IsReply
<1>2. Shows(messages)
  BY DEF TypeOK
<1>3. CASE event.type = "started"
  <2>1. event.row \in Copies /\ Row(Question(e)) \in Copies
    BY <1>1, <1>3 DEF Events, Rows, Copies, Row, NoText, Statuses
  <2>2. new = Over(Over(messages, [id \in {Question(e)} |-> Row(id)]),
                   [id \in {Reply(e)} |-> event.row])
    BY <1>3 DEF ApplyEvent, ApplyStarted, Upsert
  <2> HIDE DEF new
  <2>3. /\ DOMAIN new = DOMAIN messages \cup {Question(e), Reply(e)}
        /\ new[Reply(e)] = event.row /\ new[Question(e)] = Row(Question(e))
        /\ \A id \in DOMAIN messages \ {Question(e), Reply(e)} : new[id] = messages[id]
    BY <1>1, <2>2 DEF Over
  <2>4. Shows(new)
    BY <1>1, <1>2, <2>1, <2>3 DEF Shows
  <2> QED
    BY <1>3, <2>3, <2>4 DEF new
<1>4. CASE event.type = "completed"
  <2>1. event.row \in Copies
    BY <1>4 DEF Events, Rows, Copies
  <2>2. new = Over(messages, [id \in {Reply(e)} |-> event.row])
    BY <1>4 DEF ApplyEvent, Upsert
  <2> HIDE DEF new
  <2>3. /\ DOMAIN new = DOMAIN messages \cup {Reply(e)}
        /\ \A id \in DOMAIN new : new[id] = IF id = Reply(e) THEN event.row ELSE messages[id]
    BY <2>2 DEF Over
  <2>4. Shows(new)
    BY <1>1, <1>2, <2>1, <2>3 DEF Shows
  <2> QED
    BY <1>4, <2>3, <2>4 DEF new
<1>5. CASE event.type = "delta"
  <2>1. new = [id \in DOMAIN messages |->
                 IF id = Reply(e)
                 THEN [status |-> "streaming", text |-> <<messages[id].text[1], messages[id].text[2] + 1>>]
                 ELSE messages[id]]
    BY <1>5 DEF ApplyEvent, ApplyDelta
  <2> HIDE DEF new
  <2>2. ASSUME NEW id \in DOMAIN messages PROVE new[id] \in Copies
    <3>1. messages[id] \in Copies
      BY <1>2 DEF Shows
    <3>2. <<messages[id].text[1], messages[id].text[2] + 1>> \in Nat \X Nat
      BY <3>1 DEF Copies
    <3>3. [status |-> "streaming", text |-> <<messages[id].text[1], messages[id].text[2] + 1>>] \in Copies
      BY <3>2 DEF Copies, Statuses
    <3> QED
      BY <2>1, <3>1, <3>3
  <2>3. Shows(new) /\ DOMAIN new = DOMAIN messages
    BY <1>2, <2>1, <2>2 DEF Shows
  <2> QED
    BY <1>5, <2>1, <2>3 DEF new
<1>6. CASE event.type = "failed"
  <2>1. new = [id \in DOMAIN messages |->
                 IF id = Reply(e) THEN [messages[id] EXCEPT !.status = "failed"] ELSE messages[id]]
    BY <1>6 DEF ApplyEvent, ApplyFailed
  <2> HIDE DEF new
  <2>2. ASSUME NEW id \in DOMAIN messages
        PROVE  new[id] \in Copies /\ new[id].text = messages[id].text
    BY <1>2, <2>1 DEF Shows, Copies, Statuses
  <2>3. Reply(e) \in DOMAIN messages => new[Reply(e)].status = "failed"
    BY <1>2, <2>1 DEF Shows, Copies
  <2>4. Shows(new) /\ DOMAIN new = DOMAIN messages
    BY <1>2, <2>1, <2>2 DEF Shows
  <2> QED
    BY <1>6, <2>1, <2>2, <2>3, <2>4 DEF new
<1>7. event.type \in {"started", "delta", "completed", "failed"}
  BY DEF Events
<1> QED
  BY <1>3, <1>4, <1>5, <1>6, <1>7

\* The head of a wire is an event of the exchange that the request is about.
LEMMA HeadOfWire ==
    ASSUME TypeOK, WireInv, NEW s \in Sends, send[s].wire # <<>>
    PROVE  LET event == Head(send[s].wire)
           IN /\ send[s].exchange \in 1 .. Len(replies)
              /\ event = send[s].wire[1] /\ event \in Events /\ event.id = Reply(send[s].exchange)
              /\ event.type = "started" => event.exchange = send[s].exchange
              /\ event.type = "started" <=> send[s].text = NoText
              /\ event.type \in {"completed", "failed"} => Len(send[s].wire) = 1
              /\ ~send[s].told
<1>1. send[s].wire \in Seq(Events) /\ send[s].exchange \in 0 .. Len(replies)
  BY DEF TypeOK
<1>2. /\ Head(send[s].wire) \in Events /\ Head(send[s].wire) = send[s].wire[1]
      /\ Len(send[s].wire) \in Nat \ {0} /\ DOMAIN send[s].wire = 1 .. Len(send[s].wire)
  BY <1>1, EmptySeq, LenProperties, ElementOfSeq
<1>3. Wire(s) /\ 1 \in DOMAIN send[s].wire
  BY <1>2 DEF WireInv
<1>4. send[s].exchange # 0 /\ ~send[s].told
  BY <1>3 DEF Wire
<1> DEFINE event == send[s].wire[1]
<1>5. /\ event.id = Reply(send[s].exchange)
      /\ event.type = "started" <=> send[s].text = NoText
      /\ event.type = "started" => event.exchange = send[s].exchange
      /\ event.type \in {"completed", "failed"} => Len(send[s].wire) = 1
  BY <1>3 DEF Wire
<1> QED
  BY <1>1, <1>2, <1>4, <1>5

-----------------------------------------------------------------------------
(* Types                                                                   *)

\* What a step may make of the messages that are shown.
LEMMA ShownTypes ==
    ASSUME TypeOK, WireInv, [Next]_vars
    PROVE  Shows(messages)'
<1>1. Shows(messages) /\ Known \subseteq Known'
  BY Growth DEF TypeOK
<1>2. CASE UNCHANGED messages
  BY <1>1, <1>2 DEF Shows
<1>3. CASE BuildDone
  BY <1>1, <1>3 DEF BuildDone, TypeOK, Shows
<1>4. CASE OlderDone
  BY <1>1, <1>4 DEF OlderDone, TypeOK, Shows, Over
<1>5. ASSUME NEW s \in Sends, Receive(s) PROVE Shows(messages)'
  <2>1. CASE kind = "data"
    <3> DEFINE event == Head(send[s].wire)
    <3>1. send[s].wire # <<>> /\ messages' = ApplyEvent(messages, event)
      BY <1>5, <2>1 DEF Receive
    <3>2. /\ send[s].exchange \in 1 .. Len(replies) /\ event \in Events
          /\ event.id = Reply(send[s].exchange)
          /\ event.type = "started" => event.exchange = send[s].exchange
      BY <3>1, HeadOfWire
    <3> HIDE DEF event
    <3>3. Shows(ApplyEvent(messages, event))
      BY <3>2, Applied
    <3> QED
      BY <1>1, <3>1, <3>3 DEF Shows
  <2>2. CASE kind # "data"
    BY <1>1, <1>5, <2>2 DEF Receive, Shows
  <2> QED
    BY <2>1, <2>2
<1>6. ASSUME NEW s \in Sends, SendEnds(s) PROVE Shows(messages)'
  <2>1. messages' = messages \/ messages' = StreamFailed(messages)
    BY <1>6 DEF SendEnds
  <2>2. Shows(StreamFailed(messages))
    BY <1>1 DEF Shows, StreamFailed, Copies, Statuses
  <2> QED
    BY <1>1, <2>1, <2>2 DEF Shows
<1> QED
  BY <1>2, <1>3, <1>4, <1>5, <1>6
     DEF Next, vars, ui, ServerChunk, ServerSettle, ServerCommitsInDoubt, ServerWithdraws, Settles,
         Reload, BuildRead, BuildFails, LoadOlder,
         OlderRead, OlderFails, Send, Retry, Start, ServerAccepts, ConnectionCloses

\* The pages under way.
LEMMA PageTypes ==
    ASSUME TypeOK, [Next]_vars
    PROVE  /\ cursor' \in Cursors'
           /\ build' = [at |-> build'.at, page |-> build'.page]
           /\ build'.at \in {"none", "asked", "read"}
           /\ Shows(build.page.items)' /\ build'.page.next \in Cursors'
           /\ older' = [at |-> older'.at, page |-> older'.page, messages |-> older'.messages,
                        cursor |-> older'.cursor, sending |-> older'.sending]
           /\ older'.at \in {"none", "asked", "read"}
           /\ Shows(older.page.items)' /\ older'.page.next \in Cursors'
           /\ Shows(older.messages)' /\ older'.cursor \in Cursors' /\ older'.sending \in BOOLEAN
<1>1. Known \subseteq Known' /\ Cursors \subseteq Cursors' /\ None \in Cursors
  BY Growth DEF Cursors
<1>2. cursor' \in Cursors'
  BY <1>1 DEF TypeOK, Next, vars, ui, ServerChunk, ServerSettle, ServerCommitsInDoubt, ServerWithdraws, Settles,
              Reload, BuildRead, BuildDone,
     BuildFails, LoadOlder, OlderRead, OlderDone, OlderFails, Send, Retry, Start, ServerAccepts,
     ConnectionCloses, Receive, SendEnds
<1>3. /\ build' = [at |-> build'.at, page |-> build'.page]
      /\ build'.at \in {"none", "asked", "read"}
      /\ Shows(build.page.items)' /\ build'.page.next \in Cursors'
  <2>1. CASE UNCHANGED build
    BY <1>1, <2>1 DEF TypeOK, Shows
  <2>2. CASE Reload \/ BuildDone \/ BuildFails
    BY <1>1, <2>2 DEF Reload, BuildDone, BuildFails, NoBuild, NoPage, Shows
  <2>3. CASE BuildRead
    <3>1. build' = [at |-> "read", page |-> Page(None)]
      BY <2>3 DEF BuildRead
    <3>2. Shows(Page(None).items) /\ Page(None).next \in Cursors
      BY <1>1, PageRead
    <3> QED
      BY <1>1, <3>1, <3>2 DEF Shows
  <2> QED
    BY <2>1, <2>2, <2>3
       DEF Next, vars, ServerChunk, ServerSettle, ServerCommitsInDoubt, ServerWithdraws, Settles,
           LoadOlder, OlderRead, OlderDone,
           OlderFails, Send, Retry, Start, ServerAccepts, ConnectionCloses, Receive, SendEnds
<1>4. /\ older' = [at |-> older'.at, page |-> older'.page, messages |-> older'.messages,
                   cursor |-> older'.cursor, sending |-> older'.sending]
      /\ older'.at \in {"none", "asked", "read"}
      /\ Shows(older.page.items)' /\ older'.page.next \in Cursors'
      /\ Shows(older.messages)' /\ older'.cursor \in Cursors' /\ older'.sending \in BOOLEAN
  <2>1. CASE UNCHANGED older
    BY <1>1, <2>1 DEF TypeOK, Shows
  <2>2. CASE Reload \/ OlderDone \/ OlderFails
    <3>1. older' = NoOlder
      BY <2>2 DEF Reload, OlderDone, OlderFails
    <3> QED
      BY <1>1, <3>1 DEF NoOlder, NoPage, Shows
  <2>3. CASE LoadOlder
    BY <1>1, <2>3 DEF LoadOlder, NoPage, Shows, TypeOK
  <2>4. CASE OlderRead
    <3>1. older' = [at |-> "read", page |-> Page(older.cursor), messages |-> older.messages,
                    cursor |-> older.cursor, sending |-> older.sending]
      BY <2>4 DEF OlderRead, TypeOK
    <3>2. older.cursor \in Cursors /\ Shows(older.messages) /\ older.sending \in BOOLEAN
      BY DEF TypeOK
    <3>3. Shows(Page(older.cursor).items) /\ Page(older.cursor).next \in Cursors
      BY <3>2, PageRead
    <3> QED
      BY <1>1, <3>1, <3>2, <3>3 DEF Shows
  <2> QED
    BY <2>1, <2>2, <2>3, <2>4
       DEF Next, vars, ServerChunk, ServerSettle, ServerCommitsInDoubt, ServerWithdraws, Settles,
           BuildRead, BuildDone, BuildFails,
           Send, Retry, Start, ServerAccepts, ConnectionCloses, Receive, SendEnds
<1> QED
  BY <1>2, <1>3, <1>4

-----------------------------------------------------------------------------
(* What a step may do to a request                                         *)

RequestState == [at: {"idle", "posting", "open", "closed", "ended"}, exchange: 0 .. Len(replies),
                 wire: Seq(Events), told: BOOLEAN, text: Nat \X Nat]

Emitted(s) ==
    \E event \in Events :
        /\ send[s].exchange \in 1 .. Len(replies) /\ Awaits(s, send[s].exchange)
        /\ event.id = Reply(send[s].exchange)
        /\ \/ /\ event.type = "delta"
              /\ send'[s] = [send[s] EXCEPT !.at = "open", !.wire = Append(send[s].wire, event)]
           \/ /\ event.type \in {"completed", "failed"} /\ event.row.status = event.type
              /\ event.row = replies'[send[s].exchange]
              /\ send'[s] = [send[s] EXCEPT !.at = "closed", !.wire = Append(send[s].wire, event)]

Ended(s) == send'[s] = [Idle EXCEPT !.at = "ended"]

Started(s) ==
    \E e \in 0 .. Len(replies) :
        send[s] = Idle /\ send'[s] = [Idle EXCEPT !.at = "posting", !.exchange = e]

\* The answers to a request: a replay, a conflict, an attempt.
Replays(s) ==
    \E e \in 1 .. Len(replies) :
        /\ send[s].at = "posting" /\ replies[e].status = "completed" /\ replies' = replies
        /\ send'[s] = [send[s] EXCEPT !.at = "open", !.exchange = e,
                          !.wire = <<StartedEvent(e, replies[e]),
                                     [type |-> "completed", id |-> Reply(e), row |-> replies[e]]>>]

Attempts(s) ==
    \E e \in 1 .. Len(replies') :
        /\ send[s].at = "posting" /\ replies'[e].status = "streaming" /\ e = Accepted(s)
        /\ send'[s] = [send[s] EXCEPT !.at = "open", !.exchange = e,
                          !.wire = <<StartedEvent(e, replies'[e])>>]

Closed(s) ==
    /\ send[s].at \in {"posting", "open"}
    /\ \E n \in 0 .. Len(send[s].wire) :
          send'[s] = [send[s] EXCEPT !.at = "closed", !.wire = SubSeq(send[s].wire, 1, n)]

Received(s) ==
    /\ send[s].at \in {"open", "closed"} /\ send[s].wire # <<>>
    /\ LET event == Head(send[s].wire)
       IN send'[s] = [send[s] EXCEPT
                        !.wire = Tail(send[s].wire),
                        !.told = event.type \in {"completed", "failed"},
                        !.text = TextAfter(send[s].text, event)]

\* The events the server sends of an exchange.
LEMMA EmittedTypes ==
    /\ \A e \in Nat : [type |-> "delta", id |-> Reply(e)] \in Events
    /\ \A e \in Nat, row \in Rows :
          /\ StartedEvent(e, row) \in Events
          /\ \A status \in {"completed", "failed"} :
                [type |-> status, id |-> Reply(e), row |-> row] \in Events
<1>1. \A e \in Nat : Reply(e) \in Nat
  BY DEF Reply
<1> QED
  BY <1>1 DEF Events, StartedEvent

\* An event that is emitted reaches the requests that await it only.
LEMMA EmitReaches ==
    ASSUME TypeOK, NEW s \in Sends, NEW e \in 1 .. Len(replies), NEW event \in Events, NEW at,
           Emit(e, event, at), event.id = Reply(e),
           \/ event.type = "delta" /\ at = "open"
           \/ /\ event.type \in {"completed", "failed"} /\ at = "closed"
              /\ event.row.status = event.type /\ event.row = replies'[e]
    PROVE  send'[s] = send[s] \/ Emitted(s)
<1>1. CASE Awaits(s, e)
  <2>1. send'[s] = [send[s] EXCEPT !.at = at, !.wire = Append(send[s].wire, event)]
    BY <1>1 DEF Emit
  <2>2. send[s].exchange = e
    BY <1>1 DEF Awaits
  <2> QED
    BY <1>1, <2>1, <2>2 DEF Emitted
<1>2. CASE ~Awaits(s, e)
  BY <1>2 DEF Emit
<1> QED
  BY <1>1, <1>2

\* What a step may do to one send.
LEMMA SendKinds ==
    ASSUME TypeOK, WireInv, [Next]_vars, NEW s \in Sends
    PROVE  \/ send'[s] = send[s] \/ Emitted(s) \/ Ended(s) \/ Started(s)
           \/ Replays(s) \/ Attempts(s) \/ Closed(s) \/ Received(s)
<1> DEFINE Kinds == \/ send'[s] = send[s] \/ Emitted(s) \/ Ended(s) \/ Started(s)
                    \/ Replays(s) \/ Attempts(s) \/ Closed(s) \/ Received(s)
<1>1. /\ Len(replies) \in Nat /\ DOMAIN replies = 1 .. Len(replies)
      /\ \A e \in 1 .. Len(replies) : replies[e] \in Rows
      /\ \A e \in 1 .. Len(replies) : made[e] \in (Nat \ {0}) \X Nat
      /\ DOMAIN send = Sends /\ \A t \in Sends : send[t] \in RequestState
  BY LenProperties, ElementOfSeq DEF TypeOK, RequestState
<1>2. CASE UNCHANGED send
  BY <1>2
<1>11. CASE ServerCommitsInDoubt
  BY <1>11 DEF ServerCommitsInDoubt
<1>3. CASE ServerChunk
  <2>1. PICK e \in 1 .. Len(replies) :
          Emit(e, [type |-> "delta", id |-> Reply(e)], "open")
    BY <1>1, <1>3 DEF ServerChunk
  <2> DEFINE event == [type |-> "delta", id |-> Reply(e)]
  <2>2. event \in Events /\ event.id = Reply(e) /\ event.type = "delta"
    BY EmittedTypes
  <2>3. Emit(e, event, "open")
    BY <2>1
  <2> HIDE DEF event
  <2> QED
    BY <2>1, <2>2, <2>3, EmitReaches
<1>4. CASE ServerSettle \/ ServerWithdraws
  <2>1. PICK e \in 1 .. Len(replies), status \in Terminal : Settles(e, status)
    BY <1>1, <1>4 DEF ServerSettle, ServerWithdraws, TypeOK
  <2> DEFINE row == Settled(e, status)
             event == [type |-> status, id |-> Reply(e), row |-> row]
  <2>2. row \in Rows /\ row.status = status
    BY <1>1 DEF Rows, Statuses, Settled
  <2>3. replies'[e] = row /\ Emit(e, event, "closed")
    BY <1>1, <2>1 DEF Settles
  <2>4. /\ event \in Events /\ event.id = Reply(e) /\ event.type \in {"completed", "failed"}
        /\ event.row = row /\ event.row.status = event.type
    <3>1. event \in Events
      <4> HIDE DEF row
      <4> QED
        BY <1>1, <2>2 DEF Events, Reply
    <3> QED
      BY <2>2, <3>1
  <2> HIDE DEF event, row
  <2> QED
    BY <2>3, <2>4, EmitReaches
<1>5. CASE Reload
  BY <1>5 DEF Reload, Ended
<1>6. ASSUME NEW t \in Sends, Send(t) \/ Retry(t) PROVE Kinds
  <2>1. \A id \in Nat \ {0} : id <= 2 * Len(replies) => id \div 2 \in 0 .. Len(replies)
    BY <1>1
  <2>2. PICK e \in 0 .. Len(replies) : Start(t, e)
    <3>1. CASE Send(t)
      BY <1>1, <3>1 DEF Send
    <3>2. CASE Retry(t)
      <4>1. PICK id \in DOMAIN messages : Start(t, id \div 2)
        BY <3>2 DEF Retry
      <4>2. id \in Nat \ {0} /\ id <= 2 * Len(replies)
        BY <1>1, SMTT(30) DEF TypeOK, Shows, Known
      <4> QED
        BY <2>1, <4>1, <4>2
    <3> QED
      BY <1>6, <3>1, <3>2
  <2> QED
    BY <1>1, <2>2 DEF Start, Started
<1>7. ASSUME NEW t \in Sends, ServerAccepts(t) PROVE Kinds
  <2>1. CASE s # t
    BY <1>1, <1>7, <2>1 DEF ServerAccepts, Answered
  <2>2. CASE s = t
    <3> DEFINE e == Accepted(s)
    <3>1. e \in 1 .. Len(replies) + 1 /\ send[s].at = "posting"
      BY <1>1, <1>7, <2>2 DEF Accepted, RequestState, ServerAccepts
    <3>2. CASE e <= Len(replies) /\ replies[e].status = "completed"
      <4>1. /\ replies' = replies
            /\ send' = Answered(s, e, <<StartedEvent(e, replies[e]),
                                        [type |-> "completed", id |-> Reply(e), row |-> replies[e]]>>)
        BY <1>7, <2>2, <3>2 DEF ServerAccepts, Accepted, server
      <4>2. e \in 1 .. Len(replies)
        BY <1>1, <3>1, <3>2
      <4> HIDE DEF e
      <4>3. send'[s] = [send[s] EXCEPT !.at = "open", !.exchange = e,
                          !.wire = <<StartedEvent(e, replies[e]),
                                     [type |-> "completed", id |-> Reply(e), row |-> replies[e]]>>]
        BY <1>1, <4>1 DEF Answered
      <4> QED
        BY <3>1, <3>2, <4>1, <4>2, <4>3 DEF Replays
    <3>3. CASE e <= Len(replies) /\ replies[e].status = "streaming"
      <4>1. send'[s] = [send[s] EXCEPT !.at = "closed"]
        BY <1>1, <1>7, <2>2, <3>3 DEF ServerAccepts, Accepted
      <4>2. send[s].wire = <<>> /\ Len(send[s].wire) = 0
        BY <3>1 DEF WireInv, Wire
      <4>3. SubSeq(send[s].wire, 1, 0) = <<>>
        BY SubSeqEmpty
      <4>4. send'[s] = [send[s] EXCEPT !.at = "closed", !.wire = SubSeq(send[s].wire, 1, 0)]
        BY <1>1, <4>1, <4>2, <4>3, ZenonT(30) DEF RequestState
      <4>5. 0 \in 0 .. Len(send[s].wire)
        BY <4>2
      <4> QED
        BY <3>1, <4>4, <4>5 DEF Closed
    <3>4. CASE ~(e <= Len(replies) /\ replies[e].status \in {"completed", "streaming"})
      <4>1. Attempt(e) /\ send' = Answered(s, e, <<StartedEvent(e, replies'[e])>>)
        BY <1>7, <2>2, <3>4 DEF ServerAccepts, Accepted
      <4>2. e \in 1 .. Len(replies') /\ replies'[e].status = "streaming"
        <5>1. CASE e <= Len(replies)
          <6>1. ~(e > Len(replies))
            BY <1>1, <3>1, <5>1
          <6> HIDE DEF e
          <6> DEFINE row == [status |-> "streaming", text |-> <<replies[e].text[1] + 1, 0>>]
          <6>2. replies' = [replies EXCEPT ![e] = row] /\ row.status = "streaming"
            BY <4>1, <6>1 DEF Attempt
          <6> HIDE DEF row
          <6>3. replies'[e] = row /\ Len(replies') >= Len(replies) /\ Len(replies') \in Nat
            BY <1>1, <3>1, <5>1, <6>2, Growth
          <6> QED
            BY <1>1, <3>1, <5>1, <6>2, <6>3
        <5>2. CASE e > Len(replies)
          <6>1. PICK row : row.status = "streaming" /\ replies' = Append(replies, row)
            BY <4>1, <5>2 DEF Attempt
          <6>2. e = Len(replies) + 1
            BY <1>1, <3>1, <5>2
          <6>3. Len(replies') = Len(replies) + 1 /\ replies'[Len(replies) + 1] = row
            BY <6>1 DEF TypeOK
          <6> QED
            BY <1>1, <6>1, <6>2, <6>3
        <5> QED
          BY <1>1, <3>1, <5>1, <5>2
      <4> QED
        BY <1>1, <3>1, <4>1, <4>2 DEF Answered, Attempts
    <3> QED
      BY <3>2, <3>3, <3>4
  <2> QED
    BY <2>1, <2>2
<1>8. ASSUME NEW t \in Sends, ConnectionCloses(t) PROVE Kinds
  <2>1. CASE s # t
    BY <1>1, <1>8, <2>1 DEF ConnectionCloses
  <2>2. CASE s = t
    <3>1. PICK n \in 0 .. Len(send[s].wire) :
            send' = [send EXCEPT ![s] = [send[s] EXCEPT !.at = "closed", !.wire = SubSeq(send[s].wire, 1, n)]]
      BY <1>8, <2>2 DEF ConnectionCloses
    <3>2. send'[s] = [send[s] EXCEPT !.at = "closed", !.wire = SubSeq(send[s].wire, 1, n)]
      BY <1>1, <3>1
    <3>3. send[s].at \in {"posting", "open"}
      BY <1>8, <2>2 DEF ConnectionCloses
    <3> QED
      BY <3>2, <3>3 DEF Closed
  <2> QED
    BY <2>1, <2>2
<1>9. ASSUME NEW t \in Sends, Receive(t) PROVE Kinds
  <2>1. CASE s # t
    BY <1>1, <1>9, <2>1 DEF Receive
  <2>2. CASE s = t
    <3>1. send[s].at \in {"open", "closed"} /\ send[s].wire # <<>>
      BY <1>9, <2>2 DEF Receive
    <3> DEFINE event == Head(send[s].wire)
               told == event.type \in {"completed", "failed"}
               text == TextAfter(send[s].text, event)
    <3>2. send' = [send EXCEPT ![s] = [send[s] EXCEPT !.wire = Tail(send[s].wire), !.told = told, !.text = text]]
      BY <1>9, <2>2 DEF Receive
    <3> HIDE DEF told, text
    <3>3. send'[s] = [send[s] EXCEPT !.wire = Tail(send[s].wire), !.told = told, !.text = text]
      BY <1>1, <3>2
    <3> QED
      BY <3>1, <3>3, Zenon DEF Received, told, text
  <2> QED
    BY <2>1, <2>2
<1>10. ASSUME NEW t \in Sends, SendEnds(t) PROVE Kinds
  BY <1>1, <1>10 DEF SendEnds, Ended
<1> QED
  BY <1>2, <1>3, <1>4, <1>5, <1>6, <1>7, <1>8, <1>9, <1>10, <1>11
     DEF Next, vars, BuildRead, BuildDone, BuildFails, LoadOlder, OlderRead, OlderDone, OlderFails

-----------------------------------------------------------------------------
(* Types, and the wire                                                     *)

\* A request keeps its type.
LEMMA SendTypes ==
    ASSUME TypeOK, WireInv, [Next]_vars
    PROVE  send' \in [Sends -> RequestState']
<1>1. /\ Len(replies) \in Nat /\ Len(replies') \in Nat /\ Len(replies') >= Len(replies)
      /\ \A e \in 1 .. Len(replies) : replies[e] \in Rows
      /\ \A e \in 1 .. Len(replies') : replies'[e] \in Rows
  BY Growth, ServerStep, ElementOfSeq DEF TypeOK
<1>2. send' = [s \in Sends |-> send'[s]]
  <2>1. send = [s \in Sends |-> send[s]]
    BY DEF TypeOK
  <2> QED
    BY <2>1 DEF Next, vars, ServerChunk, ServerSettle, ServerCommitsInDoubt, ServerWithdraws, Settles,
                Emit, Reload, BuildRead, BuildDone, BuildFails,
       LoadOlder, OlderRead, OlderDone, OlderFails, Send, Retry, Start, ServerAccepts, Answered,
       ConnectionCloses, Receive, SendEnds
<1>3. ASSUME NEW at \in {"idle", "posting", "open", "closed", "ended"},
             NEW e \in 0 .. Len(replies'), NEW wire \in Seq(Events),
             NEW told \in BOOLEAN, NEW text \in Nat \X Nat
      PROVE  [at |-> at, exchange |-> e, wire |-> wire, told |-> told, text |-> text] \in RequestState'
  BY DEF RequestState
<1>4. ASSUME NEW s \in Sends PROVE send'[s] \in RequestState'
  <2> DEFINE r == send[s]
  <2>0. r = [at |-> r.at, exchange |-> r.exchange, wire |-> r.wire, told |-> r.told, text |-> r.text]
    BY DEF TypeOK
  <2>1. /\ r.at \in {"idle", "posting", "open", "closed", "ended"} /\ r.exchange \in 0 .. Len(replies')
        /\ r.wire \in Seq(Events) /\ r.told \in BOOLEAN /\ r.text \in Nat \X Nat
    BY <1>1 DEF TypeOK
  <2>2. CASE send'[s] = send[s]
    BY <1>3, <2>0, <2>1, <2>2
  <2>3. CASE Emitted(s)
    <3>1. PICK event \in Events, at \in {"open", "closed"} :
            send'[s] = [r EXCEPT !.at = at, !.wire = Append(r.wire, event)]
      BY <2>3 DEF Emitted
    <3> DEFINE wire == Append(r.wire, event)
    <3>2. wire \in Seq(Events)
      BY <2>1, AppendProperties
    <3>3. send'[s] = [at |-> at, exchange |-> r.exchange, wire |-> wire, told |-> r.told, text |-> r.text]
      BY <2>0, <3>1
    <3> HIDE DEF wire
    <3> QED
      BY <1>3, <2>1, <3>2, <3>3
  <2>4. CASE Ended(s) \/ Started(s)
    <3>1. PICK at \in {"idle", "posting", "open", "closed", "ended"}, e \in 0 .. Len(replies) :
            send'[s] = [at |-> at, exchange |-> e, wire |-> <<>>, told |-> FALSE, text |-> NoText]
      <4>1. CASE Ended(s)
        <5>1. 0 \in 0 .. Len(replies)
          BY <1>1
        <5>2. send'[s] = [at |-> "ended", exchange |-> 0, wire |-> <<>>, told |-> FALSE, text |-> NoText]
          BY <4>1 DEF Ended, Idle
        <5> QED
          BY <5>1, <5>2
      <4>2. CASE Started(s)
        BY <1>1, <4>2 DEF Started, Idle
      <4> QED
        BY <2>4, <4>1, <4>2
    <3>2. NoText \in Nat \X Nat /\ e \in 0 .. Len(replies') /\ <<>> \in Seq(Events) /\ FALSE \in BOOLEAN
      BY <1>1, EmptySeq DEF NoText
    <3> QED
      BY <1>3, <3>1, <3>2, ZenonT(30)
  <2>5. CASE Replays(s)
    <3>1. PICK e \in 1 .. Len(replies) :
            send'[s] = [send[s] EXCEPT !.at = "open", !.exchange = e,
                          !.wire = <<StartedEvent(e, replies[e]),
                                     [type |-> "completed", id |-> Reply(e), row |-> replies[e]]>>]
      BY <2>5 DEF Replays
    <3> DEFINE wire == <<StartedEvent(e, replies[e]),
                         [type |-> "completed", id |-> Reply(e), row |-> replies[e]]>>
    <3>2. StartedEvent(e, replies[e]) \in Events
      BY <1>1 DEF Events, StartedEvent, Reply
    <3>3. [type |-> "completed", id |-> Reply(e), row |-> replies[e]] \in Events
      BY <1>1 DEF Events, Reply
    <3>4. wire \in Seq(Events)
      BY <3>2, <3>3
    <3> HIDE DEF wire
    <3>5. send'[s] = [at |-> "open", exchange |-> e, wire |-> wire, told |-> r.told, text |-> r.text]
      BY <2>0, <3>1 DEF wire
    <3> QED
      BY <1>1, <1>3, <2>1, <3>4, <3>5, SMTT(30)
  <2>6. CASE Attempts(s)
    <3>1. PICK e \in 1 .. Len(replies') :
            send'[s] = [send[s] EXCEPT !.at = "open", !.exchange = e,
                          !.wire = <<StartedEvent(e, replies'[e])>>]
      BY <2>6 DEF Attempts
    <3> DEFINE wire == <<StartedEvent(e, replies'[e])>>
    <3>2. StartedEvent(e, replies'[e]) \in Events
      BY <1>1 DEF Events, StartedEvent, Reply
    <3>3. wire \in Seq(Events)
      BY <3>2
    <3> HIDE DEF wire
    <3>4. send'[s] = [at |-> "open", exchange |-> e, wire |-> wire, told |-> r.told, text |-> r.text]
      BY <2>0, <3>1 DEF wire
    <3> QED
      BY <1>1, <1>3, <2>1, <3>3, <3>4, SMTT(30)
  <2>7. CASE Closed(s)
    <3>1. PICK n \in 0 .. Len(r.wire) :
            send'[s] = [r EXCEPT !.at = "closed", !.wire = SubSeq(r.wire, 1, n)]
      BY <2>7 DEF Closed
    <3> DEFINE wire == SubSeq(r.wire, 1, n)
    <3>2. wire \in Seq(Events)
      <4>1. r.wire \in Seq(Events) /\ Len(r.wire) \in Nat
        BY <2>1, LenProperties
      <4>2. \A i \in 1 .. n : r.wire[i] \in Events
        BY <4>1, ElementOfSeq
      <4> QED
        BY <4>1, <4>2, SubSeqProperties
    <3>3. send'[s] = [at |-> "closed", exchange |-> r.exchange, wire |-> wire, told |-> r.told, text |-> r.text]
      BY <2>0, <3>1
    <3> HIDE DEF wire
    <3> QED
      BY <1>3, <2>1, <3>2, <3>3
  <2>8. CASE Received(s)
    <3> DEFINE event == Head(r.wire)
               told == event.type \in {"completed", "failed"}
               text == TextAfter(r.text, event)
               wire == Tail(r.wire)
    <3>1. send'[s] = [r EXCEPT !.wire = wire, !.told = told, !.text = text]
      BY <2>8, Zenon DEF Received
    <3>2. event \in Events /\ wire \in Seq(Events)
      BY <2>1, <2>8, HeadTailProperties DEF Received
    <3>3. text \in Nat \X Nat
      <4> HIDE DEF event
      <4> QED
        BY <2>1, <3>2 DEF TextAfter, Events, Rows
    <3>4. told \in BOOLEAN
      OBVIOUS
    <3> HIDE DEF told, text, wire
    <3>5. send'[s] = [at |-> r.at, exchange |-> r.exchange, wire |-> wire, told |-> told, text |-> text]
      BY <2>0, <3>1
    <3> QED
      BY <1>3, <2>1, <3>2, <3>3, <3>4, <3>5
  <2> QED
    BY <2>2, <2>3, <2>4, <2>5, <2>6, <2>7, <2>8, SendKinds
<1> QED
  BY <1>2, <1>4

\* Every step keeps the types.
LEMMA TypeStep ==
    ASSUME TypeOK, WireInv, [Next]_vars
    PROVE  TypeOK'
<1>1. /\ replies' \in Seq(Rows) /\ made' \in Seq((Nat \ {0}) \X Nat)
      /\ Len(made') = Len(replies')
  BY ServerStep
<1>2. kind' \in {"loading", "data", "error"} /\ loadingOlder' \in BOOLEAN
  BY DEF TypeOK, Next, vars, ui, ServerChunk, ServerSettle, ServerCommitsInDoubt, ServerWithdraws, Settles,
         Reload, BuildRead, BuildDone,
     BuildFails, LoadOlder, OlderRead, OlderDone, OlderFails, Send, Retry, Start, ServerAccepts,
     ConnectionCloses, Receive, SendEnds
<1>3. sending' \in BOOLEAN /\ torn' \in BOOLEAN
  BY DEF TypeOK, Next, vars, ui, ServerChunk, ServerSettle, ServerCommitsInDoubt, ServerWithdraws, Settles,
         Reload, BuildRead, BuildDone,
     BuildFails, LoadOlder, OlderRead, OlderDone, OlderFails, Send, Retry, Start, ServerAccepts,
     ConnectionCloses, Receive, SendEnds
<1>4. reloads' \in Nat
  <2>1. reloads \in Nat
    BY DEF TypeOK
  <2>2. CASE Reload
    BY <2>1, <2>2 DEF Reload
  <2>3. CASE ~Reload
    <3>1. reloads' = reloads
      BY <2>3 DEF Next, vars, ServerChunk, ServerSettle, ServerCommitsInDoubt, ServerWithdraws, Settles,
                  BuildRead, BuildDone, BuildFails,
         LoadOlder, OlderRead, OlderDone, OlderFails, Send, Retry, Start, ServerAccepts,
         ConnectionCloses, Receive, SendEnds
    <3> QED
      BY <2>1, <3>1
  <2> QED
    BY <2>2, <2>3
<1>5. send' \in [Sends -> RequestState']
  BY SendTypes
<1>6. doubted' \subseteq DOMAIN replies' /\ withdrawn' \subseteq Nat \X Rows
  <2>1. DOMAIN replies' = 1 .. Len(replies')
    BY ServerStep, LenProperties
  <2> QED
    BY <2>1, ServerStep
<1> QED
  BY <1>1, <1>2, <1>3, <1>4, <1>5, <1>6, ShownTypes, PageTypes DEF TypeOK, RequestState

\* The fields of a request after each kind of step, with the wire as a sequence.
LEMMA WireShapes ==
    ASSUME TypeOK, WireInv, NEW s \in Sends
    PROVE  /\ send[s].wire \in Seq(Events) /\ Len(send[s].wire) \in Nat
           /\ DOMAIN send[s].wire = 1 .. Len(send[s].wire)
           /\ send[s].wire = <<>> <=> Len(send[s].wire) = 0
           /\ send[s].exchange \in 0 .. Len(replies) /\ send[s].told \in BOOLEAN
           /\ send[s].text \in Nat \X Nat
           /\ send[s] = [at |-> send[s].at, exchange |-> send[s].exchange, wire |-> send[s].wire,
                         told |-> send[s].told, text |-> send[s].text]
           /\ Len(replies) \in Nat
<1>1. send[s].wire \in Seq(Events) /\ Len(replies) \in Nat
  BY LenProperties DEF TypeOK
<1>2. /\ Len(send[s].wire) \in Nat /\ DOMAIN send[s].wire = 1 .. Len(send[s].wire)
      /\ send[s].wire = <<>> <=> Len(send[s].wire) = 0
  BY <1>1, LenProperties, EmptySeq
<1> QED
  BY <1>1, <1>2 DEF TypeOK

\* The wire carries one exchange's events, in their order.
LEMMA WireStep ==
    ASSUME TypeOK, WireInv, [Next]_vars
    PROVE  WireInv'
<1> SUFFICES ASSUME NEW s \in Sends PROVE Wire(s)'
  BY DEF WireInv
<1> DEFINE w == send[s].wire
           e == send[s].exchange
<1>1. /\ w \in Seq(Events) /\ Len(w) \in Nat /\ DOMAIN w = 1 .. Len(w)
      /\ w = <<>> <=> Len(w) = 0
      /\ e \in 0 .. Len(replies) /\ send[s].told \in BOOLEAN
      /\ send[s].text \in Nat \X Nat
      /\ Len(replies) \in Nat
  BY WireShapes
<1>2. send[s] = [at |-> send[s].at, exchange |-> e, wire |-> w,
                 told |-> send[s].told, text |-> send[s].text]
  BY WireShapes
<1>3. /\ send[s].at \in {"idle", "posting", "ended"} =>
            w = <<>> /\ send[s].text = NoText /\ ~send[s].told
      /\ send[s].at = "open" \/ w # <<>> => e # 0
      /\ send[s].at = "open" /\ send[s].text = NoText => w # <<>>
      /\ send[s].told => w = <<>>
  BY DEF WireInv, Wire
<1>4. \A i \in 1 .. Len(w) :
         /\ w[i].id = Reply(e)
         /\ w[i].type = "started" <=> i = 1 /\ send[s].text = NoText
         /\ w[i].type = "started" => w[i].exchange = e
         /\ w[i].type \in {"completed", "failed"} => i = Len(w)
  BY <1>1 DEF WireInv, Wire
<1>6. CASE send'[s] = send[s]
  BY <1>1, <1>3, <1>4, <1>6 DEF Wire
<1>7. CASE Emitted(s)
  <2>1. PICK event \in Events, at \in {"open", "closed"} :
          /\ send'[s] = [send[s] EXCEPT !.at = at, !.wire = Append(w, event)]
          /\ Awaits(s, e) /\ e \in 1 .. Len(replies) /\ event.id = Reply(e)
          /\ event.type \in {"delta", "completed", "failed"}
          /\ event.type \in {"completed", "failed"} => at = "closed"
    BY <1>7 DEF Emitted
  <2> DEFINE new == Append(w, event)
  <2>2. /\ Len(new) = Len(w) + 1 /\ new # <<>> /\ DOMAIN new = 1 .. Len(w) + 1
        /\ \A i \in 1 .. Len(w) : new[i] = w[i]
        /\ new[Len(w) + 1] = event
    <3>1. new \in Seq(Events)
      BY <1>1, AppendProperties
    <3> QED
      BY <1>1, <3>1, AppendProperties, LenProperties
  <2>3. send'[s] = [at |-> at, exchange |-> e, wire |-> new, told |-> send[s].told, text |-> send[s].text]
    BY <1>2, <2>1
  <2> HIDE DEF new
  <2>4. \A i \in 1 .. Len(w) : w[i].type \notin {"completed", "failed"}
    BY <1>1, <2>1 DEF Awaits
  <2>5. ~send[s].told /\ (send[s].text = NoText => Len(w) # 0)
    BY <1>1, <1>3, <2>1 DEF Awaits
  <2>6. ASSUME NEW i \in 1 .. Len(w) + 1
        PROVE  /\ new[i].id = Reply(e)
               /\ new[i].type = "started" <=> i = 1 /\ send[s].text = NoText
               /\ new[i].type = "started" => new[i].exchange = e
               /\ new[i].type \in {"completed", "failed"} => i = Len(new) /\ at = "closed"
    <3>1. CASE i = Len(w) + 1
      BY <1>1, <2>1, <2>2, <2>5, <3>1
    <3>2. CASE i \in 1 .. Len(w)
      BY <1>4, <2>2, <2>4, <3>2
    <3> QED
      BY <1>1, <3>1, <3>2
  <2> QED
    BY <1>1, <2>1, <2>2, <2>3, <2>5, <2>6, SMTT(30) DEF Wire
<1>8. CASE Ended(s) \/ Started(s)
  <2>1. PICK at \in {"posting", "ended"}, x \in 0 .. Len(replies) :
          send'[s] = [at |-> at, exchange |-> x, wire |-> <<>>, told |-> FALSE, text |-> NoText]
    <3>1. CASE Ended(s)
      <4>1. 0 \in 0 .. Len(replies)
        BY <1>1
      <4>2. send'[s] = [at |-> "ended", exchange |-> 0, wire |-> <<>>, told |-> FALSE, text |-> NoText]
        BY <3>1 DEF Ended, Idle
      <4> QED
        BY <4>1, <4>2
    <3>2. CASE Started(s)
      BY <3>2 DEF Started, Idle
    <3> QED
      BY <1>8, <3>1, <3>2
  <2> QED
    BY <2>1 DEF Wire
<1>9. CASE Replays(s)
  <2>1. PICK x \in 1 .. Len(replies) :
          /\ send[s].at = "posting" /\ replies[x].status = "completed" /\ replies' = replies
          /\ send'[s] = [send[s] EXCEPT !.at = "open", !.exchange = x,
                          !.wire = <<StartedEvent(x, replies[x]),
                                     [type |-> "completed", id |-> Reply(x), row |-> replies[x]]>>]
    BY <1>9 DEF Replays
  <2> DEFINE new == <<StartedEvent(x, replies[x]),
                      [type |-> "completed", id |-> Reply(x), row |-> replies[x]]>>
  <2>2. /\ new # <<>> /\ DOMAIN new = 1 .. 2 /\ Len(new) = 2
        /\ new[1].id = Reply(x) /\ new[1].type = "started" /\ new[1].exchange = x
        /\ new[2].id = Reply(x) /\ new[2].type = "completed"
    BY DEF StartedEvent
  <2>3. send'[s] = [at |-> "open", exchange |-> x, wire |-> new, told |-> FALSE, text |-> NoText]
    <3>1. send[s].told = FALSE /\ send[s].text = NoText
      BY <1>1, <1>3, <2>1
    <3> QED
      BY <1>2, <2>1, <3>1
  <2> HIDE DEF new
  <2> QED
    BY <2>2, <2>3 DEF Wire
<1>10. CASE Attempts(s)
  <2>1. PICK x \in 1 .. Len(replies') :
          /\ send[s].at = "posting"
          /\ send'[s] = [send[s] EXCEPT !.at = "open", !.exchange = x,
                          !.wire = <<StartedEvent(x, replies'[x])>>]
    BY <1>10 DEF Attempts
  <2> DEFINE new == <<StartedEvent(x, replies'[x])>>
  <2>2. /\ new # <<>> /\ DOMAIN new = {1} /\ x # 0
        /\ new[1].id = Reply(x) /\ new[1].type = "started" /\ new[1].exchange = x
    BY DEF StartedEvent
  <2>3. send'[s] = [at |-> "open", exchange |-> x, wire |-> new, told |-> FALSE, text |-> NoText]
    <3>1. send[s].told = FALSE /\ send[s].text = NoText
      BY <1>1, <1>3, <2>1
    <3> QED
      BY <1>2, <2>1, <3>1
  <2> HIDE DEF new
  <2>4. \A i \in DOMAIN new :
           /\ new[i].id = Reply(x) /\ new[i].type = "started" /\ new[i].exchange = x /\ i = 1
    BY <2>2
  <2>5. /\ send'[s].at = "open" /\ send'[s].exchange = x /\ send'[s].wire = new
        /\ send'[s].told = FALSE /\ send'[s].text = NoText
    BY <2>3
  <2> QED
    BY <2>2, <2>4, <2>5 DEF Wire
<1>11. CASE Closed(s)
  <2>1. PICK n \in 0 .. Len(w) : send'[s] = [send[s] EXCEPT !.at = "closed", !.wire = SubSeq(w, 1, n)]
    BY <1>11 DEF Closed
  <2> DEFINE new == SubSeq(w, 1, n)
  <2>2. /\ Len(new) = n /\ DOMAIN new = 1 .. n /\ (new = <<>> <=> n = 0)
        /\ \A i \in 1 .. n : new[i] = w[i]
    <3>1. \A i \in 1 .. n : w[i] \in Events
      BY <1>1, ElementOfSeq
    <3>2. /\ new \in Seq(Events) /\ Len(new) = n
          /\ \A i \in 1 .. n : new[i] = w[i]
      BY <1>1, <3>1, SubSeqProperties
    <3> QED
      BY <1>1, <3>2, LenProperties, EmptySeq
  <2>3. send'[s] = [at |-> "closed", exchange |-> e, wire |-> new,
                    told |-> send[s].told, text |-> send[s].text]
    BY <1>2, <2>1
  <2> HIDE DEF new
  <2>5. n = 0 \/ w # <<>>
    BY <1>1
  <2>6. ASSUME NEW i \in 1 .. n
        PROVE  /\ new[i].id = Reply(e)
               /\ new[i].type = "started" <=> i = 1 /\ send[s].text = NoText
               /\ new[i].type = "started" => new[i].exchange = e
               /\ new[i].type \in {"completed", "failed"} => i = n
    BY <1>1, <1>4, <2>2, SMTT(30)
  <2> QED
    BY <1>1, <1>3, <2>2, <2>3, <2>5, <2>6 DEF Wire
<1>12. CASE Received(s)
  <2> DEFINE event == Head(w)
             told == event.type \in {"completed", "failed"}
             text == TextAfter(send[s].text, event)
             new == Tail(w)
  <2>1. send'[s] = [send[s] EXCEPT !.wire = new, !.told = told, !.text = text]
    BY <1>12, Zenon DEF Received
  <2>2. send[s].at \in {"open", "closed"} /\ w # <<>>
    BY <1>12, Zenon DEF Received
  <2>3. /\ event \in Events /\ e # 0 /\ (event.type = "started" <=> send[s].text = NoText)
        /\ told => Len(w) = 1
    BY <2>2, HeadOfWire
  <2>4. text # NoText
    <3> HIDE DEF event
    <3> QED
      BY <1>1, <2>3 DEF TextAfter, Events, Rows, NoText
  <2>5. /\ Len(new) = Len(w) - 1 /\ DOMAIN new = 1 .. Len(w) - 1 /\ (new = <<>> <=> Len(w) = 1)
        /\ \A i \in 1 .. Len(w) - 1 : new[i] = w[i + 1]
    <3>1. /\ new \in Seq(Events) /\ Len(new) = Len(w) - 1
          /\ \A i \in 1 .. Len(new) : new[i] = w[i + 1]
      BY <1>1, <2>2, HeadTailProperties
    <3>2. DOMAIN new = 1 .. Len(new) /\ (new = <<>> <=> Len(new) = 0)
      BY <3>1, LenProperties, EmptySeq
    <3> HIDE DEF new
    <3> QED
      BY <1>1, <3>1, <3>2, SMTT(30)
  <2>6. told \in BOOLEAN
    OBVIOUS
  <2> HIDE DEF told, text, new
  <2>7. send'[s] = [at |-> send[s].at, exchange |-> e, wire |-> new, told |-> told, text |-> text]
    BY <1>2, <2>1
  <2>9. ASSUME NEW i \in 1 .. Len(w) - 1
        PROVE  /\ new[i].id = Reply(e)
               /\ new[i].type # "started"
               /\ new[i].type \in {"completed", "failed"} => i = Len(w) - 1
    <3>1. i + 1 \in 1 .. Len(w) /\ i + 1 # 1 /\ new[i] = w[i + 1]
      BY <1>1, <2>5
    <3>2. w[i + 1].type \in {"completed", "failed"} => i + 1 = Len(w)
      BY <1>4, <3>1
    <3> QED
      BY <1>1, <1>4, <3>1, <3>2
  <2>10. told => new = <<>>
    BY <2>3, <2>5 DEF told
  <2> QED
    BY <2>2, <2>3, <2>4, <2>5, <2>7, <2>9, <2>10 DEF Wire
<1> QED
  BY <1>6, <1>7, <1>8, <1>9, <1>10, <1>11, <1>12, SendKinds

-----------------------------------------------------------------------------
(* Completed replies                                                       *)

\* What a completed copy says is stored, or was withdrawn, also after a step.
LEMMA RowStays ==
    ASSUME TypeOK, [Next]_vars, NEW id \in Known, IsReply(id), NEW copy,
           copy.status = "completed", Confirmed(id, copy)
    PROVE  copy = Row(id)' \/ <<id, copy>> \in withdrawn'
<1>1. Len(replies) \in Nat
  BY LenProperties DEF TypeOK
<1>2. /\ id \div 2 \in 1 .. Len(replies) /\ Reply(id \div 2) = id
      /\ Row(id) = replies[id \div 2] /\ Row(id)' = replies'[id \div 2]
  <2>1. id \in Nat \ {0} /\ id <= 2 * Len(replies)
    BY <1>1 DEF Known
  <2>2. id \div 2 \in Nat \ {0} /\ 2 * (id \div 2) = id /\ Reply(id \div 2) = id
    BY <2>1, Parity DEF Reply
  <2>3. id \div 2 \in 1 .. Len(replies)
    BY <1>1, <2>1, <2>2
  <2> QED
    BY <2>2, <2>3 DEF Row
<1> QED
  BY <1>2, ServerStep DEF Confirmed

\* An event leaves a copy that says it is completed only as the server's own.
LEMMA AppliedCurrent ==
    ASSUME TypeOK, WireInv, StoredInv, NEW s \in Sends, Receive(s), kind = "data"
    PROVE  Current(messages') /\ UNCHANGED server
<1> DEFINE event == Head(send[s].wire)
           e == send[s].exchange
           new == ApplyEvent(messages, event)
<1>1. send[s].wire # <<>> /\ messages' = new /\ UNCHANGED server
  BY DEF Receive
<1>2. /\ e \in 1 .. Len(replies) /\ event \in Events /\ event.id = Reply(e)
      /\ event.type = "started" => event.exchange = e
      /\ event = send[s].wire[1] /\ 1 \in DOMAIN send[s].wire
  <2>1. /\ Len(send[s].wire) \in Nat /\ DOMAIN send[s].wire = 1 .. Len(send[s].wire)
        /\ send[s].wire = <<>> <=> Len(send[s].wire) = 0
    BY WireShapes
  <2>2. 1 \in DOMAIN send[s].wire
    BY <1>1, <2>1
  <2> QED
    BY <1>1, <2>2, HeadOfWire
<1>3. event.type \in {"started", "completed"} /\ event.row.status = "completed" =>
        event.row = replies[e] \/ <<event.id, event.row>> \in withdrawn
  BY <1>2 DEF StoredInv
<1>4. Len(replies) \in Nat /\ IsReply(Reply(e)) /\ Reply(e) \div 2 = e /\ ~IsReply(Question(e))
  BY <1>2, Parity, WireShapes
<1> HIDE DEF event
<1>5. /\ DOMAIN new = DOMAIN messages \cup
            (IF event.type = "started" THEN {Question(e), Reply(e)}
             ELSE IF event.type = "completed" THEN {Reply(e)} ELSE {})
      /\ \A id \in DOMAIN messages \ {Question(e), Reply(e)} : new[id] = messages[id]
      /\ event.type \in {"started", "completed"} => new[Reply(e)] = event.row
      /\ event.type = "delta" /\ Reply(e) \in DOMAIN messages => new[Reply(e)].status = "streaming"
      /\ event.type = "failed" /\ Reply(e) \in DOMAIN messages => new[Reply(e)].status = "failed"
  <2> HIDE DEF e
  <2>1. event.type = "delta" /\ Reply(e) \in DOMAIN messages =>
          new[Reply(e)] = [status |-> "streaming",
                           text   |-> <<messages[Reply(e)].text[1], messages[Reply(e)].text[2] + 1>>]
    BY <1>2, Applied
  <2>2. event.type = "delta" /\ Reply(e) \in DOMAIN messages => new[Reply(e)].status = "streaming"
    BY <2>1
  <2> QED
    BY <1>2, <2>2, Applied
<1>6. event.type \in {"started", "delta", "completed", "failed"}
  BY <1>2 DEF Events
<1> HIDE DEF new, e
<1>7. ASSUME NEW id \in DOMAIN new, IsReply(id), new[id].status = "completed"
      PROVE  Confirmed(id, new[id])
  <2>1. CASE id = Reply(e)
    <3>1. event.type \in {"started", "completed"} /\ new[id] = event.row
      BY <1>5, <1>6, <1>7, <2>1
    <3> QED
      BY <1>2, <1>3, <1>4, <1>7, <2>1, <3>1 DEF Row, Confirmed
  <2>2. CASE id # Reply(e)
    <3>1. id \in DOMAIN messages /\ new[id] = messages[id]
      BY <1>4, <1>5, <1>7, <2>2
    <3> QED
      BY <1>7, <3>1 DEF StoredInv, Current
  <2> QED
    BY <2>1, <2>2
<1> QED
  BY <1>1, <1>7 DEF Current

\* The views.
LEMMA ViewsStep ==
    ASSUME TypeOK, WireInv, StoredInv, [Next]_vars
    PROVE  /\ Current(messages)' /\ Current(older.messages)'
           /\ Current(build.page.items)' /\ Current(older.page.items)'
<1>1. /\ Shows(messages) /\ Shows(older.messages)
      /\ Shows(build.page.items) /\ Shows(older.page.items)
      /\ None \in Cursors /\ older.cursor \in Cursors
  BY DEF TypeOK, Cursors
<1>2. /\ Current(messages) /\ Current(older.messages)
      /\ Current(build.page.items) /\ Current(older.page.items)
  BY DEF StoredInv
<1>3. UNCHANGED server => withdrawn' = withdrawn /\ \A id : Row(id)' = Row(id)
  BY DEF server, Row
<1>4. Current(messages)'
  <2>1. CASE UNCHANGED messages
    BY <1>1, <1>2, <2>1, RowStays DEF Shows, Current, Confirmed
  <2>2. CASE BuildDone
    BY <1>2, <1>3, <2>2 DEF BuildDone, Current, Confirmed
  <2>3. CASE OlderDone
    BY <1>2, <1>3, <2>3 DEF OlderDone, Current, Over, Confirmed
  <2>4. ASSUME NEW s \in Sends, Receive(s) PROVE Current(messages)'
    <3>1. CASE kind = "data"
      BY <1>3, <2>4, <3>1, AppliedCurrent DEF Current, Confirmed
    <3>2. CASE kind # "data"
      BY <1>2, <1>3, <2>4, <3>2 DEF Receive, Current, Confirmed
    <3> QED
      BY <3>1, <3>2
  <2>5. ASSUME NEW s \in Sends, SendEnds(s) PROVE Current(messages)'
    <3>1. (messages' = messages \/ messages' = StreamFailed(messages)) /\ UNCHANGED server
      BY <2>5 DEF SendEnds
    <3>2. Current(StreamFailed(messages))
      BY <1>1, <1>2 DEF Current, StreamFailed, Shows, Copies
    <3> QED
      BY <1>2, <1>3, <3>1, <3>2 DEF Current, Confirmed
  <2> QED
    BY <2>1, <2>2, <2>3, <2>4, <2>5
       DEF Next, vars, ui, ServerChunk, ServerSettle, ServerCommitsInDoubt, ServerWithdraws, Settles,
           Reload, BuildRead, BuildFails, LoadOlder,
           OlderRead, OlderFails, Send, Retry, Start, ServerAccepts, ConnectionCloses
<1>5. Current(build.page.items)'
  <2>1. CASE UNCHANGED build
    BY <1>1, <1>2, <2>1, RowStays DEF Shows, Current, Confirmed
  <2>2. CASE Reload \/ BuildDone \/ BuildFails
    <3>1. DOMAIN build'.page.items = {}
      BY <2>2 DEF Reload, BuildDone, BuildFails, NoBuild, NoPage
    <3> QED
      BY <3>1 DEF Current, Confirmed
  <2>3. CASE BuildRead
    <3>1. build'.page.items = Page(None).items /\ UNCHANGED server
      BY <2>3 DEF BuildRead
    <3> QED
      BY <1>1, <1>3, <3>1, PageRead DEF Current, Confirmed
  <2> QED
    BY <2>1, <2>2, <2>3
       DEF Next, vars, ServerChunk, ServerSettle, ServerCommitsInDoubt, ServerWithdraws, Settles,
           LoadOlder, OlderRead, OlderDone,
           OlderFails, Send, Retry, Start, ServerAccepts, ConnectionCloses, Receive, SendEnds
<1>6. Current(older.page.items)' /\ Current(older.messages)'
  <2>1. CASE UNCHANGED older
    BY <1>1, <1>2, <2>1, RowStays DEF Shows, Current, Confirmed
  <2>2. CASE Reload \/ OlderDone \/ OlderFails
    <3>1. older' = NoOlder
      BY <2>2 DEF Reload, OlderDone, OlderFails
    <3>2. DOMAIN older'.page.items = {} /\ DOMAIN older'.messages = {}
      BY <3>1 DEF NoOlder, NoPage
    <3> QED
      BY <3>2 DEF Current, Confirmed
  <2>3. CASE LoadOlder
    <3>1. older'.messages = messages /\ DOMAIN older'.page.items = {} /\ UNCHANGED server
      BY <2>3 DEF LoadOlder, NoPage
    <3> QED
      BY <1>2, <1>3, <3>1 DEF Current, Confirmed
  <2>4. CASE OlderRead
    <3>1. older'.page = Page(older.cursor) /\ older'.messages = older.messages /\ UNCHANGED server
      BY <2>4 DEF OlderRead, TypeOK
    <3>2. Current(Page(older.cursor).items)
      BY <1>1, PageRead
    <3> QED
      BY <1>2, <1>3, <3>1, <3>2 DEF Current, Confirmed
  <2> QED
    BY <2>1, <2>2, <2>3, <2>4
       DEF Next, vars, ServerChunk, ServerSettle, ServerCommitsInDoubt, ServerWithdraws, Settles,
           BuildRead, BuildDone, BuildFails,
           Send, Retry, Start, ServerAccepts, ConnectionCloses, Receive, SendEnds
<1> QED
  BY <1>4, <1>5, <1>6

\* The copies on the wires.
LEMMA WiresStep ==
    ASSUME TypeOK, WireInv, StoredInv, [Next]_vars, NEW s \in Sends
    PROVE  \A i \in DOMAIN send'[s].wire :
              LET event == send'[s].wire[i]
              IN event.type \in {"started", "completed"} /\ event.row.status = "completed" =>
                    \/ event.row = replies'[send'[s].exchange]
                    \/ <<event.id, event.row>> \in withdrawn'
<1> DEFINE w == send[s].wire
           e == send[s].exchange
           Good(event, x) ==
              event.type \in {"started", "completed"} /\ event.row.status = "completed" =>
                  event.row = replies'[x] \/ <<event.id, event.row>> \in withdrawn'
<1>1. /\ w \in Seq(Events) /\ Len(w) \in Nat /\ DOMAIN w = 1 .. Len(w)
      /\ w = <<>> <=> Len(w) = 0
      /\ e \in 0 .. Len(replies) /\ Len(replies) \in Nat
  BY WireShapes
<1>2. send[s] = [at |-> send[s].at, exchange |-> e, wire |-> w,
                 told |-> send[s].told, text |-> send[s].text]
  BY WireShapes
<1>3. ASSUME NEW i \in 1 .. Len(w) PROVE Good(w[i], e)
  <2>1. e \in 1 .. Len(replies) /\ w[i].id = Reply(e)
    BY <1>1 DEF WireInv, Wire
  <2>2. w[i].type \in {"started", "completed"} /\ w[i].row.status = "completed" =>
           w[i].row = replies[e] \/ <<w[i].id, w[i].row>> \in withdrawn
    BY <1>1 DEF StoredInv
  <2> QED
    BY <2>1, <2>2, ServerStep
<1> SUFFICES \A i \in DOMAIN send'[s].wire : Good(send'[s].wire[i], send'[s].exchange)
  OBVIOUS
<1>4. CASE send'[s] = send[s]
  BY <1>1, <1>3, <1>4
<1>5. CASE Emitted(s)
  <2>1. PICK event \in Events, at \in {"open", "closed"} :
          /\ send'[s] = [send[s] EXCEPT !.at = at, !.wire = Append(w, event)]
          /\ event.type = "delta" \/ event.row = replies'[e]
    BY <1>5 DEF Emitted
  <2> DEFINE new == Append(w, event)
  <2>2. /\ DOMAIN new = 1 .. Len(w) + 1 /\ new[Len(w) + 1] = event
        /\ \A i \in 1 .. Len(w) : new[i] = w[i]
    <3>1. new \in Seq(Events) /\ Len(new) = Len(w) + 1
      BY <1>1, AppendProperties
    <3> QED
      BY <1>1, <3>1, AppendProperties, LenProperties
  <2>3. send'[s].wire = new /\ send'[s].exchange = e
    BY <1>2, <2>1
  <2> HIDE DEF new
  <2>4. ASSUME NEW i \in 1 .. Len(w) + 1 PROVE Good(new[i], e)
    <3>1. CASE i = Len(w) + 1
      BY <2>1, <2>2, <3>1
    <3>2. CASE i \in 1 .. Len(w)
      BY <1>3, <2>2, <3>2
    <3> QED
      BY <1>1, <3>1, <3>2
  <2> QED
    BY <2>2, <2>3, <2>4
<1>6. CASE Ended(s) \/ Started(s)
  <2>1. send'[s].wire = <<>>
    <3>1. CASE Ended(s)
      BY <3>1 DEF Ended, Idle
    <3>2. CASE Started(s)
      BY <3>2 DEF Started, Idle
    <3> QED
      BY <1>6, <3>1, <3>2
  <2> QED
    BY <2>1
<1>7. CASE Replays(s)
  <2>1. PICK x \in 1 .. Len(replies) :
          /\ replies' = replies
          /\ send'[s] = [send[s] EXCEPT !.at = "open", !.exchange = x,
                          !.wire = <<StartedEvent(x, replies[x]),
                                     [type |-> "completed", id |-> Reply(x), row |-> replies[x]]>>]
    BY <1>7 DEF Replays
  <2> DEFINE new == <<StartedEvent(x, replies[x]),
                      [type |-> "completed", id |-> Reply(x), row |-> replies[x]]>>
  <2>2. DOMAIN new = 1 .. 2 /\ new[1].row = replies'[x] /\ new[2].row = replies'[x]
    BY <2>1 DEF StartedEvent
  <2>3. send'[s].wire = new /\ send'[s].exchange = x
    BY <1>2, <2>1
  <2> HIDE DEF new
  <2> QED
    BY <2>2, <2>3
<1>8. CASE Attempts(s)
  <2>1. PICK x \in 1 .. Len(replies') :
          send'[s] = [send[s] EXCEPT !.at = "open", !.exchange = x, !.wire = <<StartedEvent(x, replies'[x])>>]
    BY <1>8 DEF Attempts
  <2> DEFINE new == <<StartedEvent(x, replies'[x])>>
  <2>2. DOMAIN new = {1} /\ new[1].row = replies'[x]
    BY DEF StartedEvent
  <2>3. send'[s].wire = new /\ send'[s].exchange = x
    BY <1>2, <2>1
  <2> HIDE DEF new
  <2> QED
    BY <2>2, <2>3
<1>9. CASE Closed(s)
  <2>1. PICK n \in 0 .. Len(w) : send'[s] = [send[s] EXCEPT !.at = "closed", !.wire = SubSeq(w, 1, n)]
    BY <1>9 DEF Closed
  <2> DEFINE new == SubSeq(w, 1, n)
  <2>2. DOMAIN new = 1 .. n /\ \A i \in 1 .. n : new[i] = w[i]
    <3>1. \A i \in 1 .. n : w[i] \in Events
      BY <1>1, ElementOfSeq
    <3>2. /\ new \in Seq(Events) /\ Len(new) = n
          /\ \A i \in 1 .. n : new[i] = w[i]
      BY <1>1, <3>1, SubSeqProperties
    <3> QED
      BY <3>2, LenProperties
  <2>3. send'[s].wire = new /\ send'[s].exchange = e
    BY <1>2, <2>1
  <2> HIDE DEF new
  <2>4. \A i \in 1 .. n : i \in 1 .. Len(w)
    BY <1>1
  <2> QED
    BY <1>3, <2>2, <2>3, <2>4
<1>10. CASE Received(s)
  <2> DEFINE told == Head(w).type \in {"completed", "failed"}
             text == TextAfter(send[s].text, Head(w))
             new == Tail(w)
  <2>1. send'[s] = [send[s] EXCEPT !.wire = new, !.told = told, !.text = text] /\ w # <<>>
    BY <1>10, Zenon DEF Received
  <2>2. DOMAIN new = 1 .. Len(w) - 1 /\ \A i \in 1 .. Len(w) - 1 : new[i] = w[i + 1]
    <3>1. /\ new \in Seq(Events) /\ Len(new) = Len(w) - 1
          /\ \A i \in 1 .. Len(new) : new[i] = w[i + 1]
      BY <1>1, <2>1, HeadTailProperties
    <3> QED
      BY <3>1, LenProperties
  <2> HIDE DEF told, text, new
  <2>3. send'[s].wire = new /\ send'[s].exchange = e
    BY <1>2, <2>1
  <2>4. ASSUME NEW i \in 1 .. Len(w) - 1 PROVE Good(new[i], e)
    <3>1. i + 1 \in 1 .. Len(w) /\ new[i] = w[i + 1]
      BY <1>1, <2>2
    <3>2. Good(w[i + 1], e)
      BY <1>3, <3>1
    <3> QED
      BY <3>1, <3>2
  <2> QED
    BY <2>2, <2>3, <2>4
<1> QED
  BY <1>4, <1>5, <1>6, <1>7, <1>8, <1>9, <1>10, SendKinds

\* Every step keeps what a completed copy says.
LEMMA StoredStep ==
    ASSUME TypeOK, WireInv, StoredInv, [Next]_vars
    PROVE  StoredInv'
  BY ViewsStep, WiresStep DEF StoredInv

-----------------------------------------------------------------------------
(* Pages                                                                   *)

\* The pages under way are whole, and end at their cursors.
LEMMA PageStep ==
    ASSUME TypeOK, PageInv, [Next]_vars
    PROVE  PageInv'
<1>1. None \in Cursors /\ older.cursor \in Cursors
  BY DEF TypeOK, Cursors
<1>2. Aligned(build.page.items)' /\ From(build.page.items, build.page.next)'
  <2>1. CASE UNCHANGED build
    BY <2>1 DEF PageInv, Aligned, From
  <2>2. CASE Reload \/ BuildDone \/ BuildFails
    <3>1. DOMAIN build'.page.items = {}
      BY <2>2 DEF Reload, BuildDone, BuildFails, NoBuild, NoPage
    <3> QED
      BY <3>1 DEF Aligned, From
  <2>3. CASE BuildRead
    <3>1. build'.page = Page(None)
      BY <2>3 DEF BuildRead
    <3>2. Aligned(Page(None).items) /\ From(Page(None).items, Page(None).next)
      BY <1>1, PageRead
    <3> QED
      BY <3>1, <3>2 DEF Aligned, From
  <2> QED
    BY <2>1, <2>2, <2>3
       DEF Next, vars, ServerChunk, ServerSettle, ServerCommitsInDoubt, ServerWithdraws, Settles,
           LoadOlder, OlderRead, OlderDone,
           OlderFails, Send, Retry, Start, ServerAccepts, ConnectionCloses, Receive, SendEnds
<1>3. /\ older'.at = "none" => older' = NoOlder
      /\ older' # NoOlder => older'.cursor # None
      /\ Aligned(older.page.items)' /\ From(older.page.items, older.page.next)'
      /\ \A id \in DOMAIN older'.page.items : id < older'.cursor
      /\ older'.page.next # None => older'.page.next < older'.cursor
  <2>1. CASE UNCHANGED older
    BY <2>1 DEF PageInv, Aligned, From
  <2>2. CASE Reload \/ OlderDone \/ OlderFails
    <3>1. older' = NoOlder
      BY <2>2 DEF Reload, OlderDone, OlderFails
    <3>2. DOMAIN older'.page.items = {} /\ older'.page.next = None
      BY <3>1 DEF NoOlder, NoPage
    <3> QED
      BY <3>1, <3>2 DEF Aligned, From
  <2>3. CASE LoadOlder
    <3>1. /\ older'.at = "asked" /\ older'.cursor = cursor /\ cursor # None
          /\ DOMAIN older'.page.items = {} /\ older'.page.next = None
      BY <2>3 DEF LoadOlder, NoPage
    <3> QED
      BY <3>1 DEF Aligned, From
  <2>4. CASE OlderRead
    <3>1. older' = [at |-> "read", page |-> Page(older.cursor), messages |-> older.messages,
                    cursor |-> older.cursor, sending |-> older.sending]
      BY <2>4 DEF OlderRead, TypeOK
    <3>2. older.cursor # None
      BY <2>4 DEF OlderRead, PageInv, NoOlder
    <3>3. /\ older'.at = "read" /\ older'.page = Page(older.cursor) /\ older'.cursor = older.cursor
      BY <3>1
    <3> QED
      BY <1>1, <3>2, <3>3, PageRead DEF Aligned, From
  <2> QED
    BY <2>1, <2>2, <2>3, <2>4
       DEF Next, vars, ServerChunk, ServerSettle, ServerCommitsInDoubt, ServerWithdraws, Settles,
           BuildRead, BuildDone, BuildFails,
           Send, Retry, Start, ServerAccepts, ConnectionCloses, Receive, SendEnds
<1> QED
  BY <1>2, <1>3 DEF PageInv

-----------------------------------------------------------------------------
(* What is shown of a stream                                               *)

\* What ShownInv says of one request under way.
StreamShown(s) ==
    /\ send[s].text # NoText =>
          /\ {Question(send[s].exchange), Reply(send[s].exchange)} \subseteq DOMAIN messages
          /\ ~send[s].told => messages[Reply(send[s].exchange)].text = send[s].text
    /\ send[s].exchange # 0 /\ cursor # None => Reply(send[s].exchange) >= cursor

\* Steps that write nothing of the state: a request keeps what has arrived of
\* it, and at most learns which exchange it is about.
LEMMA QuietStep ==
    ASSUME ShownInv, UNCHANGED <<ui, torn>>,
           older' # NoOlder => older # NoOlder /\ older'.cursor = older.cursor,
           \A s \in Sends :
              /\ s \in InFlight' <=> s \in InFlight
              /\ s \in InFlight =>
                    /\ send'[s].text = send[s].text /\ send'[s].told = send[s].told
                    /\ \/ send'[s].exchange = send[s].exchange
                       \/ /\ send[s].text = NoText
                          /\ cursor # None => Reply(send'[s].exchange) >= cursor
    PROVE  ShownInv'
<1> SUFFICES ASSUME ~torn, kind = "data" PROVE ShownInv'
  BY DEF ShownInv, ui
<1>1. UNCHANGED <<kind, messages, cursor, sending, torn>>
  BY DEF ui
<1>2. InFlight' = InFlight
  BY DEF InFlight
<1>3. ASSUME NEW s \in InFlight' PROVE StreamShown(s)'
  <2>1. s \in InFlight /\ s \in Sends
    BY <1>2 DEF InFlight
  <2>2. StreamShown(s)
    BY <2>1 DEF ShownInv, StreamShown
  <2> QED
    BY <1>1, <2>1, <2>2 DEF StreamShown
<1> QED
  BY <1>1, <1>2, <1>3 DEF ShownInv, StreamShown, Aligned, From

\* An older page is put before what is shown, and touches nothing of it.
LEMMA OlderDoneStep ==
    ASSUME TypeOK, PageInv, ShownInv, OlderDone, ~torn'
    PROVE  ShownInv'
<1> DEFINE page == older.page.items
<1>1. /\ ~torn /\ kind = "data" /\ older.messages = messages /\ older.sending = sending
      /\ messages' = Over(messages, page) /\ cursor' = older.page.next
      /\ sending' = sending /\ send' = send /\ older' = NoOlder
  BY DEF OlderDone
<1>2. older # NoOlder
  BY DEF OlderDone, NoOlder
<1>3. older.cursor = cursor /\ cursor # None /\ cursor \in Nat /\ older.page.next \in Cursors
  BY <1>1, <1>2 DEF ShownInv, PageInv, TypeOK, Cursors, Known
<1>4. /\ DOMAIN messages' = DOMAIN messages \cup DOMAIN page
      /\ \A id \in DOMAIN messages : id \notin DOMAIN page => messages'[id] = messages[id]
  BY <1>1 DEF Over
<1>5. /\ \A id \in DOMAIN messages : id \in Nat /\ id >= cursor /\ id \notin DOMAIN page
      /\ \A id \in DOMAIN page : id \in Nat
  <2>1. /\ \A id \in DOMAIN messages : id \in Nat /\ id >= cursor
        /\ \A id \in DOMAIN page : id \in Nat /\ id < cursor
    BY <1>1, <1>3 DEF ShownInv, PageInv, From, TypeOK, Shows, Known
  <2> QED
    BY <1>3, <2>1
<1>6. cursor' # None => cursor' \in Nat /\ cursor' < cursor
  BY <1>1, <1>3 DEF PageInv, Cursors, Known
<1>7. Aligned(messages)'
  BY <1>1, <1>4 DEF ShownInv, PageInv, Aligned
<1>8. From(messages, cursor)'
  <2> SUFFICES ASSUME cursor' # None, NEW id \in DOMAIN messages' PROVE id >= cursor'
    BY DEF From
  <2>1. CASE id \in DOMAIN messages
    BY <1>3, <1>5, <1>6, <2>1
  <2>2. CASE id \in DOMAIN page
    BY <1>1, <2>2 DEF PageInv, From
  <2> QED
    BY <1>4, <2>1, <2>2
<1>9. InFlight' = InFlight
  BY <1>1 DEF InFlight
<1>10. ASSUME NEW s \in InFlight' PROVE StreamShown(s)'
  <2>1. s \in InFlight
    BY <1>9
  <2>2. StreamShown(s)
    BY <1>1, <2>1 DEF ShownInv, StreamShown
  <2>3. Reply(send[s].exchange) \in Nat
    BY <2>1 DEF InFlight, TypeOK, Reply
  <2>4. send[s].exchange # 0 /\ cursor' # None => Reply(send[s].exchange) >= cursor'
    BY <1>3, <1>6, <2>2, <2>3 DEF StreamShown
  <2> QED
    BY <1>1, <1>4, <1>5, <2>2, <2>4 DEF StreamShown
<1> QED
  BY <1>1, <1>7, <1>8, <1>9, <1>10 DEF ShownInv, StreamShown

\* What arrives of a stream is what is shown of it.
LEMMA ReceiveStep ==
    ASSUME TypeOK, WireInv, ShownInv, NEW s \in Sends, Receive(s), ~torn, kind = "data"
    PROVE  ShownInv'
<1> DEFINE event == Head(send[s].wire)
           e == send[s].exchange
           new == ApplyEvent(messages, event)
           text == TextAfter(send[s].text, event)
           told == event.type \in {"completed", "failed"}
           wire == Tail(send[s].wire)
<1>1. /\ send[s].at \in {"open", "closed"} /\ send[s].wire # <<>> /\ messages' = new
      /\ UNCHANGED <<kind, cursor, sending, older, torn>>
  BY DEF Receive
<1>2. /\ e \in 1 .. Len(replies) /\ event \in Events /\ event.id = Reply(e)
      /\ event.type = "started" => event.exchange = e
      /\ event.type = "started" <=> send[s].text = NoText
      /\ ~send[s].told
  BY <1>1, HeadOfWire
<1>3. send' = [send EXCEPT ![s] = [send[s] EXCEPT !.wire = wire, !.told = told, !.text = text]]
  BY DEF Receive
<1>4. /\ send[s] = [at |-> send[s].at, exchange |-> e, wire |-> send[s].wire,
                    told |-> send[s].told, text |-> send[s].text]
      /\ DOMAIN send = Sends
  BY DEF TypeOK
<1> HIDE DEF event, wire
<1>5. /\ Shows(new)
      /\ DOMAIN new = DOMAIN messages \cup
            (IF event.type = "started" THEN {Question(e), Reply(e)}
             ELSE IF event.type = "completed" THEN {Reply(e)} ELSE {})
      /\ event.type \in {"started", "completed"} => new[Reply(e)] = event.row
  BY <1>2, Applied
<1>6. event.type = "delta" /\ Reply(e) \in DOMAIN messages =>
         new[Reply(e)] = [status |-> "streaming",
                          text   |-> <<messages[Reply(e)].text[1], messages[Reply(e)].text[2] + 1>>]
  BY <1>2, Applied
<1>7. event.type \in {"started", "delta", "completed", "failed"}
  BY <1>2 DEF Events
<1>8. s \in InFlight /\ InFlight = {s} /\ StreamShown(s)
  <2>1. s \in InFlight
    BY <1>1 DEF InFlight
  <2> QED
    BY <2>1 DEF ShownInv, StreamShown
<1> HIDE DEF new
<1>9. Question(e) \in Nat /\ Reply(e) \in Nat /\ Reply(e) - 1 = Question(e) /\ IsReply(Reply(e))
      /\ ~IsReply(Question(e))
  <2>1. e \in Nat \ {0}
    BY <1>2, WireShapes
  <2> HIDE DEF e
  <2> QED
    BY <2>1, Parity
<1>10. send[s].text # NoText => {Question(e), Reply(e)} \subseteq DOMAIN messages
  BY <1>8 DEF StreamShown
<1>11. {Question(e), Reply(e)} \subseteq DOMAIN new
  BY <1>2, <1>5, <1>10
<1>12. Aligned(new)
  <2>1. \A id \in DOMAIN new : id \in DOMAIN messages \/ id \in {Question(e), Reply(e)}
    BY <1>5
  <2>2. Aligned(messages) /\ DOMAIN messages \subseteq DOMAIN new
    BY <1>5 DEF ShownInv
  <2> QED
    BY <1>9, <1>11, <2>1, <2>2 DEF Aligned
<1>13. From(new, cursor)
  <2> SUFFICES ASSUME cursor # None, NEW id \in DOMAIN new PROVE id >= cursor
    BY DEF From
  <2>1. cursor \in Nat /\ ~IsReply(cursor)
    BY DEF TypeOK, Cursors, Known
  <2>2. e # 0 /\ Reply(e) >= cursor
    BY <1>2, <1>8 DEF StreamShown
  <2>3. Question(e) >= cursor
    BY <1>9, <2>1, <2>2
  <2>4. id \in DOMAIN messages => id >= cursor
    BY DEF ShownInv, From
  <2> QED
    BY <1>5, <2>2, <2>3, <2>4
<1>14. ~told => new[Reply(e)].text = text
  <2>1. CASE event.type = "started"
    BY <1>5, <2>1 DEF TextAfter
  <2>2. CASE event.type = "delta"
    <3>1. send[s].text # NoText /\ Reply(e) \in DOMAIN messages
      BY <1>2, <1>10, <2>2
    <3>2. messages[Reply(e)].text = send[s].text
      BY <1>2, <1>8, <3>1 DEF StreamShown
    <3>3. new[Reply(e)].text = <<send[s].text[1], send[s].text[2] + 1>>
      BY <1>6, <2>2, <3>1, <3>2
    <3> QED
      BY <2>2, <3>3 DEF TextAfter
  <2> QED
    BY <1>7, <2>1, <2>2
<1> HIDE DEF text, told
<1>15. /\ send'[s].at = send[s].at /\ send'[s].exchange = e /\ send'[s].text = text /\ send'[s].told = told
       /\ \A t \in Sends : t # s => send'[t] = send[t]
  BY <1>3, <1>4
<1>16. InFlight' = {s}
  BY <1>8, <1>15 DEF InFlight
<1>17. StreamShown(s)'
  <2>1. e # 0 /\ cursor # None => Reply(e) >= cursor
    BY <1>8 DEF StreamShown
  <2> QED
    BY <1>1, <1>11, <1>14, <1>15, <2>1 DEF StreamShown
<1>18. /\ sending' <=> InFlight' # {}
       /\ older' # NoOlder => older'.cursor = cursor'
  BY <1>1, <1>8, <1>16 DEF ShownInv
<1> QED
  BY <1>1, <1>12, <1>13, <1>16, <1>17, <1>18 DEF ShownInv, StreamShown

\* The button is off while a stream is under way: there is one stream.
LEMMA StartStep ==
    ASSUME TypeOK, WireInv, ShownInv, NEW s \in Sends, Send(s) \/ Retry(s), ~torn, kind = "data"
    PROVE  ShownInv'
<1>1. PICK e \in Nat :
        /\ Start(s, e)
        /\ e # 0 /\ cursor # None => Reply(e) >= cursor
  <2>1. CASE Send(s)
    BY <2>1 DEF Send
  <2>2. CASE Retry(s)
    <3>1. PICK id \in DOMAIN messages : IsReply(id) /\ Start(s, id \div 2)
      BY <2>2 DEF Retry
    <3>2. id \in Nat \ {0} /\ (cursor # None => id >= cursor)
      BY DEF TypeOK, Shows, Known, ShownInv, From
    <3>3. id \div 2 \in Nat /\ Reply(id \div 2) = id
      BY <3>1, <3>2, Parity
    <3> QED
      BY <3>1, <3>2, <3>3
  <2> QED
    BY <2>1, <2>2
<1>2. /\ ~sending /\ sending' = TRUE /\ UNCHANGED <<kind, messages, cursor, older, torn>>
      /\ send' = [send EXCEPT ![s] = [Idle EXCEPT !.at = "posting", !.exchange = e]]
  BY <1>1 DEF Start
<1>3. DOMAIN send = Sends
  BY DEF TypeOK
<1>4. /\ send'[s].at = "posting" /\ send'[s].exchange = e /\ send'[s].text = NoText
      /\ \A t \in Sends : t # s => send'[t] = send[t]
  BY <1>2, <1>3 DEF Idle
<1>5. InFlight = {}
  BY <1>2 DEF ShownInv
<1>6. InFlight' = {s}
  BY <1>4, <1>5 DEF InFlight
<1>7. StreamShown(s)'
  BY <1>1, <1>2, <1>4 DEF StreamShown
<1>8. Aligned(messages)' /\ From(messages, cursor)'
  BY <1>2 DEF ShownInv, Aligned, From
<1> QED
  BY <1>2, <1>6, <1>7, <1>8 DEF ShownInv, StreamShown

\* The end of the stream releases the composer, and no message goes.
LEMMA SendEndsStep ==
    ASSUME TypeOK, WireInv, ShownInv, NEW s \in Sends, SendEnds(s), ~torn, kind = "data"
    PROVE  ShownInv'
<1>1. /\ send[s].at = "closed" /\ sending' = FALSE /\ UNCHANGED <<kind, cursor, older, torn>>
      /\ messages' = messages \/ messages' = StreamFailed(messages)
      /\ send' = [send EXCEPT ![s] = [Idle EXCEPT !.at = "ended"]]
  BY DEF SendEnds
<1>2. DOMAIN messages' = DOMAIN messages
  BY <1>1 DEF StreamFailed
<1>3. s \in InFlight
  BY <1>1 DEF InFlight
<1>4. InFlight = {s}
  BY <1>3 DEF ShownInv
<1>5. send'[s].at = "ended" /\ \A t \in Sends : t # s => send'[t] = send[t]
  BY <1>1 DEF TypeOK, Idle
<1>6. InFlight' = {}
  BY <1>4, <1>5 DEF InFlight
<1>7. Aligned(messages)' /\ From(messages, cursor)'
  BY <1>1, <1>2 DEF ShownInv, Aligned, From
<1> QED
  BY <1>1, <1>6, <1>7 DEF ShownInv

\* Steps of the server and of the connection, and reads, write nothing of the state.
LEMMA UnseenStep ==
    ASSUME TypeOK, PageInv, WireInv, ShownInv,
           \/ ServerChunk \/ ServerSettle \/ ServerCommitsInDoubt \/ ServerWithdraws
           \/ BuildRead \/ OlderRead
           \/ \E s \in Sends : ServerAccepts(s) \/ ConnectionCloses(s)
    PROVE  ShownInv'
<1>1. UNCHANGED <<ui, torn>>
  BY DEF ServerChunk, ServerSettle, ServerCommitsInDoubt, ServerWithdraws, Settles,
         BuildRead, OlderRead, ServerAccepts, ConnectionCloses
<1>2. older' # NoOlder => older # NoOlder /\ older'.cursor = older.cursor
  <2>1. CASE OlderRead
    BY <2>1 DEF OlderRead, NoOlder, TypeOK
  <2>2. CASE ~OlderRead
    BY <2>2 DEF ServerChunk, ServerSettle, ServerCommitsInDoubt, ServerWithdraws, Settles,
                BuildRead, ServerAccepts, ConnectionCloses
  <2> QED
    BY <2>1, <2>2
<1>3. ASSUME NEW s \in Sends
      PROVE  /\ s \in InFlight' <=> s \in InFlight
             /\ s \in InFlight =>
                   /\ send'[s].text = send[s].text /\ send'[s].told = send[s].told
                   /\ \/ send'[s].exchange = send[s].exchange
                      \/ /\ send[s].text = NoText
                         /\ cursor # None => Reply(send'[s].exchange) >= cursor
  <2>1. /\ send[s] = [at |-> send[s].at, exchange |-> send[s].exchange, wire |-> send[s].wire,
                      told |-> send[s].told, text |-> send[s].text]
        /\ DOMAIN send = Sends
    BY DEF TypeOK
  <2>2. CASE ServerChunk \/ ServerSettle \/ ServerWithdraws
    <3>1. PICK e, event, at : Emit(e, event, at) /\ at \in {"open", "closed"}
      BY <2>2 DEF ServerChunk, ServerSettle, ServerCommitsInDoubt, ServerWithdraws, Settles
    <3>2. CASE Awaits(s, e)
      <4>1. send'[s] = [send[s] EXCEPT !.at = at, !.wire = Append(send[s].wire, event)]
        BY <3>1, <3>2 DEF Emit
      <4> DEFINE wire == Append(send[s].wire, event)
      <4> HIDE DEF wire
      <4>2. /\ send'[s].at = at /\ send'[s].exchange = send[s].exchange
            /\ send'[s].text = send[s].text /\ send'[s].told = send[s].told
        BY <2>1, <4>1
      <4> QED
        BY <3>1, <3>2, <4>2 DEF InFlight, Awaits
    <3>3. CASE ~Awaits(s, e)
      <4>1. send'[s] = send[s]
        BY <3>1, <3>3 DEF Emit
      <4> QED
        BY <4>1 DEF InFlight
    <3> QED
      BY <3>2, <3>3
  <2>3. CASE BuildRead \/ OlderRead \/ ServerCommitsInDoubt
    <3>1. send' = send
      BY <2>3 DEF BuildRead, OlderRead, ServerCommitsInDoubt
    <3> QED
      BY <3>1 DEF InFlight
  <2>4. ASSUME NEW t \in Sends, ConnectionCloses(t)
        PROVE  /\ s \in InFlight' <=> s \in InFlight
               /\ send'[s].text = send[s].text /\ send'[s].told = send[s].told
               /\ send'[s].exchange = send[s].exchange
    <3>1. CASE s # t
      <4>1. send'[s] = send[s]
        BY <2>1, <2>4, <3>1 DEF ConnectionCloses
      <4> QED
        BY <4>1 DEF InFlight
    <3>2. CASE s = t
      <4>1. PICK n : send' = [send EXCEPT ![s] = [send[s] EXCEPT !.at = "closed", !.wire = SubSeq(send[s].wire, 1, n)]]
        BY <2>4, <3>2 DEF ConnectionCloses
      <4> DEFINE wire == SubSeq(send[s].wire, 1, n)
      <4>2. send' = [send EXCEPT ![s] = [send[s] EXCEPT !.at = "closed", !.wire = wire]]
        BY <4>1
      <4> HIDE DEF wire
      <4>3. /\ send'[s].at = "closed" /\ send'[s].exchange = send[s].exchange
            /\ send'[s].text = send[s].text /\ send'[s].told = send[s].told
        BY <2>1, <4>2
      <4>4. send[s].at \in {"posting", "open"}
        BY <2>4, <3>2 DEF ConnectionCloses
      <4> QED
        BY <4>3, <4>4 DEF InFlight
    <3> QED
      BY <3>1, <3>2
  <2>5. ASSUME NEW t \in Sends, ServerAccepts(t)
        PROVE  /\ s \in InFlight' <=> s \in InFlight
               /\ send'[s].text = send[s].text /\ send'[s].told = send[s].told
               /\ \/ send'[s].exchange = send[s].exchange
                  \/ /\ send[s].text = NoText
                     /\ cursor # None => Reply(send'[s].exchange) >= cursor
    <3>1. CASE s # t
      <4>1. send'[s] = send[s]
        BY <2>1, <2>5, <3>1 DEF ServerAccepts, Answered
      <4> QED
        BY <4>1 DEF InFlight
    <3>2. CASE s = t
      <4> DEFINE e == Accepted(s)
      <4>1. send[s].at = "posting"
        BY <2>5, <3>2 DEF ServerAccepts
      <4>2. \/ send' = [send EXCEPT ![s].at = "closed"]
            \/ \E wire : send' = Answered(s, e, wire)
        BY <2>5, <3>2 DEF ServerAccepts, Accepted
      <4>3. \/ send'[s] = [send[s] EXCEPT !.at = "closed"]
            \/ \E wire : send'[s] = [send[s] EXCEPT !.at = "open", !.exchange = e, !.wire = wire]
        <5> HIDE DEF e
        <5> QED
          BY <2>1, <4>2 DEF Answered
      <4>4. /\ send'[s].at \in {"open", "closed"} /\ send'[s].exchange \in {e, send[s].exchange}
            /\ send'[s].text = send[s].text /\ send'[s].told = send[s].told
        <5> HIDE DEF e
        <5> QED
          BY <2>1, <4>3
      <4>5. send[s].text = NoText
        BY <4>1 DEF WireInv, Wire
      <4>6. CASE send[s].exchange = 0
        <5>1. cursor # None => Reply(e) >= cursor
          <6>1. Len(replies) \in Nat
            BY WireShapes
          <6> QED
            BY <4>6, <6>1 DEF Accepted, Reply, TypeOK, Cursors, Known
        <5> QED
          BY <4>1, <4>4, <4>5, <5>1 DEF InFlight
      <4>7. CASE send[s].exchange # 0
        <5>1. e = send[s].exchange
          BY <4>7 DEF Accepted
        <5> QED
          BY <4>1, <4>4, <5>1 DEF InFlight
      <4> QED
        BY <4>6, <4>7
    <3> QED
      BY <3>1, <3>2
  <2> QED
    BY <2>2, <2>3, <2>4, <2>5
<1> QED
  BY <1>1, <1>2, <1>3, QuietStep

\* A reload, a page and an error: the state is left, replaced or lost as a whole.
LEMMA PageShown ==
    ASSUME TypeOK, PageInv, ShownInv,
           Reload \/ BuildDone \/ BuildFails \/ LoadOlder \/ OlderFails, ~torn', kind' = "data"
    PROVE  ShownInv'
<1>1. CASE Reload
  <2>1. /\ ~torn /\ kind = "data" /\ InFlight = {} /\ older' = NoOlder
        /\ UNCHANGED <<messages, cursor, sending>>
    BY <1>1 DEF Reload, ui
  <2>2. send' = [s \in Sends |-> send[s]]
    BY <1>1, <2>1 DEF Reload
  <2>3. InFlight' = {}
    BY <2>1, <2>2 DEF InFlight
  <2> QED
    BY <2>1, <2>3 DEF ShownInv, Aligned, From
<1>2. CASE BuildDone
  <2>1. /\ messages' = build.page.items /\ cursor' = build.page.next /\ sending' = FALSE
        /\ InFlight = {} /\ older' = NoOlder /\ send' = send
    BY <1>2 DEF BuildDone
  <2>2. InFlight' = {}
    BY <2>1 DEF InFlight
  <2>3. Aligned(messages)' /\ From(messages, cursor)'
    BY <2>1 DEF PageInv, Aligned, From
  <2> QED
    BY <2>1, <2>2, <2>3 DEF ShownInv
<1>3. CASE BuildFails \/ OlderFails
  BY <1>3 DEF BuildFails, OlderFails
<1>4. CASE LoadOlder
  <2>1. /\ ~torn /\ kind = "data" /\ older'.cursor = cursor
        /\ UNCHANGED <<messages, cursor, sending, send>>
    BY <1>4 DEF LoadOlder
  <2>2. InFlight' = InFlight
    BY <2>1 DEF InFlight
  <2> QED
    BY <2>1, <2>2 DEF ShownInv, Aligned, From
<1> QED
  BY <1>1, <1>2, <1>3, <1>4

\* Every step keeps the agreement of what is shown with the live send.
LEMMA ShownStep ==
    ASSUME TypeOK, PageInv, WireInv, ShownInv, [Next]_vars
    PROVE  ShownInv'
<1> SUFFICES ASSUME ~torn', kind' = "data" PROVE ShownInv'
  BY DEF ShownInv
<1>1. CASE UNCHANGED vars
  <2>1. UNCHANGED <<kind, messages, cursor, sending, older, send, torn>>
    BY <1>1 DEF vars, ui
  <2>2. InFlight' = InFlight
    BY <2>1 DEF InFlight
  <2> QED
    BY <2>1, <2>2 DEF ShownInv, Aligned, From
<1>2. CASE \/ ServerChunk \/ ServerSettle \/ ServerCommitsInDoubt \/ ServerWithdraws
           \/ BuildRead \/ OlderRead
  BY <1>2, UnseenStep
<1>3. CASE Reload \/ BuildDone \/ BuildFails \/ LoadOlder \/ OlderFails
  BY <1>3, PageShown
<1>4. CASE OlderDone
  BY <1>4, OlderDoneStep
<1>5. ASSUME NEW s \in Sends,
             \/ Send(s) \/ Retry(s) \/ ServerAccepts(s)
             \/ ConnectionCloses(s) \/ Receive(s) \/ SendEnds(s)
      PROVE  ShownInv'
  <2>1. CASE ServerAccepts(s) \/ ConnectionCloses(s)
    BY <2>1, UnseenStep
  <2>2. CASE Send(s) \/ Retry(s)
    <3>1. PICK e : Start(s, e)
      BY <2>2 DEF Send, Retry
    <3>2. ~torn /\ kind = "data"
      BY <3>1 DEF Start
    <3> QED
      BY <2>2, <3>2, StartStep
  <2>3. CASE Receive(s)
    <3>1. ~torn /\ kind = "data"
      BY <2>3 DEF Receive
    <3> QED
      BY <2>3, <3>1, ReceiveStep
  <2>4. CASE SendEnds(s)
    <3>1. ~torn /\ kind = "data"
      BY <2>4 DEF SendEnds
    <3> QED
      BY <2>4, <3>1, SendEndsStep
  <2> QED
    BY <1>5, <2>1, <2>2, <2>3, <2>4
<1> QED
  BY <1>1, <1>2, <1>3, <1>4, <1>5 DEF Next

-----------------------------------------------------------------------------
(* The theorems                                                            *)

\* The page opens on the conversation as it is stored, and shows nothing yet.
LEMMA Opened ==
    ASSUME Init
    PROVE  TypeOK /\ PageInv /\ WireInv /\ StoredInv /\ ShownInv
<1>1. Len(Stored) \in Nat /\ DOMAIN Stored = 1 .. Len(Stored)
      /\ \A e \in 1 .. Len(Stored) : Stored[e] \in Statuses
  BY BoundsAreNumbers, LenProperties, ElementOfSeq DEF Statuses
<1> DEFINE n == Len(Stored)
           rows == [e \in 1 .. n |-> [status |-> Stored[e], text |-> <<1, 0>>]]
           texts == [e \in 1 .. n |-> <<1, 0>>]
<1>2. rows \in Seq(Rows) /\ Len(rows) = n
  <2>1. \A e \in 1 .. n : rows[e] \in Rows
    BY <1>1 DEF Rows
  <2> QED
    BY <1>1, <2>1, IsASeq, LenProperties
<1>3. texts \in Seq((Nat \ {0}) \X Nat) /\ Len(texts) = n
  BY <1>1, IsASeq, LenProperties
<1>4. replies = rows /\ made = texts /\ doubted = {} /\ withdrawn = {}
  BY <1>1 DEF Init
<1> HIDE DEF rows, texts
<1>5. /\ DOMAIN <<>> = {} /\ Shows(<<>>) /\ Current(<<>>) /\ Aligned(<<>>) /\ From(<<>>, None)
  BY DEF Shows, Current, Aligned, From
<1>6. /\ kind = "loading" /\ messages = <<>> /\ cursor = None
      /\ loadingOlder = FALSE /\ sending = FALSE /\ torn = FALSE /\ reloads = 0
      /\ build = [at |-> "asked", page |-> NoPage] /\ older = NoOlder
      /\ \A s \in Sends : send[s] = Idle
      /\ send = [s \in Sends |-> Idle]
  BY DEF Init, NoBuild
<1>7. TypeOK
  <2>1. Idle \in [at: {"idle", "posting", "open", "closed", "ended"},
                  exchange: 0 .. Len(replies), wire: Seq(Events),
                  told: BOOLEAN, text: Nat \X Nat]
    BY <1>1, <1>2, <1>4, EmptySeq DEF Idle, NoText
  <2> QED
    BY <1>2, <1>3, <1>4, <1>5, <1>6, <2>1 DEF TypeOK, NoOlder, NoPage, Cursors
<1>8. PageInv
  BY <1>5, <1>6 DEF PageInv, NoOlder, NoPage
<1>9. WireInv
  BY <1>6 DEF WireInv, Wire, Idle
<1>10. StoredInv
  BY <1>5, <1>6 DEF StoredInv, Idle, NoOlder, NoPage
<1>11. ShownInv
  BY <1>6 DEF ShownInv
<1> QED
  BY <1>7, <1>8, <1>9, <1>10, <1>11

\* What the notifier keeps is well-formed, pages and wires are what their
\* requests allow, and the shown state is that of the server and the stream:
\* the conjunction is inductive, and every result below follows from it.
THEOREM ClientSound == Spec => [](TypeOK /\ PageInv /\ WireInv /\ StoredInv /\ ShownInv)
<1> DEFINE Inv == TypeOK /\ PageInv /\ WireInv /\ StoredInv /\ ShownInv
<1>1. Init => Inv
  BY Opened
<1>2. Inv /\ [Next]_vars => Inv'
  BY TypeStep, PageStep, WireStep, StoredStep, ShownStep
<1> QED
  BY <1>1, <1>2, PTL DEF Spec

\* Every variable of the page keeps its type, and every id shown is of a message.
THEOREM TypeCorrect == Spec => []TypeOK
  BY ClientSound, PTL

\* A reply shown as completed is the one the server has stored, or the very row
\* it had completed and withdrew because it did not learn of its commit.
THEOREM CompletedStored == Spec => []CompletedIsStored
<1>1. StoredInv => CompletedIsStored
  BY DEF StoredInv, Current, CompletedIsStored
<1> QED
  BY <1>1, ClientSound, PTL

\* The composer is held exactly while a stream is under way, what has arrived
\* of it is what is shown, and a failed reply is shown with its question.
THEOREM StreamIsShown == Spec => []ShownFollowsStream
<1>1. ShownInv => ShownFollowsStream
  BY DEF ShownInv, Aligned, ShownFollowsStream
<1> QED
  BY <1>1, ClientSound, PTL
=============================================================================
