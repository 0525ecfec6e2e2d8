------------------------ MODULE Conversation_proofs ------------------------
(***************************************************************************)
(* Proofs about Conversation, for every number of requests, every shape of *)
(* request and answer, every image budget, any clock and any number of     *)
(* faults.  The first part is about sequences of items: what the loop of   *)
(* the image budget does to one, and what continuing one adds to it.  The  *)
(* second part is about the handlers and the stored states.                *)
(***************************************************************************)
EXTENDS Conversation, Induction, FiniteSetTheorems, TLAPS

-----------------------------------------------------------------------------
(* The inductive invariant.                                                  *)

\* The images of the conversation before place k are left out, for a reason:
\* enough newer ones remain, and with any more of them it would not have fitted.
AsNeeded(items, asked, k) ==
    /\ k \in 1 .. Len(asked) + 1
    /\ items = Abridged(asked, k)
    /\ k > 1 => Cardinality(ImagesFrom(asked, k)) >= KeepLast
    /\ \A j \in 1 .. k - 1 : ~Fits(asked, j) \/ ImagesFrom(asked, j) = ImagesFrom(asked, k)

\* The items are the conversation with no more images left out than needed.
Trimmed(items, asked) == \E k \in 1 .. Len(asked) + 1 : AsNeeded(items, asked, k)

\* So is what an upstream is sent, within its limits.
Sent(items, asked, to) ==
    \E k \in 1 .. Len(asked) + 1 :
        /\ AsNeeded(items, asked, k)
        /\ to = "native" => Fits(asked, k)
        /\ to = "chat" => ImagesFrom(asked, k) = {}

Busy == {"trying", "waiting", "recording", "streaming"}

\* The handler of a stream that has ended settles its activity.
Ending == {"completed", "broken", "finalizing", "incomplete", "closing"}

RowType ==
    [who : Identity, prev : Request \cup {None}, conversation : Request,
     request_items : Items, response_items : Seq(Item), expires : Nat]

BodyType ==
    {NoBody} \cup [to : {"native", "chat"}, items : Items, instructions : BOOLEAN]
             \cup [to : {"chat", "images"}]

RequestType ==
    [phase : Final \cup Ending \cup Busy, shape : Shapes, prev : Request \cup {None},
     parent : RowType \cup {NoRow}, conversation : Request, n : Nat \ {0},
     body : BodyType, output : Seq(Item)]

ToldType ==
    [id : BOOLEAN, asked : Seq(Item), said : Seq(Item), until : Nat,
     end : {"-", "completion", "break"}, mishap : BOOLEAN]

ThreadType == ({"header"} \X STRING) \cup ({"conversation"} \X Request)

Entry == [status : {"streaming", "success", "failed"}, thread : ThreadType, writing : BOOLEAN]

Typed ==
    /\ now \in 0 .. MaxNow /\ faults \in 0 .. MaxFaults
    /\ server \in {"down", "encrypting", "recovering", "cleaning", "up"}
    /\ rows \in [Request -> RowType \cup {NoRow}]
    /\ req \in [Request -> RequestType \cup {Idle}]
    /\ log \in [Request -> Seq(Entry)]
    /\ told \in [Request -> ToldType]

\* A request that has not arrived has left no trace.
IdleInv(r) ==
    req[r] = Idle => /\ rows[r] = NoRow /\ log[r] = <<>>
                     /\ ~told[r].id /\ told[r].until = 0 /\ told[r].said = <<>>

\* The rest is said of the values a request r has or is about to have, among
\* all requests: q of its handler, w of its row, l of its activities and t of
\* what was told.

\* The conversation a request belongs to: its own, or the one it continues.
ConversationOf(all, r, q) == IF q.prev = None THEN r ELSE all[q.prev].conversation

InConversation(all, r, q) ==
    /\ q.prev # None => all[q.prev] # Idle
    /\ q.conversation = ConversationOf(all, r, q)

\* Everything said in the conversation was said by its owner.
OwnedBy(all, who, asked) ==
    \A i \in DOMAIN asked : all[asked[i].of] # Idle /\ all[asked[i].of].shape.who = who

SaidBy(r, items) == \A i \in DOMAIN items : items[i].of = r

Input(r, q) ==
    IF q.parent = NoRow THEN current_input_items(r, q.shape)
    ELSE continuation_items(q.parent, current_input_items(r, q.shape))

\* What a Responses request holds while it is served.
ResponsesOk(all, r, q, t) ==
    /\ Trimmed(Input(r, q), t.asked)
    /\ OwnedBy(all, q.shape.who, t.asked)
    /\ q.phase # "trying" =>
         /\ q.body \in [to : {"native", "chat"}, items : Items, instructions : BOOLEAN]
         /\ Sent(q.body.items, t.asked, q.body.to)

\* Whether an answer is to be stored.
StoresOf(q) == q.shape.api = "responses" /\ decode_optional_bool(q.shape.store, TRUE)

\* What any request does.
RequestOk(all, r, q, t) ==
    /\ q.n \in DOMAIN q.shape.attempts
    /\ q.phase \in Final \cup Ending \cup {"trying"} => q.body = NoBody
    /\ q.phase \in {"trying", "waiting", "recording", "refused"} => ~t.id
    /\ q.phase = "recording" => q.shape.api = "responses"
    /\ q.phase \in {"recording", "answered"} /\ StoresOf(q) => t.until > 0
    /\ SaidBy(r, t.said) /\ SaidBy(r, q.output)
    /\ q.phase \in Busy => InConversation(all, r, q)
    /\ q.phase \in Busy /\ q.shape.api = "responses" => ResponsesOk(all, r, q, t)

\* What is stored of a request is what was sent and what came back ...
StoredOk(all, r, q, w, t) ==
    /\ q.shape.api = "responses"
    /\ q.phase \in {"recording"} \cup Final \cup Ending
    /\ t.id => w.response_items = t.said
    /\ q.phase = "recording" => w.response_items = q.output
    /\ w.who = q.shape.who /\ w.conversation = q.conversation
    /\ w.expires = t.until
    /\ Trimmed(w.request_items, t.asked)
    /\ OwnedBy(all, q.shape.who, t.asked) /\ InConversation(all, r, q)

\* ... for as long as the client was promised.
RowOk(all, time, r, q, w, t) ==
    /\ w = NoRow => 2 * t.until <= time
    /\ w # NoRow => StoredOk(all, r, q, w, t)

\* An activity that has failed for good.
FailedEntry(e) == e.status = "failed" /\ ~e.writing

AllFailed(l) == \A i \in DOMAIN l : FailedEntry(l[i])

\* Only the last activity may be anything else.
Earlier(l) == \A i \in DOMAIN l : i # Len(l) => FailedEntry(l[i])

\* The last activity has a status.
EndsWith(l, status) == l # <<>> /\ l[Len(l)].status = status

\* How a stream that has ended is to be recorded.
Verdict(t) == IF t.end = "completion" THEN "success" ELSE "failed"

\* What the activity of a stream says at each phase, for want of a mishap.
StreamOk(phase, l, t) ==
    /\ \A i \in DOMAIN l : l[i].status = "success" =>
         \/ phase = "answered"
         \/ t.end = "completion" /\ phase \notin {"streaming", "completed", "broken"}
    /\ phase = "answered" => \A i \in DOMAIN l : ~l[i].writing
    /\ phase = "completed" => t.end = "completion"
    /\ phase = "broken" => t.end = "break"
    /\ phase = "incomplete" => t.mishap
    /\ phase \in {"streaming", "completed", "broken"} /\ ~t.mishap =>
         EndsWith(l, "streaming") /\ l[Len(l)].writing
    /\ phase \in {"finalizing", "closing"} /\ ~t.mishap =>
         EndsWith(l, Verdict(t)) /\ l[Len(l)].writing
    /\ phase = "settled" /\ ~t.mishap =>
         EndsWith(l, Verdict(t)) /\ ~l[Len(l)].writing

ThreadOf(all, r, q, thread) ==
    \/ thread = <<"conversation", ConversationOf(all, r, q)>>
    \/ thread[1] = "header" /\ thread[2] \notin {"-", "../"}

Threaded(all, r, q, l) ==
    /\ \A i \in DOMAIN l : ThreadOf(all, r, q, l[i].thread)
    /\ l # <<>> => InConversation(all, r, q)

\* What the activities say of a request at each of its phases.
LogOk(all, r, q, l, t) ==
    /\ Len(l) <= Len(q.shape.attempts)
    /\ Threaded(all, r, q, l)
    /\ Earlier(l)
    /\ q.phase \in {"trying", "waiting", "recording"} => AllFailed(l) /\ Len(l) < q.n
    /\ q.phase = "refused" => AllFailed(l)
    /\ q.phase = "answered" /\ q.shape.api # "images" => EndsWith(l, "success")
    /\ StreamOk(q.phase, l, t)

RequestInv(r) ==
    req[r] # Idle => /\ RequestOk(req, r, req[r], told[r])
                     /\ RowOk(req, now, r, req[r], rows[r], told[r])
                     /\ LogOk(req, r, req[r], log[r], told[r])

\* Rows of the older format: those read and not waiting in the batch are
\* encrypted, and all of them are once the startup goes on.
Encrypted(i) == \A column \in DOMAIN legacy[i] : legacy[i][column] # 0

LegacyInv ==
    /\ batch.offset \in 0 .. Len(LegacyRows) /\ batch.rows \in Seq(DOMAIN LegacyRows)
    /\ DOMAIN batch = {"offset", "rows"}
    /\ DOMAIN legacy = DOMAIN LegacyRows
    /\ \A i \in DOMAIN LegacyRows : \A column \in DOMAIN legacy[i] : legacy[i][column] \in -1 .. 1
    /\ server = "encrypting" =>
         \A i \in 1 .. batch.offset : Encrypted(i) \/ \E j \in DOMAIN batch.rows : batch.rows[j] = i
    /\ server \in {"recovering", "cleaning", "up"} => \A i \in DOMAIN LegacyRows : Encrypted(i)

Inv ==
    /\ Typed /\ LegacyInv
    /\ \A r \in Request : IdleInv(r) /\ RequestInv(r)

-----------------------------------------------------------------------------
(* The bytes of the images in a sequence of items.                           *)

\* Every item, a placeholder too, has a kind and a length.
LEMMA ItemFacts ==
  ASSUME NEW s \in Items
  PROVE  /\ Len(s) \in Nat /\ DOMAIN s = 1 .. Len(s)
         /\ \A i \in 1 .. Len(s) : s[i] \in Item \cup {placeholder_text}
         /\ \A i \in 1 .. Len(s) : s[i].bytes \in Nat /\ image_body_bytes(s, i) \in Nat
<1>1. /\ Len(s) \in Nat /\ DOMAIN s = 1 .. Len(s)
      /\ \A i \in 1 .. Len(s) : s[i] \in Item \cup {placeholder_text}
  BY DEF Items
<1>2. ASSUME NEW x \in Item \cup {placeholder_text} PROVE x.bytes \in Nat
  BY <1>2 DEF Item, placeholder_text
<1> QED
  BY <1>1, <1>2 DEF image_body_bytes

\* f is the table of the sums over the first items of s, up to n.
Sums(s, f, n) ==
    f = [i \in 0 .. n |-> IF i = 0 THEN 0 ELSE f[i - 1] + image_body_bytes(s, i)]

\* The sum's recursion over the places is well founded: the table exists.
LEMMA SumsExist ==
  ASSUME NEW s
  PROVE  \A n \in Nat : \E f : Sums(s, f, n)
<1> DEFINE Ok == {n \in Nat : \E f : Sums(s, f, n)}
<1>1. 0 \in Ok
  <2> DEFINE f == [i \in 0 .. 0 |-> 0]
  <2>1. Sums(s, f, 0)
    BY DEF Sums
  <2> QED
    BY <2>1
<1>2. ASSUME NEW n \in Nat, n \in Ok PROVE n + 1 \in Ok
  <2>1. PICK f : Sums(s, f, n)
    BY <1>2
  <2> DEFINE g == [i \in 0 .. n + 1 |-> IF i <= n THEN f[i] ELSE f[n] + image_body_bytes(s, n + 1)]
  <2>2. \A i \in 0 .. n : f[i] = IF i = 0 THEN 0 ELSE f[i - 1] + image_body_bytes(s, i)
    BY <2>1 DEF Sums
  <2>3. Sums(s, g, n + 1)
    <3> SUFFICES ASSUME NEW i \in 0 .. n + 1
                 PROVE  g[i] = IF i = 0 THEN 0 ELSE g[i - 1] + image_body_bytes(s, i)
      BY DEF Sums
    <3>1. CASE i = n + 1
      <4>1. i # 0 /\ i - 1 = n /\ g[i - 1] = f[n] /\ ~(i <= n)
        BY <3>1
      <4> QED
        BY <3>1, <4>1
    <3>2. CASE i = 0
      BY <3>2, <2>2
    <3>3. CASE i \in 1 .. n
      <4>1. i - 1 \in 0 .. n /\ i \in 0 .. n /\ i <= n /\ i - 1 <= n /\ i # 0
        BY <3>3
      <4>2. g[i] = f[i] /\ g[i - 1] = f[i - 1]
        BY <4>1
      <4> QED
        BY <4>1, <4>2, <2>2
    <3> QED
      BY <3>1, <3>2, <3>3
  <2> QED
    BY <2>3
<1> HIDE DEF Ok
<1>3. \A n \in Nat : n \in Ok
  BY <1>1, <1>2, SetInduction
<1> QED
  BY <1>3 DEF Ok

\* The partial sums of s, as a table of numbers.
PartialSums(s, f) ==
    /\ f \in [0 .. Len(s) -> Nat]
    /\ f[0] = 0
    /\ \A i \in 1 .. Len(s) : f[i] = f[i - 1] + image_body_bytes(s, i)
    /\ TotalBytes(s) = f[Len(s)]

\* TotalBytes adds up the images of the items.
LEMMA TotalBytesSum ==
  ASSUME NEW s \in Items
  PROVE  (\E f : PartialSums(s, f)) /\ TotalBytes(s) \in Nat
<1> DEFINE f == CHOOSE g : Sums(s, g, Len(s))
<1>1. Len(s) \in Nat /\ \A i \in 1 .. Len(s) : image_body_bytes(s, i) \in Nat
  BY ItemFacts
<1>2. Sums(s, f, Len(s))
  BY <1>1, SumsExist
<1>3. TotalBytes(s) = f[Len(s)]
  BY DEF TotalBytes, Sums
<1>4. /\ DOMAIN f = 0 .. Len(s)
      /\ f = [i \in 0 .. Len(s) |-> f[i]]
  <2> HIDE DEF f
  <2> QED
    BY <1>2 DEF Sums
<1>a. \A i \in 0 .. Len(s) : f[i] = IF i = 0 THEN 0 ELSE f[i - 1] + image_body_bytes(s, i)
  <2> HIDE DEF f
  <2> QED
    BY <1>2 DEF Sums
<1> HIDE DEF f
<1>b. f[0] = 0
  BY <1>1, <1>a
<1> DEFINE Ok == {n \in 0 .. Len(s) : f[n] \in Nat}
<1>5. 0 \in Ok
  BY <1>1, <1>b
<1>6. ASSUME NEW n \in 0 .. Len(s), n < Len(s), n \in Ok PROVE n + 1 \in Ok
  <2>1. n + 1 \in 1 .. Len(s) /\ n + 1 \in 0 .. Len(s) /\ (n + 1) - 1 = n /\ n + 1 # 0
    BY <1>1, <1>6
  <2>2. f[n + 1] = f[n] + image_body_bytes(s, n + 1)
    BY <1>a, <2>1
  <2> QED
    BY <1>1, <1>6, <2>1, <2>2
<1>7. \A n \in 0 .. Len(s) : n \in Ok
  <2> HIDE DEF Ok
  <2> QED
    BY <1>1, <1>5, <1>6, BoundedInduction
<1>8. f \in [0 .. Len(s) -> Nat]
  BY <1>4, <1>7
<1>9. PartialSums(s, f)
  <2>1. ASSUME NEW i \in 1 .. Len(s) PROVE f[i] = f[i - 1] + image_body_bytes(s, i)
    <3>1. i \in 0 .. Len(s) /\ i # 0
      BY <1>1
    <3> QED
      BY <1>a, <3>1
  <2> QED
    BY <1>3, <1>8, <1>b, <2>1 DEF PartialSums
<1> QED
  BY <1>1, <1>3, <1>8, <1>9

\* Item for item, s weighs no more than t.
Lighter(s, t) ==
    /\ Len(s) <= Len(t)
    /\ \A i \in 1 .. Len(s) : image_body_bytes(s, i) <= image_body_bytes(t, i)

\* Then neither does its sum.
LEMMA TotalBytesMonotone ==
  ASSUME NEW s \in Items, NEW t \in Items, Lighter(s, t)
  PROVE  TotalBytes(s) <= TotalBytes(t)
<1>1. PICK f : PartialSums(s, f)
  BY TotalBytesSum
<1>2. PICK g : PartialSums(t, g)
  BY TotalBytesSum
<1>3. /\ Len(s) \in Nat /\ Len(t) \in Nat /\ Len(s) <= Len(t)
      /\ \A i \in 1 .. Len(s) : image_body_bytes(s, i) \in Nat
      /\ \A i \in 1 .. Len(t) : image_body_bytes(t, i) \in Nat
  BY ItemFacts DEF Lighter
<1>4. /\ f \in [0 .. Len(s) -> Nat] /\ g \in [0 .. Len(t) -> Nat] /\ f[0] = 0 /\ g[0] = 0
      /\ \A i \in 1 .. Len(s) : f[i] = f[i - 1] + image_body_bytes(s, i)
      /\ \A i \in 1 .. Len(t) : g[i] = g[i - 1] + image_body_bytes(t, i)
  BY <1>1, <1>2 DEF PartialSums
<1> DEFINE Ok == {n \in 0 .. Len(t) : /\ n <= Len(s) => f[n] <= g[n]
                                      /\ n >= Len(s) => f[Len(s)] <= g[n]}
<1>5. 0 \in Ok
  BY <1>3, <1>4
<1>6. ASSUME NEW n \in 0 .. Len(t), n < Len(t), n \in Ok PROVE n + 1 \in Ok
  <2>1. n + 1 \in 1 .. Len(t) /\ n + 1 \in 0 .. Len(t) /\ (n + 1) - 1 = n /\ n \in Nat
    BY <1>3, <1>6
  <2>2. g[n + 1] = g[n] + image_body_bytes(t, n + 1) /\ g[n] \in Nat /\ g[n + 1] \in Nat
        /\ image_body_bytes(t, n + 1) \in Nat
    BY <1>3, <1>4, <1>6, <2>1
  <2>3. CASE n < Len(s)
    <3>1. n + 1 \in 1 .. Len(s) /\ n \in 0 .. Len(s) /\ n + 1 \in 0 .. Len(s) /\ n <= Len(s)
      BY <1>3, <2>1, <2>3
    <3>2. f[n + 1] = f[n] + image_body_bytes(s, n + 1) /\ f[n] \in Nat
          /\ f[n + 1] \in Nat /\ f[n] <= g[n]
          /\ image_body_bytes(s, n + 1) \in Nat
      BY <1>3, <1>4, <1>6, <2>1, <3>1
    <3>3. image_body_bytes(s, n + 1) <= image_body_bytes(t, n + 1)
      BY <3>1 DEF Lighter
    <3>4. f[n + 1] <= g[n + 1]
      BY <2>2, <3>2, <3>3
    <3>5. n + 1 >= Len(s) => n + 1 = Len(s)
      BY <1>3, <2>1, <2>3
    <3> QED
      BY <2>1, <3>4, <3>5
  <2>4. CASE n >= Len(s)
    <3>1. f[Len(s)] <= g[n] /\ f[Len(s)] \in Nat /\ ~(n + 1 <= Len(s))
      BY <1>3, <1>4, <1>6, <2>1, <2>4
    <3> QED
      BY <2>1, <2>2, <3>1
  <2> QED
    BY <1>3, <2>1, <2>3, <2>4
<1>7. \A n \in 0 .. Len(t) : n \in Ok
  <2> HIDE DEF Ok
  <2> QED
    BY <1>3, <1>5, <1>6, BoundedInduction
<1>8. f[Len(s)] <= g[Len(t)]
  <2>1. Len(t) \in Ok
    <3> HIDE DEF Ok
    <3> QED  BY <1>3, <1>7
  <2> QED
    BY <1>3, <2>1
<1> QED
  BY <1>1, <1>2, <1>8 DEF PartialSums

\* Dropping an image takes its bytes off the sum.
LEMMA TotalBytesReplaced ==
  ASSUME NEW s \in Items, NEW k \in 1 .. Len(s)
  PROVE  /\ replace_with_placeholder(s, k) \in Items
         /\ TotalBytes(replace_with_placeholder(s, k)) = TotalBytes(s) - image_body_bytes(s, k)
<1> DEFINE t == replace_with_placeholder(s, k)
<1>0. /\ Len(s) \in Nat /\ DOMAIN s = 1 .. Len(s)
      /\ \A i \in 1 .. Len(s) : s[i] \in Item \cup {placeholder_text}
      /\ \A i \in 1 .. Len(s) : image_body_bytes(s, i) \in Nat
  BY ItemFacts
<1>1. /\ t \in Items /\ Len(t) = Len(s) /\ t[k] = placeholder_text
      /\ \A i \in 1 .. Len(s) : i # k => t[i] = s[i]
  BY <1>0 DEF replace_with_placeholder, Items
<1> HIDE DEF t
<1>2. /\ image_body_bytes(t, k) = 0
      /\ \A i \in 1 .. Len(s) : i # k => image_body_bytes(t, i) = image_body_bytes(s, i)
  BY <1>1 DEF image_body_bytes, placeholder_text
<1>3. PICK f : PartialSums(s, f)
  BY TotalBytesSum
<1>4. PICK g : PartialSums(t, g)
  BY <1>1, TotalBytesSum
<1>5. /\ f \in [0 .. Len(s) -> Nat] /\ g \in [0 .. Len(s) -> Nat] /\ f[0] = 0 /\ g[0] = 0
      /\ \A i \in 1 .. Len(s) : f[i] = f[i - 1] + image_body_bytes(s, i)
      /\ \A i \in 1 .. Len(s) : g[i] = g[i - 1] + image_body_bytes(t, i)
  BY <1>1, <1>3, <1>4 DEF PartialSums
<1> DEFINE w == image_body_bytes(s, k)
           Ok == {n \in 0 .. Len(s) : /\ n < k => g[n] = f[n]
                                      /\ n >= k => g[n] = f[n] - w}
<1>6. 0 \in Ok
  BY <1>0, <1>5
<1>7. ASSUME NEW n \in 0 .. Len(s), n < Len(s), n \in Ok PROVE n + 1 \in Ok
  <2>1. n + 1 \in 1 .. Len(s) /\ n + 1 \in 0 .. Len(s) /\ (n + 1) - 1 = n /\ n \in Nat
    BY <1>0, <1>7
  <2>2. /\ g[n + 1] = g[n] + image_body_bytes(t, n + 1)
        /\ f[n + 1] = f[n] + image_body_bytes(s, n + 1)
        /\ f[n] \in Nat /\ g[n] \in Nat /\ w \in Nat /\ image_body_bytes(s, n + 1) \in Nat
    BY <1>0, <1>5, <1>7, <2>1
  <2>3. CASE n + 1 = k
    <3>1. g[n] = f[n] /\ image_body_bytes(t, n + 1) = 0 /\ image_body_bytes(s, n + 1) = w
      BY <1>2, <1>7, <2>1, <2>3
    <3> QED
      BY <2>1, <2>2, <2>3, <3>1
  <2>4. CASE n + 1 # k
    <3>1. image_body_bytes(t, n + 1) = image_body_bytes(s, n + 1)
      BY <1>2, <2>1, <2>4
    <3>2. CASE n < k
      <4>1. n + 1 < k /\ g[n] = f[n] /\ ~(n + 1 >= k)
        BY <1>7, <2>1, <2>4, <3>2
      <4> QED
        BY <2>1, <2>2, <3>1, <4>1
    <3>3. CASE n >= k
      <4>1. ~(n + 1 < k) /\ g[n] = f[n] - w
        BY <1>7, <2>1, <2>4, <3>3
      <4> QED
        BY <2>1, <2>2, <3>1, <4>1
    <3> QED
      BY <2>1, <3>2, <3>3
  <2> QED
    BY <2>3, <2>4
<1>8. \A n \in 0 .. Len(s) : n \in Ok
  <2> HIDE DEF Ok
  <2> QED
    BY <1>0, <1>6, <1>7, BoundedInduction
<1>9. g[Len(s)] = f[Len(s)] - w
  <2>1. Len(s) \in Ok
    <3> HIDE DEF Ok
    <3> QED  BY <1>0, <1>8
  <2> QED
    BY <1>0, <2>1
<1> QED
  BY <1>1, <1>3, <1>4, <1>9 DEF PartialSums, t

-----------------------------------------------------------------------------
(* Leaving out the older images.                                             *)

\* What was said is a sequence of items without placeholders.
LEMMA SaidAreItems ==
  ASSUME NEW s \in Seq(Item)
  PROVE  s \in Items
BY DEF Items

\* Leaving out images neither moves nor loses an item.
LEMMA AbridgedFacts ==
  ASSUME NEW s \in Items, NEW k \in Nat
  PROVE  /\ Abridged(s, k) \in Items
         /\ Len(Abridged(s, k)) = Len(s) /\ DOMAIN Abridged(s, k) = 1 .. Len(s)
         /\ \A i \in 1 .. Len(s) :
              Abridged(s, k)[i] = IF s[i].kind = "image" /\ i < k THEN placeholder_text ELSE s[i]
<1> DEFINE t == Abridged(s, k)
<1>1. /\ Len(s) \in Nat /\ DOMAIN s = 1 .. Len(s)
      /\ \A i \in 1 .. Len(s) : s[i] \in Item \cup {placeholder_text}
  BY ItemFacts
<1>2. t = [i \in 1 .. Len(s) |-> IF s[i].kind = "image" /\ i < k THEN placeholder_text ELSE s[i]]
  BY <1>1 DEF Abridged
<1>3. \A i \in 1 .. Len(s) : t[i] \in Item \cup {placeholder_text}
  BY <1>1, <1>2
<1> HIDE DEF t
<1>4. t \in Seq(Item \cup {placeholder_text}) /\ Len(t) = Len(s)
  BY <1>1, <1>2, <1>3
<1> QED
  BY <1>2, <1>4 DEF Items, t

\* Two sequences of the same length with the same items are the same.
LEMMA SameItems ==
  ASSUME NEW s \in Items, NEW t \in Items, Len(s) = Len(t),
         \A i \in 1 .. Len(s) : s[i] = t[i]
  PROVE  s = t
BY DEF Items

\* Before the first place there is nothing to leave out.
LEMMA NothingLeftOut ==
  ASSUME NEW s \in Items
  PROVE  Abridged(s, 1) = s
<1>1. \A i \in 1 .. Len(s) : Abridged(s, 1)[i] = s[i]
  BY AbridgedFacts, ItemFacts
<1> QED
  BY <1>1, AbridgedFacts, SameItems

\* Leaving out twice is leaving out once, up to the later place.
LEMMA AbridgedTwice ==
  ASSUME NEW s \in Items, NEW j \in Nat, NEW k \in Nat
  PROVE  Abridged(Abridged(s, j), k) = Abridged(s, IF j <= k THEN k ELSE j)
<1> DEFINE m == IF j <= k THEN k ELSE j
           t == Abridged(s, j)
           u == Abridged(t, k)
           v == Abridged(s, m)
<1>0. m \in Nat /\ Len(s) \in Nat
  BY ItemFacts
<1>1. /\ t \in Items /\ Len(t) = Len(s)
      /\ \A i \in 1 .. Len(s) : t[i] = IF s[i].kind = "image" /\ i < j THEN placeholder_text ELSE s[i]
  BY AbridgedFacts
<1>2. /\ u \in Items /\ Len(u) = Len(s)
      /\ \A i \in 1 .. Len(s) : u[i] = IF t[i].kind = "image" /\ i < k THEN placeholder_text ELSE t[i]
  <2> HIDE DEF t
  <2> QED
    BY <1>1, AbridgedFacts
<1>3. /\ v \in Items /\ Len(v) = Len(s)
      /\ \A i \in 1 .. Len(s) : v[i] = IF s[i].kind = "image" /\ i < m THEN placeholder_text ELSE s[i]
  <2> HIDE DEF m
  <2> QED
    BY <1>0, AbridgedFacts
<1> HIDE DEF t, u, v
<1>4. \A i \in 1 .. Len(s) : u[i] = v[i]
  BY <1>0, <1>1, <1>2, <1>3 DEF placeholder_text
<1>5. u = v
  BY <1>2, <1>3, <1>4, SameItems
<1> QED
  BY <1>5 DEF t, u, v

\* Between places with no image in between it makes no difference.
LEMMA SameImages ==
  ASSUME NEW s \in Items, NEW j \in Nat \ {0}, NEW k \in Nat, j <= k,
         ImagesFrom(s, j) = ImagesFrom(s, k)
  PROVE  Abridged(s, j) = Abridged(s, k)
<1>0. Len(s) \in Nat
  BY ItemFacts
<1>1. ASSUME NEW i \in 1 .. Len(s) PROVE Abridged(s, j)[i] = Abridged(s, k)[i]
  <2>1. s[i].kind = "image" /\ i >= j => i >= k
    BY <1>0 DEF ImagesFrom
  <2>2. Abridged(s, j)[i] = IF s[i].kind = "image" /\ i < j THEN placeholder_text ELSE s[i]
    BY AbridgedFacts
  <2>3. Abridged(s, k)[i] = IF s[i].kind = "image" /\ i < k THEN placeholder_text ELSE s[i]
    BY AbridgedFacts
  <2> QED
    BY <1>0, <2>1, <2>2, <2>3
<1>2. /\ Abridged(s, j) \in Items /\ Abridged(s, k) \in Items
      /\ Len(Abridged(s, j)) = Len(s) /\ Len(Abridged(s, k)) = Len(s)
  BY AbridgedFacts
<1> QED
  BY <1>1, <1>2, SameItems

\* The images of a place on are those that are not left out.
LEMMA ImagesLeft ==
  ASSUME NEW s \in Items, NEW k \in Nat \ {0}
  PROVE  collect_images(Abridged(s, k)) = ImagesFrom(s, k)
<1>0. Len(s) \in Nat
  BY ItemFacts
<1>1. /\ DOMAIN Abridged(s, k) = 1 .. Len(s)
      /\ \A i \in 1 .. Len(s) :
           Abridged(s, k)[i] = IF s[i].kind = "image" /\ i < k THEN placeholder_text ELSE s[i]
  BY AbridgedFacts
<1>2. \A i \in 1 .. Len(s) : Abridged(s, k)[i].kind = "image" <=> (s[i].kind = "image" /\ i >= k)
  BY <1>0, <1>1 DEF placeholder_text
<1> QED
  BY <1>0, <1>1, <1>2 DEF collect_images, ImagesFrom

\* There are finitely many of them, and fewer the later they start.
LEMMA ImagesFinite ==
  ASSUME NEW s \in Items, NEW k \in Nat \ {0}
  PROVE  IsFiniteSet(ImagesFrom(s, k)) /\ Cardinality(ImagesFrom(s, k)) \in Nat
<1>1. IsFiniteSet(k .. Len(s))
  BY ItemFacts, FS_Interval
<1>2. IsFiniteSet(ImagesFrom(s, k))
  BY <1>1, FS_Subset DEF ImagesFrom
<1> QED
  BY <1>2, FS_CardinalityType

-----------------------------------------------------------------------------
(* Continuing a conversation.                                                *)

\* What follows is added after what was left out.
LEMMA Concatenated ==
  ASSUME NEW s \in Items, NEW t \in Items
  PROVE  /\ s \o t \in Items /\ Len(s \o t) = Len(s) + Len(t)
         /\ \A i \in 1 .. Len(s) : (s \o t)[i] = s[i]
         /\ \A i \in 1 .. Len(s) + Len(t) : i > Len(s) => (s \o t)[i] = t[i - Len(s)]
BY DEF Items

\* Leaving out images of what came first leaves what follows alone.
LEMMA AbridgedConcatenated ==
  ASSUME NEW s \in Items, NEW t \in Items, NEW k \in 1 .. Len(s) + 1
  PROVE  Abridged(s \o t, k) = Abridged(s, k) \o t
<1> DEFINE c == s \o t
           a == Abridged(s, k)
           u == Abridged(c, k)
           v == a \o t
<1>0. Len(s) \in Nat /\ Len(t) \in Nat /\ k \in Nat
  BY ItemFacts
<1>1. /\ c \in Items /\ Len(c) = Len(s) + Len(t)
      /\ \A i \in 1 .. Len(s) : c[i] = s[i]
      /\ \A i \in 1 .. Len(s) + Len(t) : i > Len(s) => c[i] = t[i - Len(s)]
  BY Concatenated
<1>2. /\ a \in Items /\ Len(a) = Len(s)
      /\ \A i \in 1 .. Len(s) : a[i] = IF s[i].kind = "image" /\ i < k THEN placeholder_text ELSE s[i]
  BY <1>0, AbridgedFacts
<1> HIDE DEF a, c
<1>3. /\ u \in Items /\ Len(u) = Len(s) + Len(t)
      /\ \A i \in 1 .. Len(s) + Len(t) :
           u[i] = IF c[i].kind = "image" /\ i < k THEN placeholder_text ELSE c[i]
  BY <1>0, <1>1, AbridgedFacts
<1>4. /\ v \in Items /\ Len(v) = Len(s) + Len(t)
      /\ \A i \in 1 .. Len(s) : v[i] = a[i]
      /\ \A i \in 1 .. Len(s) + Len(t) : i > Len(s) => v[i] = t[i - Len(s)]
  <2>1. /\ v \in Items /\ Len(v) = Len(a) + Len(t)
        /\ \A i \in 1 .. Len(a) : v[i] = a[i]
        /\ \A i \in 1 .. Len(a) + Len(t) : i > Len(a) => v[i] = t[i - Len(a)]
    BY <1>2, Concatenated
  <2> HIDE DEF v
  <2> QED
    BY <1>2, <2>1
<1> HIDE DEF u, v
<1>5. ASSUME NEW i \in 1 .. Len(s) + Len(t) PROVE u[i] = v[i]
  <2>1. CASE i \in 1 .. Len(s)
    BY <2>1, <1>1, <1>2, <1>3, <1>4
  <2>2. CASE i > Len(s)
    <3>1. ~(i < k)
      BY <1>0, <2>2
    <3> QED
      BY <2>2, <3>1, <1>1, <1>3, <1>4
  <2> QED
    BY <1>0, <2>1, <2>2
<1>6. u = v
  BY <1>3, <1>4, <1>5, SameItems
<1> QED
  BY <1>6 DEF u, v, a, c

\* Continuing a conversation adds to its images and to their bytes.
LEMMA ImagesConcatenated ==
  ASSUME NEW s \in Items, NEW t \in Items, NEW k \in 1 .. Len(s) + 1
  PROVE  /\ ImagesFrom(s, k) \subseteq ImagesFrom(s \o t, k)
         /\ ~Fits(s, k) => ~Fits(s \o t, k)
         /\ \A j \in 1 .. k : ImagesFrom(s, j) = ImagesFrom(s, k)
              => ImagesFrom(s \o t, j) = ImagesFrom(s \o t, k)
<1>0. Len(s) \in Nat /\ Len(t) \in Nat /\ k \in Nat \ {0}
  BY ItemFacts
<1>1. /\ s \o t \in Items /\ Len(s \o t) = Len(s) + Len(t)
      /\ \A i \in 1 .. Len(s) : (s \o t)[i] = s[i]
  BY Concatenated
<1>2. ImagesFrom(s, k) \subseteq ImagesFrom(s \o t, k)
  <2> DEFINE c == s \o t
  <2> HIDE DEF c
  <2>1. Len(c) = Len(s) + Len(t) /\ \A i \in 1 .. Len(s) : c[i] = s[i]
    BY <1>1 DEF c
  <2>2. ImagesFrom(s, k) \subseteq ImagesFrom(c, k)
    BY <1>0, <2>1 DEF ImagesFrom
  <2> QED
    BY <2>2 DEF c
<1>3. ASSUME ~Fits(s, k) PROVE ~Fits(s \o t, k)
  <2> DEFINE a == Abridged(s, k)
             b == a \o t
  <2>1. BudgetEnabled /\ ~(TotalBytes(a) <= MaxBytes)
    BY <1>3 DEF Fits
  <2>2. Abridged(s \o t, k) = b
    BY AbridgedConcatenated
  <2>3. a \in Items /\ Len(a) = Len(s)
    BY <1>0, AbridgedFacts
  <2> HIDE DEF a
  <2>4. /\ b \in Items /\ Len(b) = Len(a) + Len(t)
        /\ \A i \in 1 .. Len(a) : b[i] = a[i]
    BY <2>3, Concatenated
  <2> HIDE DEF b
  <2>5. /\ \A i \in 1 .. Len(a) : image_body_bytes(a, i) \in Nat /\ Len(a) \in Nat
        /\ TotalBytes(a) \in Nat /\ TotalBytes(b) \in Nat /\ MaxBytes \in Nat
    BY <2>3, <2>4, ItemFacts, TotalBytesSum, ConversationAssumption
  <2>6. Lighter(a, b)
    <3>1. \A i \in 1 .. Len(a) : image_body_bytes(a, i) = image_body_bytes(b, i)
      BY <2>4 DEF image_body_bytes
    <3> QED
      BY <1>0, <2>3, <2>4, <2>5, <3>1 DEF Lighter
  <2>7. TotalBytes(a) <= TotalBytes(b)
    BY <2>3, <2>4, <2>6, TotalBytesMonotone
  <2>8. ~(TotalBytes(b) <= MaxBytes)
    BY <2>1, <2>5, <2>7
  <2> QED
    BY <2>1, <2>2, <2>8 DEF Fits
<1>4. ASSUME NEW j \in 1 .. k, ImagesFrom(s, j) = ImagesFrom(s, k)
      PROVE  ImagesFrom(s \o t, j) = ImagesFrom(s \o t, k)
  <2> DEFINE c == s \o t
  <2> HIDE DEF c
  <2>1. Len(c) = Len(s) + Len(t) /\ \A i \in 1 .. Len(s) : c[i] = s[i]
    BY <1>1 DEF c
  <2>2. \A i \in j .. Len(s) : s[i].kind = "image" => i >= k
    BY <1>0, <1>4 DEF ImagesFrom
  <2>3. ASSUME NEW i \in j .. Len(c), c[i].kind = "image" PROVE i >= k
    BY <1>0, <2>1, <2>2, <2>3
  <2>4. k .. Len(c) \subseteq j .. Len(c)
    BY <1>0, <2>1
  <2>5. ImagesFrom(c, j) = ImagesFrom(c, k)
    BY <1>0, <2>1, <2>3, <2>4 DEF ImagesFrom
  <2> QED
    BY <2>5 DEF c
<1> QED
  BY <1>2, <1>3, <1>4

\* A conversation nothing is left out of.
LEMMA TrimmedWhole ==
  ASSUME NEW s \in Items
  PROVE  Trimmed(s, s)
<1>1. Len(s) \in Nat /\ 1 \in 1 .. Len(s) + 1
  BY ItemFacts
<1>2. AsNeeded(s, s, 1)
  BY <1>1, NothingLeftOut DEF AsNeeded
<1> QED
  BY <1>1, <1>2 DEF Trimmed

\* What was left out for a reason stays so when the conversation goes on.
LEMMA TrimmedContinued ==
  ASSUME NEW items, NEW asked \in Items, Trimmed(items, asked), NEW more \in Items
  PROVE  Trimmed(items \o more, asked \o more)
<1>1. PICK k \in 1 .. Len(asked) + 1 : AsNeeded(items, asked, k)
  BY DEF Trimmed
<1>2. Len(asked) \in Nat /\ Len(more) \in Nat /\ k \in Nat \ {0}
  BY ItemFacts
<1> DEFINE whole == asked \o more
<1>3. whole \in Items /\ Len(whole) = Len(asked) + Len(more)
  BY Concatenated
<1>4. k \in 1 .. Len(whole) + 1
  BY <1>2, <1>3
<1>5. items \o more = Abridged(whole, k)
  BY <1>1, AbridgedConcatenated DEF AsNeeded
<1>6. ASSUME k > 1 PROVE Cardinality(ImagesFrom(whole, k)) >= KeepLast
  <2>1. ImagesFrom(asked, k) \subseteq ImagesFrom(whole, k)
    BY ImagesConcatenated
  <2> HIDE DEF whole
  <2>2. IsFiniteSet(ImagesFrom(whole, k)) /\ Cardinality(ImagesFrom(whole, k)) \in Nat
        /\ Cardinality(ImagesFrom(asked, k)) \in Nat
    BY <1>2, <1>3, ImagesFinite
  <2>3. Cardinality(ImagesFrom(asked, k)) <= Cardinality(ImagesFrom(whole, k))
    BY <2>1, <2>2, FS_Subset
  <2>4. Cardinality(ImagesFrom(asked, k)) >= KeepLast /\ KeepLast \in Nat
    BY <1>1, <1>6, ConversationAssumption DEF AsNeeded
  <2> QED
    BY <2>2, <2>3, <2>4
<1>7. ASSUME NEW j \in 1 .. k - 1
      PROVE  ~Fits(whole, j) \/ ImagesFrom(whole, j) = ImagesFrom(whole, k)
  <2>1. j \in 1 .. Len(asked) + 1 /\ j \in 1 .. k
    BY <1>2
  <2>2. ~Fits(asked, j) => ~Fits(whole, j)
    BY <2>1, ImagesConcatenated
  <2>3. ImagesFrom(asked, j) = ImagesFrom(asked, k) => ImagesFrom(whole, j) = ImagesFrom(whole, k)
    BY <2>1, ImagesConcatenated
  <2> QED
    BY <1>1, <2>2, <2>3 DEF AsNeeded
<1> HIDE DEF whole
<1>8. AsNeeded(items \o more, whole, k)
  BY <1>4, <1>5, <1>6, <1>7 DEF AsNeeded
<1>9. Trimmed(items \o more, whole)
  BY <1>4, <1>8 DEF Trimmed
<1> QED
  BY <1>9 DEF whole

-----------------------------------------------------------------------------
(* The loop of the image budget.                                             *)

\* f is the table that the loop fills in for the first n places of s.
Loop(s, f, n) ==
    f = [i \in 0 .. n |->
           IF i = 0 THEN [items |-> s, remaining |-> TotalBytes(s), dropped |-> 0]
           ELSE IF i \notin Droppable(s) \/ f[i - 1].remaining <= MaxBytes THEN f[i - 1]
           ELSE Drop(s, f[i - 1], i)]

\* The loop ends: the table exists.
LEMMA LoopExists ==
  ASSUME NEW s
  PROVE  \A n \in Nat : \E f : Loop(s, f, n)
<1> DEFINE start == [items |-> s, remaining |-> TotalBytes(s), dropped |-> 0]
           Go(acc, i) == IF i \notin Droppable(s) \/ acc.remaining <= MaxBytes THEN acc
                         ELSE Drop(s, acc, i)
           Ok == {n \in Nat : \E f : Loop(s, f, n)}
<1>0. ASSUME NEW f, NEW n \in Nat
      PROVE  Loop(s, f, n) <=> f = [i \in 0 .. n |-> IF i = 0 THEN start ELSE Go(f[i - 1], i)]
  BY DEF Loop
<1> HIDE DEF start, Go
<1>1. 0 \in Ok
  <2> DEFINE f == [i \in 0 .. 0 |-> start]
  <2>1. f = [i \in 0 .. 0 |-> IF i = 0 THEN start ELSE Go(f[i - 1], i)]
    OBVIOUS
  <2>2. Loop(s, f, 0)
    BY <1>0, <2>1
  <2> QED
    BY <2>2
<1>2. ASSUME NEW n \in Nat, n \in Ok PROVE n + 1 \in Ok
  <2>1. PICK f : Loop(s, f, n)
    BY <1>2
  <2> DEFINE g == [i \in 0 .. n + 1 |-> IF i <= n THEN f[i] ELSE Go(f[n], n + 1)]
  <2>2. \A i \in 0 .. n : f[i] = IF i = 0 THEN start ELSE Go(f[i - 1], i)
    <3>1. f = [i \in 0 .. n |-> IF i = 0 THEN start ELSE Go(f[i - 1], i)]
      BY <1>0, <2>1
    <3> QED
      BY <3>1
  <2>3. g = [i \in 0 .. n + 1 |-> IF i = 0 THEN start ELSE Go(g[i - 1], i)]
    <3> SUFFICES ASSUME NEW i \in 0 .. n + 1
                 PROVE  g[i] = IF i = 0 THEN start ELSE Go(g[i - 1], i)
      OBVIOUS
    <3>1. CASE i = n + 1
      <4>1. i # 0 /\ i - 1 = n /\ g[i - 1] = f[n] /\ ~(i <= n)
        BY <3>1
      <4> QED
        BY <3>1, <4>1
    <3>2. CASE i = 0
      BY <3>2, <2>2
    <3>3. CASE i \in 1 .. n
      <4>1. i - 1 \in 0 .. n /\ i \in 0 .. n /\ i <= n /\ i - 1 <= n /\ i # 0
        BY <3>3
      <4>2. g[i] = f[i] /\ g[i - 1] = f[i - 1]
        BY <4>1
      <4> QED
        BY <4>1, <4>2, <2>2
    <3> QED
      BY <3>1, <3>2, <3>3
  <2>4. Loop(s, g, n + 1)
    <3> HIDE DEF g
    <3> QED
      BY <1>0, <2>3
  <2> QED
    BY <2>4
<1> HIDE DEF Ok
<1>3. \A n \in Nat : n \in Ok
  BY <1>1, <1>2, SetInduction
<1> QED
  BY <1>3 DEF Ok

\* Images are dropped from the oldest on: what is older than an image that may
\* be dropped may be dropped, and enough images are newer than it.
LEMMA DroppableFacts ==
  ASSUME NEW s \in Items, NEW i \in Droppable(s)
  PROVE  /\ i \in 1 .. Len(s) /\ s[i].kind = "image"
         /\ Cardinality(ImagesFrom(s, i + 1)) >= KeepLast
         /\ \A j \in 1 .. i : s[j].kind = "image" => j \in Droppable(s)
<1> DEFINE images == collect_images(s)
           Newer(j) == {m \in images : m > j}
<1>0. /\ Len(s) \in Nat /\ DOMAIN s = 1 .. Len(s) /\ KeepLast \in Nat
  BY ItemFacts, ConversationAssumption
<1>1. i \in 1 .. Len(s) /\ s[i].kind = "image" /\ Cardinality(Newer(i)) >= KeepLast
  BY <1>0 DEF Droppable, collect_images
<1>2. Newer(i) = ImagesFrom(s, i + 1)
  BY <1>0, <1>1 DEF collect_images, ImagesFrom
<1>3. ASSUME NEW j \in 1 .. i, s[j].kind = "image" PROVE j \in Droppable(s)
  <2>1. j \in images /\ Newer(i) \subseteq Newer(j)
    BY <1>0, <1>1, <1>3 DEF collect_images
  <2>2. IsFiniteSet(Newer(j))
    <3>1. IsFiniteSet(1 .. Len(s))
      BY <1>0, FS_Interval
    <3>2. Newer(j) \subseteq 1 .. Len(s)
      BY <1>0 DEF collect_images
    <3> QED
      BY <3>1, <3>2, FS_Subset
  <2> HIDE DEF Newer
  <2>3. Cardinality(Newer(i)) <= Cardinality(Newer(j)) /\ IsFiniteSet(Newer(i))
    BY <2>1, <2>2, FS_Subset
  <2>4. Cardinality(Newer(i)) \in Nat /\ Cardinality(Newer(j)) \in Nat
    BY <2>2, <2>3, FS_CardinalityType
  <2>5. Cardinality(Newer(j)) >= KeepLast
    BY <1>0, <1>1, <2>3, <2>4
  <2> QED
    BY <2>1, <2>5 DEF Newer, Droppable
<1> QED
  BY <1>1, <1>2, <1>3

\* Where the loop stands after n places: the images before k are dropped, and
\* with any more of them the items would have been over the budget.
Reached(s, acc, n, k) ==
    /\ k \in 1 .. n + 1
    /\ acc.items = Abridged(s, k)
    /\ acc.remaining = TotalBytes(Abridged(s, k))
    /\ k > 1 => k - 1 \in Droppable(s)
    /\ \A j \in 1 .. k - 1 : TotalBytes(Abridged(s, j)) > MaxBytes
    /\ acc.remaining > MaxBytes => \A i \in k .. n : i \notin Droppable(s)

\* One turn of the loop that drops an image.
LEMMA DropStep ==
  ASSUME NEW s \in Items, NEW n \in 0 .. Len(s), n < Len(s), NEW acc, NEW k,
         Reached(s, acc, n, k), n + 1 \in Droppable(s), acc.remaining > MaxBytes
  PROVE  Reached(s, Drop(s, acc, n + 1), n + 1, n + 2)
<1> DEFINE i == n + 1
           a == Abridged(s, i)
<1>0. /\ Len(s) \in Nat /\ i \in 1 .. Len(s) /\ i \in Nat \ {0} /\ k \in Nat \ {0} /\ k <= i
      /\ (n + 2) - 1 = i /\ i + 1 = n + 2 /\ MaxBytes \in Nat /\ n + 2 \in Nat \ {0}
  BY ItemFacts, ConversationAssumption DEF Reached
<1>1. s[i].kind = "image" /\ \A j \in 1 .. i : s[j].kind = "image" => j \in Droppable(s)
  BY DroppableFacts
<1>2. \A j \in k .. n : s[j].kind # "image"
  <2>1. \A j \in k .. n : j \notin Droppable(s) /\ j \in 1 .. i
    BY <1>0 DEF Reached
  <2> QED
    BY <1>1, <2>1
<1>3. \A j \in k .. i : Abridged(s, j) = a
  <2> SUFFICES ASSUME NEW j \in k .. i PROVE Abridged(s, j) = a
    OBVIOUS
  <2>1. j \in Nat \ {0} /\ j <= i /\ i \in Nat
    BY <1>0
  <2>2. ImagesFrom(s, j) = ImagesFrom(s, i)
    BY <1>0, <1>2 DEF ImagesFrom
  <2> QED
    BY <2>1, <2>2, SameImages
<1>4. acc.items = a /\ acc.remaining = TotalBytes(a)
  BY <1>0, <1>3 DEF Reached
<1>5. /\ a \in Items /\ Len(a) = Len(s)
      /\ \A j \in 1 .. Len(s) : a[j] = IF s[j].kind = "image" /\ j < i THEN placeholder_text ELSE s[j]
  BY <1>0, AbridgedFacts
<1> HIDE DEF a
<1>6. image_body_bytes(a, i) = image_body_bytes(s, i)
  BY <1>0, <1>5 DEF image_body_bytes
<1> DEFINE b == replace_with_placeholder(a, i)
<1>7. b \in Items /\ TotalBytes(b) = TotalBytes(a) - image_body_bytes(s, i)
  BY <1>0, <1>5, <1>6, TotalBytesReplaced
<1>8. b = Abridged(s, n + 2)
  <2>1. /\ Abridged(s, n + 2) \in Items /\ Len(Abridged(s, n + 2)) = Len(s)
        /\ \A j \in 1 .. Len(s) : Abridged(s, n + 2)[j]
             = IF s[j].kind = "image" /\ j < n + 2 THEN placeholder_text ELSE s[j]
    BY <1>0, AbridgedFacts
  <2>2. /\ Len(b) = Len(s) /\ b[i] = placeholder_text
        /\ \A j \in 1 .. Len(s) : j # i => b[j] = a[j]
    BY <1>0, <1>5 DEF replace_with_placeholder, Items
  <2> HIDE DEF b
  <2>3. \A j \in 1 .. Len(s) : b[j] = Abridged(s, n + 2)[j]
    BY <1>0, <1>1, <1>5, <2>1, <2>2
  <2> QED
    BY <1>7, <2>1, <2>2, <2>3, SameItems
<1>9. LET new == Drop(s, acc, n + 1)
      IN  new.items = b /\ new.remaining = TotalBytes(b)
  BY <1>4, <1>7 DEF Drop
<1>10. \A j \in 1 .. i : TotalBytes(Abridged(s, j)) > MaxBytes
  <2>1. \A j \in 1 .. i : j \in k .. i \/ j \in 1 .. k - 1
    BY <1>0
  <2> QED
    BY <1>3, <1>4, <2>1 DEF Reached
<1> HIDE DEF b
<1> DEFINE new == Drop(s, acc, n + 1)
<1>11. new.items = Abridged(s, n + 2) /\ new.remaining = TotalBytes(Abridged(s, n + 2))
  BY <1>8, <1>9
<1> HIDE DEF new
<1>12. Reached(s, new, n + 1, n + 2)
  <2>1. n + 2 \in 1 .. (n + 1) + 1 /\ (n + 2) .. (n + 1) = {}
    BY <1>0
  <2>2. (n + 2) - 1 \in Droppable(s)
    BY <1>0
  <2> QED
    BY <1>0, <1>10, <1>11, <2>1, <2>2 DEF Reached
<1> QED
  BY <1>12 DEF new

\* The loop leaves out the images before some place, as needed.
LEMMA LoopReaches ==
  ASSUME NEW s \in Items
  PROVE  \E k : Reached(s, DropOldest(s), Len(s), k)
<1> DEFINE f == CHOOSE g : Loop(s, g, Len(s))
<1>0. Len(s) \in Nat /\ MaxBytes \in Nat
  BY ItemFacts, ConversationAssumption
<1>1. Loop(s, f, Len(s))
  BY <1>0, LoopExists
<1>2. DropOldest(s) = f[Len(s)]
  BY DEF DropOldest, Loop
<1>3. \A i \in 0 .. Len(s) :
        f[i] = IF i = 0 THEN [items |-> s, remaining |-> TotalBytes(s), dropped |-> 0]
               ELSE IF i \notin Droppable(s) \/ f[i - 1].remaining <= MaxBytes THEN f[i - 1]
               ELSE Drop(s, f[i - 1], i)
  <2> HIDE DEF f
  <2> QED
    BY <1>1 DEF Loop
<1> HIDE DEF f
<1> DEFINE Ok == {n \in 0 .. Len(s) : \E k : Reached(s, f[n], n, k)}
<1>4. 0 \in Ok
  <2>1. f[0] = [items |-> s, remaining |-> TotalBytes(s), dropped |-> 0]
    BY <1>0, <1>3
  <2>2. Abridged(s, 1) = s
    BY NothingLeftOut
  <2>3. f[0].items = s /\ f[0].remaining = TotalBytes(s)
    BY <2>1
  <2>4. Reached(s, f[0], 0, 1)
    <3>1. 1 \in 1 .. 0 + 1 /\ 1 .. 0 = {} /\ 1 .. 1 - 1 = {}
      OBVIOUS
    <3> QED
      BY <2>2, <2>3, <3>1 DEF Reached
  <2> QED
    BY <1>0, <2>4
<1>5. ASSUME NEW n \in 0 .. Len(s), n < Len(s), n \in Ok PROVE n + 1 \in Ok
  <2>1. PICK k : Reached(s, f[n], n, k)
    BY <1>5
  <2>2. n + 1 \in 0 .. Len(s) /\ n + 1 # 0 /\ (n + 1) - 1 = n
    BY <1>0, <1>5
  <2>3. f[n + 1] = IF n + 1 \notin Droppable(s) \/ f[n].remaining <= MaxBytes THEN f[n]
                   ELSE Drop(s, f[n], n + 1)
    BY <1>3, <2>2
  <2>4. f[n].remaining \in Nat /\ k \in 1 .. n + 1
    <3>1. k \in Nat /\ k \in 1 .. n + 1
      BY <1>0, <2>1 DEF Reached
    <3> QED
      BY <2>1, <3>1, AbridgedFacts, TotalBytesSum DEF Reached
  <2>5. CASE n + 1 \notin Droppable(s) \/ f[n].remaining <= MaxBytes
    <3>1. f[n + 1] = f[n]
      BY <2>3, <2>5
    <3>2. k \in 1 .. (n + 1) + 1
      BY <1>0, <2>4
    <3>3. f[n].remaining > MaxBytes => \A i \in k .. n + 1 : i \notin Droppable(s)
      <4>1. ASSUME f[n].remaining > MaxBytes, NEW i \in k .. n + 1 PROVE i \notin Droppable(s)
        <5>1. n + 1 \notin Droppable(s)
          BY <1>0, <2>4, <2>5, <4>1
        <5>2. i = n + 1 \/ i \in k .. n
          BY <2>4
        <5> QED
          BY <2>1, <4>1, <5>1, <5>2 DEF Reached
      <4> QED
        BY <4>1
    <3>4. Reached(s, f[n], n + 1, k)
      BY <2>1, <3>2, <3>3 DEF Reached
    <3> QED
      BY <2>2, <3>1, <3>4
  <2>6. CASE n + 1 \in Droppable(s) /\ ~(f[n].remaining <= MaxBytes)
    <3>1. f[n + 1] = Drop(s, f[n], n + 1) /\ f[n].remaining > MaxBytes
      BY <1>0, <2>3, <2>4, <2>6
    <3>2. Reached(s, Drop(s, f[n], n + 1), n + 1, n + 2)
      BY <1>5, <2>1, <2>6, <3>1, DropStep
    <3> QED
      BY <2>2, <3>1, <3>2
  <2> QED
    BY <2>5, <2>6
<1>6. \A n \in 0 .. Len(s) : n \in Ok
  <2> HIDE DEF Ok
  <2> QED
    BY <1>0, <1>4, <1>5, BoundedInduction
<1>7. Len(s) \in Ok
  <2> HIDE DEF Ok
  <2> QED
    BY <1>0, <1>6
<1> QED
  BY <1>2, <1>7

-----------------------------------------------------------------------------
(* What an upstream is sent.                                                 *)

\* Items that passed the budget are the conversation with the newest images
\* that fit, although they had been trimmed before.
LEMMA NativeSent ==
  ASSUME NEW asked \in Items, NEW items, Trimmed(items, asked), budget_input_items(items).ok
  PROVE  /\ budget_input_items(items).items \in Items
         /\ Sent(budget_input_items(items).items, asked, "native")
<1> DEFINE out == budget_input_items(items)
<1>1. PICK h \in 1 .. Len(asked) + 1 : AsNeeded(items, asked, h)
  BY DEF Trimmed
<1>2. /\ Len(asked) \in Nat /\ h \in Nat \ {0} /\ MaxBytes \in Nat
      /\ items = Abridged(asked, h)
      /\ \A j \in 1 .. h - 1 : ~Fits(asked, j) \/ ImagesFrom(asked, j) = ImagesFrom(asked, h)
  BY <1>1, ItemFacts, ConversationAssumption DEF AsNeeded
<1>3. items \in Items /\ Len(items) = Len(asked) /\ TotalBytes(items) \in Nat
  BY <1>2, AbridgedFacts, TotalBytesSum
<1>4. CASE ~BudgetEnabled \/ TotalBytes(items) <= MaxBytes
  <2>1. out.items = items
    BY <1>4 DEF budget_input_items, apply
  <2>2. Fits(asked, h)
    BY <1>2, <1>4 DEF Fits
  <2>3. Sent(items, asked, "native")
    BY <1>1, <2>2 DEF Sent
  <2> QED
    BY <1>3, <2>1, <2>3
<1>5. CASE BudgetEnabled /\ ~(TotalBytes(items) <= MaxBytes)
  <2> DEFINE pruned == DropOldest(items)
  <2>1. out.items = pruned.items /\ pruned.remaining <= MaxBytes
    BY <1>5 DEF budget_input_items, apply
  <2>2. PICK k : Reached(items, pruned, Len(items), k)
    BY <1>3, LoopReaches
  <2> HIDE DEF pruned
  <2>3. /\ k \in 1 .. Len(asked) + 1 /\ k \in Nat \ {0}
        /\ pruned.items = Abridged(items, k) /\ TotalBytes(Abridged(items, k)) <= MaxBytes
        /\ \A j \in 1 .. k - 1 : TotalBytes(Abridged(items, j)) > MaxBytes
    BY <1>2, <1>3, <2>1, <2>2 DEF Reached
  <2>4. k # 1
    BY <1>3, <1>5, <2>3, NothingLeftOut
  <2>5. k - 1 \in Droppable(items)
    BY <2>2, <2>3, <2>4 DEF Reached
  <2>6. k - 1 \in ImagesFrom(asked, h)
    <3>1. k - 1 \in collect_images(items)
      BY <2>5 DEF Droppable
    <3> QED
      BY <1>2, <3>1, ImagesLeft
  <2>7. h < k /\ h <= k
    BY <1>2, <2>3, <2>6 DEF ImagesFrom
  <2>8. \A j \in Nat : j >= h => Abridged(items, j) = Abridged(asked, j)
    BY <1>2, AbridgedTwice
  <2>9. pruned.items = Abridged(asked, k)
    BY <2>3, <2>7, <2>8
  <2>10. Cardinality(ImagesFrom(asked, k)) >= KeepLast
    <3>1. (k - 1) + 1 = k
      BY <2>3
    <3>2. Cardinality(ImagesFrom(items, k)) >= KeepLast
      BY <1>3, <2>5, <3>1, DroppableFacts
    <3>3. ImagesFrom(items, k) = collect_images(Abridged(items, k))
      BY <1>3, <2>3, ImagesLeft
    <3>4. ImagesFrom(asked, k) = collect_images(Abridged(asked, k))
      BY <2>3, ImagesLeft
    <3>5. Abridged(items, k) = Abridged(asked, k)
      BY <2>3, <2>9
    <3> QED
      BY <3>2, <3>3, <3>4, <3>5
  <2>11. ASSUME NEW j \in 1 .. k - 1 PROVE ~Fits(asked, j)
    <3>0. j \in Nat \ {0} /\ j \in 1 .. k - 1 /\ 1 \in 1 .. k - 1
      BY <2>3, <2>4
    <3>1. CASE j >= h
      <4>1. TotalBytes(Abridged(asked, j)) > MaxBytes
        BY <2>3, <2>8, <3>0, <3>1
      <4>2. TotalBytes(Abridged(asked, j)) \in Nat
        BY <3>0, AbridgedFacts, TotalBytesSum
      <4> QED
        BY <1>2, <1>5, <4>1, <4>2 DEF Fits
    <3>2. CASE j < h
      <4>1. j \in 1 .. h - 1 /\ j <= h /\ h \in Nat
        BY <1>2, <3>0, <3>2
      <4>2. ~Fits(asked, j) \/ ImagesFrom(asked, j) = ImagesFrom(asked, h)
        BY <1>2, <4>1
      <4>3. ASSUME ImagesFrom(asked, j) = ImagesFrom(asked, h) PROVE Abridged(asked, j) = items
        BY <1>2, <3>0, <4>1, <4>3, SameImages
      <4> QED
        BY <1>5, <4>2, <4>3 DEF Fits
    <3> QED
      BY <1>2, <3>0, <3>1, <3>2
  <2>12. AsNeeded(pruned.items, asked, k)
    BY <2>3, <2>9, <2>10, <2>11 DEF AsNeeded
  <2>13. Fits(asked, k)
    BY <2>3, <2>9 DEF Fits
  <2>14. Sent(pruned.items, asked, "native")
    BY <2>3, <2>12, <2>13 DEF Sent
  <2>15. pruned.items \in Items
    BY <2>3, <2>9, AbridgedFacts
  <2> QED
    BY <2>1, <2>14, <2>15
<1> QED
  BY <1>4, <1>5

\* Items without an image are the conversation as a chat upstream gets it.
LEMMA ChatSent ==
  ASSUME NEW asked \in Items, NEW items, Trimmed(items, asked),
         validate_internal_request_for_bridge(items)
  PROVE  items \in Items /\ Sent(items, asked, "chat")
<1>1. PICK h \in 1 .. Len(asked) + 1 : AsNeeded(items, asked, h)
  BY DEF Trimmed
<1>2. h \in Nat \ {0} /\ items = Abridged(asked, h)
  BY <1>1, ItemFacts DEF AsNeeded
<1>3. items \in Items
  BY <1>2, AbridgedFacts
<1>4. collect_images(items) = {}
  BY DEF validate_internal_request_for_bridge, collect_images
<1>5. ImagesFrom(asked, h) = {}
  BY <1>2, <1>4, ImagesLeft
<1> QED
  BY <1>1, <1>3, <1>5 DEF Sent

\* What was sent is stored: no more is left out of it than needed.
LEMMA SentIsTrimmed ==
  ASSUME NEW items, NEW asked, NEW to, Sent(items, asked, to)
  PROVE  Trimmed(items, asked)
BY DEF Sent, Trimmed

-----------------------------------------------------------------------------
(* Steps of one request.                                                     *)

\* Requests never change what they asked for, nor their conversation.
Kept(all, new) ==
    \A p \in Request : all[p] # Idle =>
        /\ new[p] # Idle
        /\ new[p].shape = all[p].shape /\ new[p].conversation = all[p].conversation

\* The fields of a request and of what it was told.
LEMMA RequestFields ==
  ASSUME NEW q \in RequestType
  PROVE  /\ q # Idle /\ q.phase \in Final \cup Ending \cup Busy /\ q.shape \in Shapes
         /\ q.prev \in Request \cup {None} /\ q.conversation \in Request
         /\ q.parent \in RowType \cup {NoRow} /\ q.n \in Nat \ {0}
         /\ q.body \in BodyType /\ q.output \in Seq(Item)
<1>1. q.phase # "idle"
  BY DEF RequestType, Final, Ending, Busy
<1> QED
  BY <1>1 DEF RequestType, Idle

\* What was asked are items of requests, without placeholders.
LEMMA ToldFields ==
  ASSUME NEW t \in ToldType
  PROVE  /\ t.id \in BOOLEAN /\ t.asked \in Seq(Item) /\ t.said \in Seq(Item) /\ t.until \in Nat
         /\ t.asked \in Items
         /\ \A i \in DOMAIN t.asked : t.asked[i].of \in Request
<1>1. t.id \in BOOLEAN /\ t.asked \in Seq(Item) /\ t.said \in Seq(Item) /\ t.until \in Nat
  BY DEF ToldType
<1>2. \A i \in DOMAIN t.asked : t.asked[i] \in Item
  BY <1>1
<1>3. \A x \in Item : x.of \in Request
  BY DEF Item
<1> QED
  BY <1>1, <1>2, <1>3, SaidAreItems

\* So what holds of one of them goes on to hold.
LEMMA OkKept ==
  ASSUME NEW all, NEW new, Kept(all, new), NEW r \in Request, NEW q \in RequestType,
         NEW t \in ToldType, NEW w, NEW l, NEW time \in Nat, NEW later \in Nat, time <= later
  PROVE  /\ RequestOk(all, r, q, t) => RequestOk(new, r, q, t)
         /\ RowOk(all, time, r, q, w, t) => RowOk(new, later, r, q, w, t)
         /\ LogOk(all, r, q, l, t) => LogOk(new, r, q, l, t)
<1>1. ASSUME InConversation(all, r, q)
      PROVE  InConversation(new, r, q) /\ ConversationOf(new, r, q) = ConversationOf(all, r, q)
  <2>1. q.prev \in Request \cup {None}
    BY RequestFields
  <2> QED
    BY <1>1, <2>1 DEF InConversation, ConversationOf, Kept
<1>2. OwnedBy(all, q.shape.who, t.asked) => OwnedBy(new, q.shape.who, t.asked)
  BY ToldFields DEF OwnedBy, Kept
<1>3. RequestOk(all, r, q, t) => RequestOk(new, r, q, t)
  BY <1>1, <1>2 DEF RequestOk, ResponsesOk
<1>4. StoredOk(all, r, q, w, t) => StoredOk(new, r, q, w, t)
  BY <1>1, <1>2 DEF StoredOk
<1>5. 2 * t.until <= time => 2 * t.until <= later
  BY ToldFields
<1>6. RowOk(all, time, r, q, w, t) => RowOk(new, later, r, q, w, t)
  BY <1>4, <1>5 DEF RowOk
<1>7. ASSUME Threaded(all, r, q, l) PROVE Threaded(new, r, q, l)
  <2>1. CASE l = <<>>
    BY <2>1 DEF Threaded
  <2>2. CASE l # <<>>
    BY <1>1, <1>7, <2>2 DEF Threaded, ThreadOf
  <2> QED
    BY <2>1, <2>2
<1>8. LogOk(all, r, q, l, t) => LogOk(new, r, q, l, t)
  BY <1>7 DEF LogOk
<1> QED
  BY <1>3, <1>6, <1>8

\* A step of one request, which takes it from its values to q, w, l and t.
Goes(r, q, w, l, t) ==
    /\ req' = [req EXCEPT ![r] = q]
    /\ rows' = [rows EXCEPT ![r] = w]
    /\ log' = [log EXCEPT ![r] = l]
    /\ told' = [told EXCEPT ![r] = t]
    /\ UNCHANGED <<now, server, batch, legacy>>
    /\ faults' \in 0 .. MaxFaults

\* What remains to be shown of such a step.
Allowed(r, q, w, l, t) ==
    /\ q \in RequestType /\ w \in RowType \cup {NoRow} /\ l \in Seq(Entry) /\ t \in ToldType
    /\ req[r] # Idle => q.shape = req[r].shape /\ q.conversation = req[r].conversation
    /\ RequestOk(req, r, q, t) /\ RowOk(req, now, r, q, w, t) /\ LogOk(req, r, q, l, t)

\* The same once the step is taken.
Arrived(r, q, w, l, t) ==
    /\ q \in RequestType /\ w \in RowType \cup {NoRow} /\ l \in Seq(Entry) /\ t \in ToldType
    /\ req[r] # Idle => q.shape = req[r].shape /\ q.conversation = req[r].conversation
    /\ RequestOk(req', r, q, t) /\ RowOk(req', now, r, q, w, t) /\ LogOk(req', r, q, l, t)

\* The rest of the invariant is not disturbed.
LEMMA StepOfOne ==
  ASSUME Inv, NEW r \in Request, NEW q, NEW w, NEW l, NEW t,
         Goes(r, q, w, l, t), Arrived(r, q, w, l, t)
  PROVE  Inv'
<1>0. Typed /\ LegacyInv
  BY DEF Inv
<1>1. LegacyInv'
  BY <1>0 DEF LegacyInv, Encrypted, Goes
<1>2. Typed'
  BY <1>0 DEF Typed, Goes, Arrived
<1>3. /\ req'[r] = q /\ rows'[r] = w /\ log'[r] = l /\ told'[r] = t /\ now' = now /\ now \in Nat
      /\ \A p \in Request : p # r =>
           req'[p] = req[p] /\ rows'[p] = rows[p] /\ log'[p] = log[p] /\ told'[p] = told[p]
  BY <1>0, ConversationAssumption DEF Typed, Goes
<1>4. Kept(req, req')
  <2>1. q # Idle
    BY RequestFields DEF Arrived
  <2> QED
    BY <1>3, <2>1 DEF Kept, Arrived
<1>5. ASSUME NEW p \in Request PROVE (IdleInv(p) /\ RequestInv(p))'
  <2>0. IdleInv(p) /\ RequestInv(p)
    BY DEF Inv
  <2>1. CASE p = r
    <3>1. q # Idle
      BY RequestFields DEF Arrived
    <3>2. /\ RequestOk(req', r, q, t) /\ RowOk(req', now, r, q, w, t)
          /\ LogOk(req', r, q, l, t)
      BY DEF Arrived
    <3> QED
      BY <1>3, <2>1, <3>1, <3>2 DEF IdleInv, RequestInv
  <2>2. CASE p # r
    <3>1. req'[p] = req[p] /\ rows'[p] = rows[p] /\ log'[p] = log[p] /\ told'[p] = told[p]
      BY <1>3, <2>2
    <3>2. CASE req[p] = Idle
      BY <2>0, <3>1, <3>2 DEF IdleInv, RequestInv
    <3>3. CASE req[p] # Idle
      <4>1. req[p] \in RequestType /\ told[p] \in ToldType /\ now <= now
        BY <1>0, <1>3, <3>3 DEF Typed
      <4>2. /\ RequestOk(req, p, req[p], told[p]) /\ RowOk(req, now, p, req[p], rows[p], told[p])
            /\ LogOk(req, p, req[p], log[p], told[p])
        BY <2>0, <3>3 DEF RequestInv
      <4>3. /\ RequestOk(req', p, req[p], told[p]) /\ RowOk(req', now, p, req[p], rows[p], told[p])
            /\ LogOk(req', p, req[p], log[p], told[p])
        BY <1>3, <1>4, <4>1, <4>2, OkKept
      <4> QED
        BY <1>3, <3>1, <3>3, <4>3 DEF IdleInv, RequestInv
    <3> QED
      BY <3>2, <3>3
  <2> QED
    BY <2>1, <2>2
<1> QED
  BY <1>1, <1>2, <1>5 DEF Inv

\* For a request that is being served it is enough to look at the state before.
LEMMA RequestStep ==
  ASSUME Inv, NEW r \in Request, NEW q, NEW w, NEW l, NEW t,
         Goes(r, q, w, l, t), Allowed(r, q, w, l, t)
  PROVE  Inv'
<1>1. /\ q \in RequestType /\ t \in ToldType /\ q # Idle
      /\ now \in Nat /\ now <= now /\ req \in [Request -> RequestType \cup {Idle}]
  BY RequestFields, ConversationAssumption DEF Allowed, Inv, Typed
<1>2. req'[r] = q /\ \A p \in Request : p # r => req'[p] = req[p]
  BY <1>1 DEF Goes
<1>3. Kept(req, req')
  BY <1>1, <1>2 DEF Kept, Allowed
<1>4. /\ RequestOk(req', r, q, t) /\ RowOk(req', now, r, q, w, t)
      /\ LogOk(req', r, q, l, t)
  BY <1>1, <1>3, OkKept DEF Allowed
<1> QED
  BY <1>4, StepOfOne DEF Allowed, Arrived

\* A request that is being served, by the fields of its values.
LEMMA ServedFacts ==
  ASSUME Inv, NEW r \in Request, req[r] # Idle
  PROVE  /\ req[r] \in RequestType /\ told[r] \in ToldType /\ rows[r] \in RowType \cup {NoRow}
         /\ log[r] \in Seq(Entry)
         /\ RequestOk(req, r, req[r], told[r]) /\ RowOk(req, now, r, req[r], rows[r], told[r])
         /\ LogOk(req, r, req[r], log[r], told[r])
         /\ req \in [Request -> RequestType \cup {Idle}] /\ told \in [Request -> ToldType]
         /\ rows \in [Request -> RowType \cup {NoRow}] /\ log \in [Request -> Seq(Entry)]
         /\ now \in Nat
BY ConversationAssumption DEF Inv, Typed, RequestInv

\* Values that stay are values of a step, too.
LEMMA Unchanged ==
  ASSUME NEW A, NEW B, NEW f \in [A -> B], NEW x
  PROVE  f = [f EXCEPT ![x] = f[x]]
OBVIOUS

\* Faults are counted up to their bound.
LEMMA FaultsBounded ==
  ASSUME Inv, Fault \/ NoFault
  PROVE  faults' \in 0 .. MaxFaults
BY ConversationAssumption DEF Inv, Typed, Fault, NoFault

\* What a request keeps when it ends.
Ended(q, z, phase) ==
    /\ z \in RequestType
    /\ z.shape = q.shape /\ z.prev = q.prev /\ z.conversation = q.conversation
    /\ z.phase = phase /\ z.n = 1 /\ z.parent = NoRow /\ z.body = NoBody /\ z.output = <<>>

\* A handler that ends holds nothing any more.
LEMMA FinishEnds ==
  ASSUME NEW q \in RequestType, NEW phase \in Final \cup Ending
  PROVE  Ended(q, Finish(q, phase), phase)
<1>1. /\ NoRow \in RowType \cup {NoRow} /\ NoBody \in BodyType /\ 1 \in Nat \ {0}
      /\ <<>> \in Seq(Item) /\ phase \in Final \cup Ending \cup Busy
  BY DEF BodyType
<1>2. Finish(q, phase) \in RequestType
  BY <1>1 DEF RequestType, Finish
<1> QED
  BY <1>2 DEF RequestType, Finish, Ended

\* Every request has a candidate.
LEMMA Attempts ==
  ASSUME NEW q \in RequestType
  PROVE  /\ q.shape \in ShapeType /\ Len(q.shape.attempts) \in Nat /\ Len(q.shape.attempts) >= 1
         /\ DOMAIN q.shape.attempts = 1 .. Len(q.shape.attempts)
<1>1. q.shape \in ShapeType /\ q.shape.attempts # <<>>
  BY RequestFields, ShapesAssumption
<1>2. q.shape.attempts \in Seq({"native", "chat"})
  BY <1>1 DEF ShapeType
<1> QED
  BY <1>1, <1>2

\* Ending is fine for the handler whatever phase it was in.
LEMMA EndedOk ==
  ASSUME NEW all, NEW r \in Request, NEW q \in RequestType, NEW z, NEW phase \in Final \cup Ending,
         Ended(q, z, phase), NEW t \in ToldType, SaidBy(r, t.said), phase = "refused" => ~t.id,
         phase = "answered" /\ StoresOf(q) => t.until > 0
  PROVE  RequestOk(all, r, z, t)
<1>1. 1 \in DOMAIN z.shape.attempts
  BY Attempts DEF Ended
<1>2. z.phase \notin Busy /\ z.phase \notin {"trying", "waiting", "recording"}
  BY DEF Ended, Final, Ending, Busy
<1>3. z.phase = "answered" /\ StoresOf(z) => t.until > 0
  BY DEF Ended, StoresOf
<1> QED
  BY <1>1, <1>2, <1>3 DEF RequestOk, Ended, SaidBy

-----------------------------------------------------------------------------
(* The activities of a request.                                              *)

\* The thread of an activity is safe, or that of the conversation.
LEMMA ThreadFacts ==
  ASSUME Inv, NEW r \in Request, req[r] # Idle, req[r].phase \in Busy
  PROVE  Thread(r) \in ThreadType /\ ThreadOf(req, r, req[r], Thread(r))
<1> DEFINE h == req[r].shape.header
           asked == IF extract_thread_id(h) # "-" THEN extract_thread_id(h)
                    ELSE extract_session_id(h)
<1>1. req[r] \in RequestType /\ RequestOk(req, r, req[r], told[r])
  BY ServedFacts
<1>2. h.thread \in STRING /\ h.session \in STRING
  BY <1>1, Attempts DEF ShapeType
<1>3. asked \in STRING
  BY <1>2 DEF extract_thread_id, extract_session_id
<1>4. req[r].conversation \in Request /\ req[r].conversation = ConversationOf(req, r, req[r])
  BY <1>1, RequestFields DEF RequestOk, InConversation
<1>5. Thread(r) = IF is_safe_session_segment(asked) THEN <<"header", asked>>
                  ELSE <<"conversation", req[r].conversation>>
  BY DEF Thread, session_context
<1> HIDE DEF asked, h
<1>6. CASE is_safe_session_segment(asked)
  BY <1>3, <1>5, <1>6 DEF is_safe_session_segment, ThreadType, ThreadOf
<1>7. CASE ~is_safe_session_segment(asked)
  BY <1>4, <1>5, <1>7 DEF ThreadType, ThreadOf
<1> QED
  BY <1>6, <1>7

Recorded(r, status) ==
    Append(log[r], [status |-> status, thread |-> Thread(r), writing |-> status = "streaming"])

\* What the activities are once one more is recorded.
LastOf(r, l, status) ==
    /\ l \in Seq(Entry) /\ Len(l) \in Nat /\ Len(l) <= req[r].n /\ l # <<>>
    /\ Threaded(req, r, req[r], l)
    /\ l[Len(l)].status = status
    /\ (l[Len(l)].writing <=> status = "streaming")
    /\ Earlier(l)

\* A request that waits for an answer records one activity per attempt.
LEMMA RecordedFacts ==
  ASSUME Inv, NEW r \in Request, req[r] # Idle, req[r].phase \in {"waiting", "recording"},
         NEW status \in {"streaming", "success", "failed"}
  PROVE  /\ LastOf(r, Recorded(r, status), status)
         /\ Logged(r, status) => log' = [log EXCEPT ![r] = Recorded(r, status)]
<1> DEFINE e == [status |-> status, thread |-> Thread(r), writing |-> status = "streaming"]
           l == log[r]
           m == Append(l, e)
<1>0. req[r].phase \in Busy
  BY DEF Busy
<1>1. /\ l \in Seq(Entry) /\ LogOk(req, r, req[r], l, told[r]) /\ RequestOk(req, r, req[r], told[r])
      /\ req[r].n \in Nat
  BY ServedFacts, RequestFields
<1>2. /\ e \in Entry /\ e.status = status /\ ThreadOf(req, r, req[r], e.thread)
      /\ (e.writing <=> status = "streaming")
  <2>1. (status = "streaming") \in BOOLEAN
    OBVIOUS
  <2> QED
    BY <1>0, <2>1, ThreadFacts DEF Entry
<1>3. /\ AllFailed(l) /\ Len(l) < req[r].n /\ Threaded(req, r, req[r], l)
      /\ InConversation(req, r, req[r])
  BY <1>0, <1>1 DEF LogOk, RequestOk
<1> HIDE DEF e, l
<1>4. /\ m \in Seq(Entry) /\ Len(m) = Len(l) + 1 /\ Len(l) \in Nat /\ m[Len(l) + 1] = e
      /\ DOMAIN m = 1 .. Len(l) + 1 /\ DOMAIN l = 1 .. Len(l)
      /\ \A i \in 1 .. Len(l) : m[i] = l[i]
  BY <1>1, <1>2
<1> HIDE DEF m
<1>5. \A i \in DOMAIN m : i # Len(m) => i \in DOMAIN l /\ m[i] = l[i]
  BY <1>4
<1>6. m # <<>> /\ Len(m) <= req[r].n /\ Len(m) \in Nat /\ m[Len(m)] = e
  BY <1>1, <1>3, <1>4
<1>7. \A i \in DOMAIN m : ThreadOf(req, r, req[r], m[i].thread)
  <2> TAKE i \in DOMAIN m
  <2>1. CASE i = Len(m)
    BY <1>2, <1>6, <2>1
  <2>2. CASE i # Len(m)
    BY <1>3, <1>5, <2>2 DEF Threaded
  <2> QED
    BY <2>1, <2>2
<1>8. Threaded(req, r, req[r], m)
  BY <1>3, <1>7 DEF Threaded
<1>9. Earlier(m)
  BY <1>3, <1>5 DEF AllFailed, Earlier
<1>10. LastOf(r, m, status)
  BY <1>2, <1>4, <1>6, <1>8, <1>9 DEF LastOf
<1> QED
  BY <1>10 DEF m, l, e, Recorded, Logged

\* The activities of a request that has had no success.
FailedLog(r, l) ==
    /\ l \in Seq(Entry) /\ Len(l) \in Nat /\ Len(l) <= req[r].n
    /\ Threaded(req, r, req[r], l) /\ AllFailed(l)

\* Of failures alone there is no stream to tell of.
LEMMA FailuresOnly ==
  ASSUME NEW l, AllFailed(l), NEW t, NEW phase \in {"trying", "waiting", "recording", "refused"}
  PROVE  Earlier(l) /\ StreamOk(phase, l, t)
BY DEF AllFailed, Earlier, FailedEntry, StreamOk

\* They stay those while attempts fail.
LEMMA FailedLogs ==
  ASSUME Inv, NEW r \in Request, req[r] # Idle
  PROVE  /\ req[r].phase \in {"trying", "waiting", "recording"} => FailedLog(r, log[r])
         /\ req[r].phase \in {"waiting", "recording"} => FailedLog(r, Recorded(r, "failed"))
<1>1. log[r] \in Seq(Entry) /\ LogOk(req, r, req[r], log[r], told[r]) /\ req[r].n \in Nat
  BY ServedFacts, RequestFields
<1>2. Len(log[r]) \in Nat
  BY <1>1
<1>3. req[r].phase \in {"trying", "waiting", "recording"} => FailedLog(r, log[r])
  BY <1>1, <1>2 DEF LogOk, FailedLog
<1>4. ASSUME req[r].phase \in {"waiting", "recording"} PROVE FailedLog(r, Recorded(r, "failed"))
  <2>1. LastOf(r, Recorded(r, "failed"), "failed")
    BY <1>4, RecordedFacts
  <2>2. \A i \in DOMAIN Recorded(r, "failed") : FailedEntry(Recorded(r, "failed")[i])
    BY <2>1 DEF LastOf, Earlier, FailedEntry
  <2> QED
    BY <2>1, <2>2 DEF LastOf, FailedLog, AllFailed
<1> QED
  BY <1>3, <1>4

-----------------------------------------------------------------------------
(* A request that is being served takes a step.                              *)

\* Other requests, the clock and the startup are left alone.
Aside ==
    UNCHANGED <<now, server, batch, legacy>> /\ faults' \in 0 .. MaxFaults

\* A request is refused, whatever it has recorded of its failures.
LEMMA RefuseStep ==
  ASSUME Inv, NEW r \in Request, req[r] # Idle,
         req[r].phase \in {"trying", "waiting", "recording"},
         NEW l, FailedLog(r, l), log' = [log EXCEPT ![r] = l],
         Refuse(r), UNCHANGED <<rows, told>>, Aside
  PROVE  Inv'
<1> DEFINE q == req[r]
           z == Finish(q, "refused")
           t == told[r]
           w == rows[r]
<1>0. /\ q \in RequestType /\ t \in ToldType /\ w \in RowType \cup {NoRow}
      /\ RequestOk(req, r, q, t) /\ RowOk(req, now, r, q, w, t) /\ LogOk(req, r, q, log[r], t)
      /\ q.phase \in {"trying", "waiting", "recording"}
      /\ Threaded(req, r, q, l) /\ Len(l) \in Nat /\ Len(l) <= q.n /\ AllFailed(l) /\ l \in Seq(Entry)
  BY ServedFacts DEF FailedLog
<1>1. Goes(r, z, w, l, t)
  <2>1. rows = [rows EXCEPT ![r] = rows[r]] /\ told = [told EXCEPT ![r] = told[r]]
    BY ServedFacts, Unchanged
  <2>2. req' = [req EXCEPT ![r] = z]
    BY DEF Refuse
  <2> HIDE DEF z
  <2> QED
    BY <2>1, <2>2 DEF Goes, Aside
<1>2. Ended(q, z, "refused")
  BY <1>0, FinishEnds DEF Final
<1> HIDE DEF q, z, w, t
<1>3. RequestOk(req, r, z, t)
  <2>1. SaidBy(r, t.said) /\ ~t.id
    BY <1>0 DEF RequestOk
  <2> QED
    BY <1>0, <1>2, <2>1, EndedOk DEF Final
<1>4. q.n \in Nat /\ q.n <= Len(q.shape.attempts) /\ Len(q.shape.attempts) \in Nat
  <2>1. q.n \in DOMAIN q.shape.attempts
    BY <1>0 DEF RequestOk
  <2> QED
    BY <1>0, <2>1, Attempts
<1>5. LogOk(req, r, z, l, t)
  <2>1. Threaded(req, r, z, l)
    BY <1>0, <1>2 DEF Threaded, ThreadOf, InConversation, ConversationOf, Ended
  <2>2. Len(l) <= Len(z.shape.attempts)
    BY <1>0, <1>2, <1>4 DEF Ended
  <2> QED
    BY <1>0, <1>2, <2>1, <2>2, FailuresOnly DEF LogOk, Ended
<1>6. RowOk(req, now, r, z, w, t)
  <2>1. ASSUME w # NoRow PROVE StoredOk(req, r, z, w, t)
    <3>1. StoredOk(req, r, q, w, t) /\ ~t.id
      BY <1>0, <2>1 DEF RowOk, RequestOk
    <3>2. InConversation(req, r, z)
      BY <1>2, <3>1 DEF StoredOk, InConversation, ConversationOf, Ended
    <3> QED
      BY <1>2, <3>1, <3>2 DEF StoredOk, Ended, Final
  <2> QED
    BY <1>0, <2>1 DEF RowOk
<1>7. z \in RequestType /\ z.shape = q.shape /\ z.conversation = q.conversation
  BY <1>2 DEF Ended
<1>8. Allowed(r, z, w, l, t)
  BY <1>0, <1>3, <1>5, <1>6, <1>7 DEF Allowed, q
<1> QED
  BY <1>1, <1>8, RequestStep

\* The next candidate is tried.
LEMMA TryStep ==
  ASSUME Inv, NEW r \in Request, req[r] # Idle, req[r].phase = "waiting",
         NEW l, FailedLog(r, l), log' = [log EXCEPT ![r] = l],
         req[r].n < Len(req[r].shape.attempts),
         req' = [req EXCEPT ![r] = [@ EXCEPT !.phase = "trying", !.n = req[r].n + 1, !.body = NoBody]],
         UNCHANGED <<rows, told>>, Aside
  PROVE  Inv'
<1> DEFINE q == req[r]
           z == [q EXCEPT !.phase = "trying", !.n = q.n + 1, !.body = NoBody]
           t == told[r]
           w == rows[r]
<1>0. /\ q \in RequestType /\ t \in ToldType /\ w \in RowType \cup {NoRow}
      /\ RequestOk(req, r, q, t) /\ RowOk(req, now, r, q, w, t) /\ LogOk(req, r, q, log[r], t)
      /\ q.phase = "waiting"
      /\ Threaded(req, r, q, l) /\ Len(l) \in Nat /\ Len(l) <= q.n /\ AllFailed(l) /\ l \in Seq(Entry)
      /\ q.n < Len(q.shape.attempts) /\ q # Idle
  BY ServedFacts DEF FailedLog
<1>1. Goes(r, z, w, l, t)
  <2>1. rows = [rows EXCEPT ![r] = rows[r]] /\ told = [told EXCEPT ![r] = told[r]]
    BY ServedFacts, Unchanged
  <2>2. req' = [req EXCEPT ![r] = z]
    OBVIOUS
  <2> HIDE DEF z
  <2> QED
    BY <2>1, <2>2 DEF Goes, Aside
<1> HIDE DEF q
<1>2. /\ z.phase = "trying" /\ z.n = q.n + 1 /\ z.body = NoBody /\ z.shape = q.shape
      /\ z.prev = q.prev /\ z.conversation = q.conversation /\ z.parent = q.parent
      /\ z.output = q.output
  BY <1>0 DEF RequestType
<1>3. z \in RequestType
  <2>1. NoBody \in BodyType /\ "trying" \in Final \cup Ending \cup Busy /\ q.n + 1 \in Nat \ {0}
    BY <1>0, RequestFields DEF BodyType, Busy
  <2> QED
    BY <1>0, <2>1 DEF RequestType
<1> HIDE DEF z, w, t
<1>4. /\ q.n \in Nat /\ q.n + 1 \in DOMAIN q.shape.attempts
      /\ Len(q.shape.attempts) \in Nat
  <2>1. q.n \in DOMAIN q.shape.attempts
    BY <1>0 DEF RequestOk
  <2> QED
    BY <1>0, <2>1, Attempts
<1>5. RequestOk(req, r, z, t)
  <2>1. InConversation(req, r, z)
    BY <1>0, <1>2 DEF RequestOk, InConversation, ConversationOf, Busy
  <2>2. ASSUME z.shape.api = "responses" PROVE ResponsesOk(req, r, z, t)
    <3>1. ResponsesOk(req, r, q, t)
      BY <1>0, <1>2, <2>2 DEF RequestOk, Busy
    <3>2. Input(r, z) = Input(r, q)
      BY <1>2 DEF Input
    <3> QED
      BY <1>2, <3>1, <3>2 DEF ResponsesOk
  <2>3. SaidBy(r, t.said) /\ SaidBy(r, q.output) /\ ~t.id
    BY <1>0 DEF RequestOk
  <2> QED
    BY <1>2, <1>4, <2>1, <2>2, <2>3 DEF RequestOk
<1>6. LogOk(req, r, z, l, t)
  <2>1. Threaded(req, r, z, l)
    BY <1>0, <1>2 DEF Threaded, ThreadOf, InConversation, ConversationOf
  <2>2. Len(l) <= Len(z.shape.attempts) /\ Len(l) < z.n
    BY <1>0, <1>2, <1>4
  <2> QED
    BY <1>0, <1>2, <2>1, <2>2, FailuresOnly DEF LogOk
<1>7. RowOk(req, now, r, z, w, t)
  BY <1>0 DEF RowOk, StoredOk, Final, Ending
<1>8. Allowed(r, z, w, l, t)
  BY <1>0, <1>2, <1>3, <1>5, <1>6, <1>7 DEF Allowed, q
<1> QED
  BY <1>1, <1>8, RequestStep

\* One attempt has failed, recorded or not.
LEMMA FailStep ==
  ASSUME Inv, NEW r \in Request, req[r] # Idle, req[r].phase = "waiting",
         \/ Logged(r, "failed") /\ NoFault
         \/ UNCHANGED log /\ (Fault \/ NoFault),
         NextCandidate(r), UNCHANGED <<now, server, batch, legacy, rows, told>>
  PROVE  Inv'
<1>1. Aside
  BY FaultsBounded DEF Aside
<1>2. PICK l : FailedLog(r, l) /\ log' = [log EXCEPT ![r] = l]
  <2>1. FailedLog(r, log[r]) /\ FailedLog(r, Recorded(r, "failed"))
    BY FailedLogs
  <2>2. log = [log EXCEPT ![r] = log[r]]
    BY ServedFacts, Unchanged
  <2>3. Logged(r, "failed") => log' = [log EXCEPT ![r] = Recorded(r, "failed")]
    BY DEF Logged, Recorded
  <2> QED
    BY <2>1, <2>2, <2>3
<1>3. CASE Refuse(r)
  BY <1>1, <1>2, <1>3, RefuseStep
<1>4. CASE ~Refuse(r)
  BY <1>1, <1>2, <1>4, TryStep DEF NextCandidate
<1> QED
  BY <1>3, <1>4

\* An attempt is sent.
LEMMA SendStep ==
  ASSUME Inv, NEW r \in Request, req[r] # Idle, req[r].phase = "trying",
         NEW body \in BodyType, Send(r, body),
         req[r].shape.api = "responses" =>
           /\ body \in [to : {"native", "chat"}, items : Items, instructions : BOOLEAN]
           /\ Sent(body.items, told[r].asked, body.to),
         UNCHANGED <<rows, log, told>>, Aside
  PROVE  Inv'
<1> DEFINE q == req[r]
           z == [q EXCEPT !.phase = "waiting", !.body = body]
           t == told[r]
           w == rows[r]
           l == log[r]
<1>0. /\ q \in RequestType /\ t \in ToldType /\ w \in RowType \cup {NoRow} /\ l \in Seq(Entry)
      /\ RequestOk(req, r, q, t) /\ RowOk(req, now, r, q, w, t) /\ LogOk(req, r, q, l, t)
      /\ q.phase = "trying" /\ q # Idle
      /\ q.shape.api = "responses" =>
           /\ body \in [to : {"native", "chat"}, items : Items, instructions : BOOLEAN]
           /\ Sent(body.items, t.asked, body.to)
  BY ServedFacts
<1>1. Goes(r, z, w, l, t)
  <2>1. /\ rows = [rows EXCEPT ![r] = rows[r]] /\ told = [told EXCEPT ![r] = told[r]]
        /\ log = [log EXCEPT ![r] = log[r]]
    BY ServedFacts, Unchanged
  <2>2. req' = [req EXCEPT ![r] = z]
    BY DEF Send
  <2> HIDE DEF z
  <2> QED
    BY <2>1, <2>2 DEF Goes, Aside
<1> HIDE DEF q
<1>2. /\ z.phase = "waiting" /\ z.n = q.n /\ z.body = body /\ z.shape = q.shape
      /\ z.prev = q.prev /\ z.conversation = q.conversation /\ z.parent = q.parent
      /\ z.output = q.output
  BY <1>0 DEF RequestType
<1>3. z \in RequestType
  <2>1. "waiting" \in Final \cup Ending \cup Busy
    BY DEF Busy
  <2> QED
    BY <1>0, <2>1 DEF RequestType
<1> HIDE DEF z, w, t, l
<1>5. RequestOk(req, r, z, t)
  <2>1. InConversation(req, r, z)
    BY <1>0, <1>2 DEF RequestOk, InConversation, ConversationOf, Busy
  <2>2. ASSUME z.shape.api = "responses" PROVE ResponsesOk(req, r, z, t)
    <3>1. ResponsesOk(req, r, q, t)
      BY <1>0, <1>2, <2>2 DEF RequestOk, Busy
    <3>2. Input(r, z) = Input(r, q)
      BY <1>2 DEF Input
    <3> QED
      BY <1>0, <1>2, <2>2, <3>1, <3>2 DEF ResponsesOk
  <2>3. SaidBy(r, t.said) /\ SaidBy(r, q.output) /\ ~t.id /\ q.n \in DOMAIN q.shape.attempts
    BY <1>0 DEF RequestOk
  <2>4. "waiting" \notin Final \cup Ending \cup {"trying"}
    BY DEF Final, Ending
  <2> QED
    BY <1>2, <2>1, <2>2, <2>3, <2>4 DEF RequestOk
<1>6. LogOk(req, r, z, l, t)
  <2>1. Threaded(req, r, z, l)
    BY <1>0, <1>2 DEF LogOk, Threaded, ThreadOf, InConversation, ConversationOf
  <2>2. AllFailed(l) /\ Len(l) < z.n /\ Len(l) <= Len(z.shape.attempts)
    BY <1>0, <1>2 DEF LogOk
  <2> QED
    BY <1>2, <2>1, <2>2, FailuresOnly DEF LogOk
<1>7. RowOk(req, now, r, z, w, t)
  BY <1>0 DEF RowOk, StoredOk, Final, Ending
<1>8. Allowed(r, z, w, l, t)
  BY <1>0, <1>2, <1>3, <1>5, <1>6, <1>7 DEF Allowed, q
<1> QED
  BY <1>1, <1>8, RequestStep

\* A Responses request is sent the way its candidate speaks, or refused.
LEMMA CandidateStep ==
  ASSUME Inv, NEW r \in Request, req[r] # Idle, create_response_with_candidate(r)
  PROVE  Inv'
<1> DEFINE q == req[r]
           items == Input(r, q)
           asked == told[r].asked
<1>0. /\ q.phase = "trying" /\ q.shape.api = "responses"
      /\ UNCHANGED <<now, server, batch, legacy, rows, log, faults, told>>
  BY DEF create_response_with_candidate
<1>1. q \in RequestType /\ asked \in Items /\ Trimmed(items, asked) /\ q.shape.instructions \in BOOLEAN
  <2>1. q \in RequestType /\ told[r] \in ToldType /\ RequestOk(req, r, q, told[r])
    BY ServedFacts
  <2>2. asked \in Items
    BY <2>1, ToldFields
  <2>3. Trimmed(items, asked)
    BY <1>0, <2>1 DEF RequestOk, ResponsesOk, Busy
  <2>4. q.shape.instructions \in BOOLEAN
    BY <2>1, Attempts DEF ShapeType
  <2> QED
    BY <2>1, <2>2, <2>3, <2>4
<1>2. Aside
  BY <1>0, FaultsBounded DEF Aside, NoFault
<1>3. CASE Refuse(r)
  <2>1. FailedLog(r, log[r]) /\ log = [log EXCEPT ![r] = log[r]]
    BY <1>0, FailedLogs, ServedFacts, Unchanged
  <2> QED
    BY <1>0, <1>2, <1>3, <2>1, RefuseStep
<1>4. InputItems(r) = items
  BY DEF InputItems, Input
<1>5. CASE ~Refuse(r) /\ q.shape.attempts[q.n] = "native"
  <2> DEFINE budgeted == budget_input_items(items)
             body == encode_native_responses_request_body(q.shape, budgeted.items)
  <2>1. budgeted.ok /\ Send(r, body)
    BY <1>4, <1>5 DEF create_response_with_candidate, create_native_response
  <2>2. budgeted.items \in Items /\ Sent(budgeted.items, asked, "native")
    BY <1>1, <2>1, NativeSent
  <2> HIDE DEF budgeted, items
  <2>3. /\ body \in [to : {"native", "chat"}, items : Items, instructions : BOOLEAN]
        /\ body.items = budgeted.items /\ body.to = "native"
    BY <1>1, <2>2 DEF encode_native_responses_request_body
  <2> HIDE DEF body
  <2>4. body \in BodyType /\ Sent(body.items, asked, body.to)
    BY <2>2, <2>3 DEF BodyType
  <2> QED
    BY <1>0, <1>2, <2>1, <2>3, <2>4, SendStep
<1>6. CASE ~Refuse(r) /\ q.shape.attempts[q.n] # "native"
  <2> DEFINE body == encode_chat_request(q.shape, items)
  <2>1. validate_internal_request_for_bridge(items) /\ Send(r, body)
    BY <1>4, <1>6 DEF create_response_with_candidate, create_chat_response
  <2>2. items \in Items /\ Sent(items, asked, "chat")
    BY <1>1, <2>1, ChatSent
  <2> HIDE DEF items
  <2>3. /\ body \in [to : {"native", "chat"}, items : Items, instructions : BOOLEAN]
        /\ body.items = items /\ body.to = "chat"
    BY <1>1, <2>2 DEF encode_chat_request
  <2> HIDE DEF body
  <2>4. body \in BodyType /\ Sent(body.items, asked, body.to)
    BY <2>2, <2>3 DEF BodyType
  <2> QED
    BY <1>0, <1>2, <2>1, <2>3, <2>4, SendStep
<1> QED
  BY <1>3, <1>5, <1>6

\* Chat and image requests pass their payload on.
LEMMA StatelessCandidateStep ==
  ASSUME Inv, NEW r \in Request, req[r] # Idle,
         create_chat_completion_with_candidate(r) \/ create_image_generation_with_candidate(r)
  PROVE  Inv'
<1>1. PICK to \in {"chat", "images"} : req[r].shape.api = to /\ Send(r, [to |-> to])
  BY DEF create_chat_completion_with_candidate, create_image_generation_with_candidate
<1>2. /\ req[r].phase = "trying" /\ req[r].shape.api # "responses"
      /\ UNCHANGED <<now, server, batch, legacy, rows, log, faults, told>>
  BY <1>1 DEF create_chat_completion_with_candidate, create_image_generation_with_candidate
<1>3. [to |-> to] \in BodyType
  BY DEF BodyType
<1>4. Aside
  BY <1>2, FaultsBounded DEF Aside, NoFault
<1> QED
  BY <1>1, <1>2, <1>3, <1>4, SendStep

\* However an attempt fails.
LEMMA FailureStep ==
  ASSUME Inv, NEW r \in Request, req[r] # Idle, req[r].phase = "waiting",
         \/ record_upstream_failure(r) \/ record_upstream_status(r) \/ FailUnrecorded(r)
         \/ ImageAttemptFails(r)
  PROVE  Inv'
<1>1. CASE record_upstream_failure(r) \/ FailUnrecorded(r) \/ ImageAttemptFails(r)
  BY <1>1, FailStep DEF record_upstream_failure, FailUnrecorded, ImageAttemptFails,
     record_image_activity_best_effort, NoFault
<1>2. CASE record_upstream_status(r)
  <2>1. CASE NextCandidate(r)
    BY <1>2, <2>1, FailStep DEF record_upstream_status
  <2>2. CASE ~NextCandidate(r)
    BY <1>2, <2>2, FailStep DEF record_upstream_status, NextCandidate
  <2> QED
    BY <2>1, <2>2
<1> QED
  BY <1>1, <1>2

\* A row is not the absence of one.
LEMMA RowIsARow ==
  ASSUME NEW w \in RowType
  PROVE  w # NoRow
<1>1. DOMAIN w = {"who", "prev", "conversation", "request_items", "response_items", "expires"}
  BY DEF RowType
<1>2. DOMAIN NoRow = {"who"}
  BY DEF NoRow
<1> QED
  BY <1>1, <1>2

\* The output of a request is items it said.
LEMMA OutputFacts ==
  ASSUME NEW r \in Request, NEW kinds \in Seq(Kind)
  PROVE  OutputItems(r, kinds) \in Seq(Item) /\ SaidBy(r, OutputItems(r, kinds))
<1> DEFINE s == OutputItems(r, kinds)
<1>1. s = [i \in 1 .. Len(kinds) |-> [kind |-> kinds[i], of |-> r, at |-> 100 + i, bytes |-> 0]]
  BY DEF OutputItems
<1>2. \A i \in 1 .. Len(kinds) : s[i] \in Item /\ s[i].of = r
  BY <1>1 DEF Item
<1>3. Len(kinds) \in Nat /\ s \in [1 .. Len(kinds) -> Item] /\ DOMAIN s = 1 .. Len(kinds)
  BY <1>1, <1>2
<1> QED
  BY <1>2, <1>3 DEF SaidBy

\* The row saved for a request that has sent its items and has an answer.
LEMMA SavedRow ==
  ASSUME Inv, NEW r \in Request, NEW q \in RequestType,
         q.body \in [to : {"native", "chat"}, items : Items, instructions : BOOLEAN]
  PROVE  LET w == save_response_state(q)
         IN  /\ w \in RowType /\ w # NoRow
             /\ w.who = q.shape.who /\ w.prev = q.prev /\ w.conversation = q.conversation
             /\ w.request_items = q.body.items /\ w.response_items = q.output
             /\ w.expires = Sec(now) + Days /\ Sec(now) + Days \in Nat \ {0}
<1> DEFINE w == save_response_state(q)
<1>1. Sec(now) + Days \in Nat \ {0}
  <2>1. now \in Nat /\ Days \in Nat \ {0}
    BY ConversationAssumption DEF Inv, Typed
  <2>2. now \div 2 \in Nat
    BY <2>1
  <2> QED
    BY <2>1, <2>2 DEF Sec
<1>2. /\ w.who = q.shape.who /\ w.prev = q.prev /\ w.conversation = q.conversation
      /\ w.request_items = q.body.items /\ w.response_items = q.output
      /\ w.expires = Sec(now) + Days
  BY DEF save_response_state
<1>3. q.shape.who \in Identity
  BY Attempts DEF ShapeType
<1>4. q.body.items \in Items
  OBVIOUS
<1>5. w \in RowType
  BY <1>1, <1>3, <1>4, RequestFields DEF save_response_state, RowType
<1> QED
  BY <1>1, <1>2, <1>5, RowIsARow

\* An answer is saved, if it is to be stored, and is still to be recorded.
LEMMA SaveStep ==
  ASSUME Inv, NEW r \in Request, req[r] # Idle, req[r].phase = "waiting",
         req[r].shape.api = "responses",
         NEW output \in Seq(Item), SaidBy(r, output), SaveAnswer(r, output)
  PROVE  Inv'
<1> DEFINE q == req[r]
           z == [q EXCEPT !.phase = "recording", !.output = output]
           t == told[r]
           l == log[r]
<1>0. /\ q \in RequestType /\ t \in ToldType /\ l \in Seq(Entry)
      /\ RequestOk(req, r, q, t) /\ RowOk(req, now, r, q, rows[r], t) /\ LogOk(req, r, q, l, t)
      /\ q.phase = "waiting" /\ q # Idle /\ q.shape.api = "responses"
      /\ ResponsesOk(req, r, q, t) /\ InConversation(req, r, q)
      /\ log = [log EXCEPT ![r] = l] /\ rows = [rows EXCEPT ![r] = rows[r]]
      /\ told = [told EXCEPT ![r] = told[r]]
  BY ServedFacts, Unchanged DEF RequestOk, Busy
<1>1. rows[r] = NoRow /\ 2 * t.until <= now
  BY <1>0 DEF RowOk, StoredOk, Final, Ending
<1>2. Aside /\ UNCHANGED log
  BY FaultsBounded DEF SaveAnswer, Aside
<1>3. \/ Refuse(r) /\ UNCHANGED <<rows, told>>
      \/ req' = [req EXCEPT ![r] = z] /\ UNCHANGED <<rows, told>> /\ ~StoresOf(q)
      \/ /\ req' = [req EXCEPT ![r] = z]
         /\ rows' = [rows EXCEPT ![r] = save_response_state(z)]
         /\ told' = [told EXCEPT ![r].until = Sec(now) + Days]
  BY DEF SaveAnswer, Stores, StoresOf
<1>4. CASE Refuse(r) /\ UNCHANGED <<rows, told>>
  <2>1. FailedLog(r, log[r]) /\ log' = [log EXCEPT ![r] = log[r]]
    BY <1>0, <1>2, FailedLogs
  <2> QED
    BY <1>2, <1>4, <2>1, RefuseStep
<1> HIDE DEF q
<1>5. /\ z.phase = "recording" /\ z.n = q.n /\ z.body = q.body /\ z.shape = q.shape
      /\ z.prev = q.prev /\ z.conversation = q.conversation /\ z.parent = q.parent
      /\ z.output = output
  BY <1>0 DEF RequestType
<1>6. z \in RequestType
  <2>1. "recording" \in Final \cup Ending \cup Busy
    BY DEF Busy
  <2> QED
    BY <1>0, <2>1 DEF RequestType
<1> HIDE DEF z, l
<1>7. InConversation(req, r, z)
  BY <1>0, <1>5 DEF InConversation, ConversationOf
<1>8. ASSUME NEW u PROVE LogOk(req, r, z, l, u)
  <2>1. Threaded(req, r, z, l)
    BY <1>0, <1>5, <1>7 DEF LogOk, Threaded, ThreadOf, ConversationOf
  <2>2. AllFailed(l) /\ Len(l) < z.n /\ Len(l) <= Len(z.shape.attempts)
    BY <1>0, <1>5 DEF LogOk
  <2> QED
    BY <1>5, <2>1, <2>2, FailuresOnly DEF LogOk
<1>9. ASSUME NEW u \in ToldType, u.asked = t.asked, u.said = t.said, u.id = t.id,
             StoresOf(q) => u.until > 0
      PROVE  RequestOk(req, r, z, u)
  <2>1. Input(r, z) = Input(r, q)
    BY <1>5 DEF Input
  <2>2. ResponsesOk(req, r, z, u)
    BY <1>0, <1>5, <1>9, <2>1 DEF ResponsesOk
  <2>3. SaidBy(r, t.said) /\ ~t.id /\ q.n \in DOMAIN q.shape.attempts
    BY <1>0 DEF RequestOk
  <2>4. "recording" \notin Final \cup Ending \cup {"trying"}
    BY DEF Final, Ending
  <2> QED
    BY <1>0, <1>5, <1>7, <1>9, <2>2, <2>3, <2>4 DEF RequestOk, StoresOf
<1>10. CASE req' = [req EXCEPT ![r] = z] /\ UNCHANGED <<rows, told>> /\ ~StoresOf(q)
  <2>1. Goes(r, z, rows[r], l, t)
    BY <1>0, <1>2, <1>10 DEF Goes, Aside
  <2>2. RowOk(req, now, r, z, rows[r], t)
    BY <1>1 DEF RowOk
  <2>3. RequestOk(req, r, z, t)
    BY <1>0, <1>9, <1>10
  <2>4. Allowed(r, z, rows[r], l, t)
    BY <1>0, <1>1, <1>5, <1>6, <1>8, <2>2, <2>3 DEF Allowed, q
  <2> QED
    BY <2>1, <2>4, RequestStep
<1>11. CASE /\ req' = [req EXCEPT ![r] = z]
            /\ rows' = [rows EXCEPT ![r] = save_response_state(z)]
            /\ told' = [told EXCEPT ![r].until = Sec(now) + Days]
  <2> DEFINE w == save_response_state(z)
             u == [t EXCEPT !.until = Sec(now) + Days]
  <2>1. /\ z.body \in [to : {"native", "chat"}, items : Items, instructions : BOOLEAN]
        /\ Trimmed(z.body.items, t.asked) /\ OwnedBy(req, q.shape.who, t.asked)
    BY <1>0, <1>5, SentIsTrimmed DEF ResponsesOk
  <2>2. /\ w \in RowType /\ w # NoRow
        /\ w.who = z.shape.who /\ w.conversation = z.conversation
        /\ w.request_items = z.body.items /\ w.response_items = z.output
        /\ w.expires = Sec(now) + Days /\ Sec(now) + Days \in Nat \ {0}
    BY <1>6, <2>1, SavedRow
  <2>3. told' = [told EXCEPT ![r] = u]
    BY <1>11
  <2> HIDE DEF t, w
  <2>4. u \in ToldType /\ u.asked = t.asked /\ u.said = t.said /\ u.id = t.id /\ u.until = Sec(now) + Days
    BY <1>0, <2>2 DEF ToldType
  <2>5. Goes(r, z, w, l, u)
    BY <1>0, <1>2, <1>11, <2>3 DEF Goes, Aside, w
  <2> HIDE DEF u
  <2>6. StoredOk(req, r, z, w, u)
    <3>1. ~t.id
      BY <1>0 DEF RequestOk
    <3> QED
      BY <1>0, <1>5, <1>7, <2>1, <2>2, <2>4, <3>1 DEF StoredOk
  <2>7. RowOk(req, now, r, z, w, u)
    BY <2>2, <2>6 DEF RowOk
  <2>8. RequestOk(req, r, z, u)
    <3>1. u.until > 0
      BY <2>2, <2>4
    <3> QED
      BY <1>9, <2>4, <3>1
  <2>9. Allowed(r, z, w, l, u)
    BY <1>0, <1>5, <1>6, <1>8, <2>2, <2>4, <2>7, <2>8 DEF Allowed, q
  <2> QED
    BY <2>5, <2>9, RequestStep
<1> QED
  BY <1>3, <1>4, <1>10, <1>11

\* The client is told the answer once it is recorded; an image in any case.
LEMMA TellStep ==
  ASSUME Inv, NEW r \in Request, req[r] # Idle, req[r].phase \in {"waiting", "recording"},
         NEW l, log' = [log EXCEPT ![r] = l],
         LastOf(r, l, "success") \/ (FailedLog(r, l) /\ req[r].shape.api = "images"),
         req[r].shape.api = "responses" => req[r].phase = "recording",
         Tell(r), UNCHANGED rows, Aside
  PROVE  Inv'
<1> DEFINE q == req[r]
           z == Finish(q, "answered")
           t == told[r]
           u == [t EXCEPT !.id = TRUE, !.said = q.output]
           w == rows[r]
<1>0. /\ q \in RequestType /\ t \in ToldType /\ w \in RowType \cup {NoRow}
      /\ RequestOk(req, r, q, t) /\ RowOk(req, now, r, q, w, t)
      /\ q.phase \in {"waiting", "recording"}
      /\ Threaded(req, r, q, l) /\ Len(l) \in Nat /\ Len(l) <= q.n /\ l \in Seq(Entry)
      /\ rows = [rows EXCEPT ![r] = w]
  BY ServedFacts, Unchanged DEF FailedLog, LastOf
<1>a. q.shape.api = "responses" => q.phase = "recording"
  OBVIOUS
<1>1. q.shape.api # "images" => EndsWith(l, "success")
  BY DEF LastOf, EndsWith
<1>2. Earlier(l) /\ \A i \in DOMAIN l : ~l[i].writing
  BY DEF LastOf, Earlier, FailedLog, AllFailed, FailedEntry
<1>3. Goes(r, z, w, l, u)
  <2>1. req' = [req EXCEPT ![r] = z] /\ told' = [told EXCEPT ![r] = u]
    BY DEF Tell
  <2> HIDE DEF z, u
  <2> QED
    BY <1>0, <2>1 DEF Goes, Aside
<1>4. Ended(q, z, "answered")
  BY <1>0, FinishEnds DEF Final
<1>5. u \in ToldType /\ u.id = TRUE /\ u.said = q.output /\ u.asked = t.asked /\ u.until = t.until
  <2> HIDE DEF q, t
  <2>1. q.output \in Seq(Item)
    BY <1>0, RequestFields
  <2> QED
    BY <1>0, <2>1 DEF ToldType
<1> HIDE DEF q, z, w, t, u
<1>6. RequestOk(req, r, z, u)
  <2>1. SaidBy(r, u.said) /\ (StoresOf(q) => u.until > 0)
    BY <1>0, <1>5, <1>a DEF RequestOk, StoresOf
  <2> QED
    BY <1>0, <1>4, <1>5, <2>1, EndedOk DEF Final
<1>7. q.n \in Nat /\ q.n <= Len(q.shape.attempts) /\ Len(q.shape.attempts) \in Nat
  <2>1. q.n \in DOMAIN q.shape.attempts
    BY <1>0 DEF RequestOk
  <2> QED
    BY <1>0, <2>1, Attempts
<1>8. LogOk(req, r, z, l, u)
  <2>1. Threaded(req, r, z, l)
    BY <1>0, <1>4 DEF Threaded, ThreadOf, InConversation, ConversationOf, Ended
  <2>2. Len(l) <= Len(z.shape.attempts)
    BY <1>0, <1>4, <1>7 DEF Ended
  <2> QED
    BY <1>1, <1>2, <1>4, <2>1, <2>2 DEF LogOk, StreamOk, Ended
<1>9. RowOk(req, now, r, z, w, u)
  <2>1. ASSUME w # NoRow PROVE StoredOk(req, r, z, w, u)
    <3>1. StoredOk(req, r, q, w, t) /\ q.phase = "recording"
      BY <1>0, <2>1 DEF RowOk, StoredOk, Final, Ending
    <3>2. InConversation(req, r, z)
      BY <1>4, <3>1 DEF StoredOk, InConversation, ConversationOf, Ended
    <3> QED
      BY <1>4, <1>5, <3>1, <3>2 DEF StoredOk, Ended, Final
  <2> QED
    BY <1>0, <1>5, <2>1 DEF RowOk
<1>10. z \in RequestType /\ z.shape = q.shape /\ z.conversation = q.conversation
  BY <1>4 DEF Ended
<1>11. Allowed(r, z, w, l, u)
  BY <1>0, <1>5, <1>6, <1>8, <1>9, <1>10 DEF Allowed, q
<1> QED
  BY <1>3, <1>11, RequestStep

\* The stream is passed on once it is recorded; an image's in any case.
LEMMA StreamStep ==
  ASSUME Inv, NEW r \in Request, req[r] # Idle, req[r].phase = "waiting",
         NEW l, log' = [log EXCEPT ![r] = l], NEW mishap \in BOOLEAN,
         LastOf(r, l, "streaming") \/ (FailedLog(r, l) /\ mishap),
         Stream(r, mishap), UNCHANGED rows, Aside
  PROVE  Inv'
<1> DEFINE q == req[r]
           z == [q EXCEPT !.phase = "streaming"]
           t == told[r]
           u == [t EXCEPT !.id = TRUE, !.mishap = mishap]
           w == rows[r]
<1>0. /\ q \in RequestType /\ t \in ToldType /\ w \in RowType \cup {NoRow}
      /\ RequestOk(req, r, q, t) /\ RowOk(req, now, r, q, w, t)
      /\ q.phase = "waiting" /\ q # Idle
      /\ Threaded(req, r, q, l) /\ Len(l) \in Nat /\ Len(l) <= q.n /\ l \in Seq(Entry)
      /\ rows = [rows EXCEPT ![r] = w]
  BY ServedFacts, Unchanged DEF FailedLog, LastOf
<1>1. ~mishap => EndsWith(l, "streaming") /\ l[Len(l)].writing
  BY DEF LastOf, EndsWith
<1>2. Earlier(l) /\ \A i \in DOMAIN l : l[i].status # "success"
  BY DEF LastOf, Earlier, FailedLog, AllFailed, FailedEntry
<1>3. Goes(r, z, w, l, u)
  <2>1. req' = [req EXCEPT ![r] = z] /\ told' = [told EXCEPT ![r] = u]
    BY DEF Stream
  <2> HIDE DEF z, u
  <2> QED
    BY <1>0, <2>1 DEF Goes, Aside
<1> HIDE DEF q, t, w
<1>4. /\ z.phase = "streaming" /\ z.n = q.n /\ z.body = q.body /\ z.shape = q.shape
      /\ z.prev = q.prev /\ z.conversation = q.conversation /\ z.parent = q.parent
      /\ z.output = q.output
  BY <1>0 DEF RequestType
<1>5. z \in RequestType
  <2>1. "streaming" \in Final \cup Ending \cup Busy
    BY DEF Busy
  <2> QED
    BY <1>0, <2>1 DEF RequestType
<1>6. /\ u \in ToldType /\ u.id = TRUE /\ u.said = t.said /\ u.asked = t.asked /\ u.until = t.until
      /\ u.mishap = mishap
  BY <1>0 DEF ToldType
<1> HIDE DEF z, u
<1>7. InConversation(req, r, z)
  BY <1>0, <1>4 DEF RequestOk, InConversation, ConversationOf, Busy
<1>8. RequestOk(req, r, z, u)
  <2>1. ASSUME z.shape.api = "responses" PROVE ResponsesOk(req, r, z, u)
    <3>1. ResponsesOk(req, r, q, t)
      BY <1>0, <1>4, <2>1 DEF RequestOk, Busy
    <3>2. Input(r, z) = Input(r, q)
      BY <1>4 DEF Input
    <3> QED
      BY <1>0, <1>4, <1>6, <3>1, <3>2 DEF ResponsesOk
  <2>2. SaidBy(r, t.said) /\ SaidBy(r, q.output) /\ q.n \in DOMAIN q.shape.attempts
    BY <1>0 DEF RequestOk
  <2>3. "streaming" \notin Final \cup Ending \cup {"trying"}
    BY DEF Final, Ending
  <2> QED
    BY <1>4, <1>6, <1>7, <2>1, <2>2, <2>3 DEF RequestOk
<1>9. LogOk(req, r, z, l, u)
  <2>1. Threaded(req, r, z, l)
    BY <1>0, <1>4, <1>7 DEF Threaded, ThreadOf, ConversationOf
  <2>2. Len(l) <= Len(z.shape.attempts)
    <3>1. q.n \in DOMAIN q.shape.attempts
      BY <1>0 DEF RequestOk
    <3>2. q.n \in Nat /\ q.n <= Len(q.shape.attempts) /\ Len(q.shape.attempts) \in Nat
      BY <1>0, <3>1, Attempts
    <3> QED
      BY <1>0, <1>4, <3>2
  <2> QED
    BY <1>1, <1>2, <1>4, <1>6, <2>1, <2>2 DEF LogOk, StreamOk
<1>10. RowOk(req, now, r, z, w, u)
  BY <1>0, <1>6 DEF RowOk, StoredOk, Final, Ending
<1>11. Allowed(r, z, w, l, u)
  BY <1>0, <1>4, <1>5, <1>6, <1>8, <1>9, <1>10 DEF Allowed, q
<1> QED
  BY <1>3, <1>11, RequestStep

\* A stream ends; what is stored of it, if anything, is what was sent and said.
LEMMA EndStreamStep ==
  ASSUME Inv, NEW r \in Request, req[r] # Idle, req[r].phase = "streaming",
         NEW phase \in {"completed", "broken"},
         req' = [req EXCEPT ![r] = Finish(@, phase)], UNCHANGED log,
         NEW u \in ToldType, told' = [told EXCEPT ![r] = u],
         u.asked = told[r].asked, SaidBy(r, u.said), u.mishap = told[r].mishap,
         u.end = IF phase = "completed" THEN "completion" ELSE "break",
         NEW w \in RowType \cup {NoRow}, rows' = [rows EXCEPT ![r] = w],
         w = NoRow => u.until = told[r].until,
         w # NoRow =>
           /\ req[r].shape.api = "responses"
           /\ w.who = req[r].shape.who /\ w.conversation = req[r].conversation
           /\ w.request_items = req[r].body.items /\ w.response_items = u.said
           /\ w.expires = u.until,
         Aside
  PROVE  Inv'
<1> DEFINE q == req[r]
           z == Finish(q, phase)
           t == told[r]
           l == log[r]
<1>0. /\ q \in RequestType /\ t \in ToldType /\ l \in Seq(Entry)
      /\ RequestOk(req, r, q, t) /\ RowOk(req, now, r, q, rows[r], t) /\ LogOk(req, r, q, l, t)
      /\ q.phase = "streaming" /\ q # Idle
      /\ u.asked = t.asked /\ phase \in Ending /\ u.mishap = t.mishap
      /\ w = NoRow => u.until = t.until
      /\ w # NoRow =>
           /\ q.shape.api = "responses"
           /\ w.who = q.shape.who /\ w.conversation = q.conversation
           /\ w.request_items = q.body.items /\ w.response_items = u.said
           /\ w.expires = u.until
      /\ log = [log EXCEPT ![r] = l]
  BY ServedFacts, Unchanged DEF Ending
<1>1. Goes(r, z, w, l, u)
  <2>1. req' = [req EXCEPT ![r] = z] /\ log' = [log EXCEPT ![r] = l]
    BY <1>0
  <2> HIDE DEF z, l
  <2> QED
    BY <2>1 DEF Goes, Aside
<1>2. Ended(q, z, phase)
  BY <1>0, FinishEnds
<1>3. rows[r] = NoRow /\ 2 * t.until <= now
  BY <1>0 DEF RowOk, StoredOk, Final, Ending
<1> HIDE DEF q, z, t, l
<1>4. z \in RequestType /\ z.shape = q.shape /\ z.conversation = q.conversation /\ z.prev = q.prev
      /\ z.phase = phase
  BY <1>2 DEF Ended
<1>5. LogOk(req, r, z, l, u)
  <2>1. Len(l) <= Len(z.shape.attempts) /\ Earlier(l) /\ StreamOk("streaming", l, t)
    BY <1>0, <1>4 DEF LogOk
  <2>2. Threaded(req, r, z, l)
    BY <1>0, <1>4 DEF LogOk, Threaded, ThreadOf, InConversation, ConversationOf
  <2>3. StreamOk(phase, l, u)
    BY <1>0, <2>1 DEF StreamOk
  <2> QED
    BY <1>4, <2>1, <2>2, <2>3 DEF LogOk
<1>7. RequestOk(req, r, z, u)
  BY <1>0, <1>2, EndedOk
<1>8. RowOk(req, now, r, z, w, u)
  <2>1. CASE w = NoRow
    BY <1>0, <1>3, <2>1 DEF RowOk
  <2>2. CASE w # NoRow
    <3>1. InConversation(req, r, z)
      BY <1>0, <1>4 DEF RequestOk, InConversation, ConversationOf, Busy
    <3>2. Trimmed(w.request_items, u.asked) /\ OwnedBy(req, q.shape.who, u.asked)
      BY <1>0, <2>2, SentIsTrimmed DEF RequestOk, ResponsesOk, Busy
    <3>3. StoredOk(req, r, z, w, u)
      BY <1>0, <1>4, <2>2, <3>1, <3>2 DEF StoredOk
    <3> QED
      BY <2>2, <3>3 DEF RowOk
  <2> QED
    BY <2>1, <2>2
<1>9. Allowed(r, z, w, l, u)
  BY <1>0, <1>4, <1>5, <1>7, <1>8 DEF Allowed, q
<1> QED
  BY <1>1, <1>9, RequestStep

\* A stream completes, its state saved or not.
LEMMA CompletesStep ==
  ASSUME Inv, NEW r \in Request, req[r] # Idle, NEW kinds \in Seq(Kind), NEW seen \in BOOLEAN,
         StreamCompletes(r, kinds, seen)
  PROVE  Inv'
<1> DEFINE output == OutputItems(r, kinds)
           q == [req[r] EXCEPT !.output = output]
           t == told[r]
           ready == Stores(r) /\ kinds # <<>> /\ seen
<1>0. /\ req[r] \in RequestType /\ t \in ToldType /\ RequestOk(req, r, req[r], t)
      /\ RowOk(req, now, r, req[r], rows[r], t)
      /\ rows = [rows EXCEPT ![r] = rows[r]]
  BY ServedFacts, Unchanged
<1>1. output \in Seq(Item) /\ SaidBy(r, output)
  BY OutputFacts
<1>2. /\ q \in RequestType /\ q.phase = req[r].phase /\ q.output = output /\ q.body = req[r].body
      /\ q.shape = req[r].shape /\ q.conversation = req[r].conversation
  <2> HIDE DEF output
  <2> QED
    BY <1>0, <1>1 DEF RequestType
<1>3. /\ req[r].phase = "streaming"
      /\ req' = [req EXCEPT ![r] = Finish(@, "completed")]
      /\ UNCHANGED <<now, server, batch, legacy, log>>
      /\ Fault \/ NoFault
  BY <1>2 DEF StreamCompletes
<1>4. Aside
  BY <1>3, FaultsBounded DEF Aside
<1>5. rows[r] = NoRow
  BY <1>0, <1>3 DEF RowOk, StoredOk, Final, Ending
<1> DEFINE e == [t EXCEPT !.said = q.output, !.end = "completion"]
<1>6. \/ /\ ready
         /\ rows' = [rows EXCEPT ![r] = save_response_state(q)]
         /\ told' = [told EXCEPT ![r] = [e EXCEPT !.until = Sec(now) + Days]]
      \/ UNCHANGED rows /\ told' = [told EXCEPT ![r] = e]
  BY DEF StreamCompletes
<1>9. /\ e \in ToldType /\ e.asked = t.asked /\ e.said = output /\ e.until = t.until
      /\ e.mishap = t.mishap /\ e.end = "completion"
  <2> HIDE DEF q, t, output
  <2> QED
    BY <1>0, <1>1, <1>2 DEF ToldType
<1> HIDE DEF e
<1>7. CASE /\ ready
           /\ rows' = [rows EXCEPT ![r] = save_response_state(q)]
           /\ told' = [told EXCEPT ![r] = [e EXCEPT !.until = Sec(now) + Days]]
  <2> DEFINE u == [e EXCEPT !.until = Sec(now) + Days]
             w == save_response_state(q)
  <2>1. req[r].shape.api = "responses"
    BY <1>7 DEF Stores
  <2>2. q.body \in [to : {"native", "chat"}, items : Items, instructions : BOOLEAN]
    BY <1>0, <1>2, <1>3, <2>1 DEF RequestOk, ResponsesOk, Busy
  <2> HIDE DEF q, t
  <2>3. /\ w \in RowType /\ w # NoRow
        /\ w.who = q.shape.who /\ w.conversation = q.conversation
        /\ w.request_items = q.body.items /\ w.response_items = q.output
        /\ w.expires = Sec(now) + Days /\ Sec(now) + Days \in Nat \ {0}
    BY <1>2, <2>2, SavedRow
  <2> HIDE DEF w, output
  <2>4. /\ u \in ToldType /\ u.asked = t.asked /\ u.said = output /\ u.until = Sec(now) + Days
        /\ u.mishap = t.mishap /\ u.end = "completion"
    BY <1>9, <2>3 DEF ToldType
  <2>5. told' = [told EXCEPT ![r] = u] /\ rows' = [rows EXCEPT ![r] = w]
    BY <1>7 DEF w
  <2> HIDE DEF u
  <2> QED
    BY <1>1, <1>2, <1>3, <1>4, <2>1, <2>3, <2>4, <2>5, EndStreamStep DEF t
<1>8. CASE UNCHANGED rows /\ told' = [told EXCEPT ![r] = e]
  <2> HIDE DEF q, t, output
  <2>2. rows' = [rows EXCEPT ![r] = NoRow] /\ NoRow \in RowType \cup {NoRow}
    BY <1>0, <1>5, <1>8
  <2> QED
    BY <1>1, <1>3, <1>4, <1>8, <1>9, <2>2, EndStreamStep DEF t
<1> QED
  BY <1>6, <1>7, <1>8

\* The activities are rewritten: threads stay, and so does what is not being
\* written any more.
Rewritten(l, m) ==
    /\ m \in Seq(Entry) /\ Len(m) = Len(l) /\ DOMAIN m = DOMAIN l
    /\ \A i \in DOMAIN l :
         /\ m[i].thread = l[i].thread
         /\ ~l[i].writing => m[i].status = l[i].status /\ ~m[i].writing

\* What a handler that has ended its stream holds on to.
Stays(r, q, z) ==
    /\ z \in RequestType
    /\ z.shape = q.shape /\ z.prev = q.prev /\ z.conversation = q.conversation
    /\ z.n \in DOMAIN z.shape.attempts /\ z.body = NoBody /\ SaidBy(r, z.output)

\* The end of a stream is recorded step by step: the rest of the invariant
\* does not depend on how far that has come.
LEMMA SettleStep ==
  ASSUME Inv, NEW r \in Request, req[r] # Idle, req[r].phase \in Ending,
         NEW z, Stays(r, req[r], z), req' = [req EXCEPT ![r] = z],
         z.phase \in Ending \cup {"settled"},
         NEW m, Rewritten(log[r], m), log' = [log EXCEPT ![r] = m],
         NEW u \in ToldType, told' = [told EXCEPT ![r] = u],
         u.id = told[r].id, u.asked = told[r].asked, u.said = told[r].said, u.until = told[r].until,
         StreamOk(z.phase, m, u), UNCHANGED rows, Aside
  PROVE  Inv'
<1> DEFINE q == req[r]
           t == told[r]
           l == log[r]
           w == rows[r]
<1>0. /\ q \in RequestType /\ t \in ToldType /\ l \in Seq(Entry) /\ w \in RowType \cup {NoRow}
      /\ RequestOk(req, r, q, t) /\ RowOk(req, now, r, q, w, t) /\ LogOk(req, r, q, l, t)
      /\ q.phase \in Ending /\ Stays(r, q, z) /\ Rewritten(l, m)
      /\ u.id = t.id /\ u.asked = t.asked /\ u.said = t.said /\ u.until = t.until
      /\ rows = [rows EXCEPT ![r] = w]
  BY ServedFacts, Unchanged
<1>1. Goes(r, z, w, m, u)
  BY <1>0 DEF Goes, Aside
<1> HIDE DEF q, t, l, w
<1>2. /\ z.shape = q.shape /\ z.prev = q.prev /\ z.conversation = q.conversation /\ z \in RequestType
      /\ z.phase \notin Busy \cup {"refused", "answered"} /\ z.phase \in Final \cup Ending
  BY <1>0 DEF Stays, Busy, Ending, Final
<1>3. RequestOk(req, r, z, u)
  <2>1. SaidBy(r, u.said)
    BY <1>0 DEF RequestOk
  <2> QED
    BY <1>0, <1>2, <2>1 DEF RequestOk, Stays, Busy
<1>4. RowOk(req, now, r, z, w, u)
  <2>1. ASSUME w # NoRow PROVE StoredOk(req, r, z, w, u)
    <3>1. StoredOk(req, r, q, w, t)
      BY <1>0, <2>1 DEF RowOk
    <3>2. InConversation(req, r, z)
      BY <1>2, <3>1 DEF StoredOk, InConversation, ConversationOf
    <3> QED
      BY <1>0, <1>2, <3>1, <3>2 DEF StoredOk, Busy
  <2> QED
    BY <1>0, <2>1 DEF RowOk
<1>5. LogOk(req, r, z, m, u)
  <2>1. /\ Len(l) <= Len(q.shape.attempts) /\ Earlier(l) /\ Threaded(req, r, q, l)
    BY <1>0 DEF LogOk
  <2>2. Earlier(m) /\ (m # <<>> => l # <<>>)
    BY <1>0, <2>1 DEF Earlier, FailedEntry, Rewritten
  <2>3. Threaded(req, r, z, m)
    BY <1>0, <1>2, <2>1, <2>2 DEF Threaded, ThreadOf, InConversation, ConversationOf, Rewritten
  <2> QED
    BY <1>0, <1>2, <2>1, <2>2, <2>3 DEF LogOk, Rewritten, Busy
<1>6. Allowed(r, z, w, m, u)
  BY <1>0, <1>2, <1>3, <1>4, <1>5 DEF Allowed, Rewritten, q
<1> QED
  BY <1>1, <1>6, RequestStep

\* A stream breaks, before or after its completion.
LEMMA BreaksStep ==
  ASSUME Inv, NEW r \in Request, req[r] # Idle, StreamBreaks(r)
  PROVE  Inv'
<1> DEFINE q == req[r]
           t == told[r]
           l == log[r]
           z == Finish(q, "broken")
           u == [t EXCEPT !.end = "break"]
<1>0. /\ q \in RequestType /\ t \in ToldType /\ l \in Seq(Entry) /\ RequestOk(req, r, q, t)
      /\ RowOk(req, now, r, q, rows[r], t) /\ LogOk(req, r, q, l, t)
      /\ rows = [rows EXCEPT ![r] = rows[r]] /\ log = [log EXCEPT ![r] = log[r]]
  BY ServedFacts, Unchanged
<1>1. /\ q.phase \in {"streaming", "completed"}
      /\ req' = [req EXCEPT ![r] = z] /\ told' = [told EXCEPT ![r] = u]
      /\ UNCHANGED <<now, server, batch, legacy, rows, log, faults>>
  BY DEF StreamBreaks
<1>2. Aside
  BY <1>1, FaultsBounded DEF Aside, NoFault
<1>3. /\ u \in ToldType /\ u.id = t.id /\ u.asked = t.asked /\ u.said = t.said /\ u.until = t.until
      /\ u.end = "break" /\ u.mishap = t.mishap
  <2> HIDE DEF t
  <2> QED
    BY <1>0 DEF ToldType
<1>4. SaidBy(r, u.said)
  BY <1>0, <1>3 DEF RequestOk
<1>5. CASE q.phase = "streaming"
  <2>1. rows[r] = NoRow /\ NoRow \in RowType \cup {NoRow}
    BY <1>0, <1>5 DEF RowOk, StoredOk, Final, Ending
  <2>2. rows' = [rows EXCEPT ![r] = NoRow]
    BY <1>0, <1>1, <2>1
  <2> HIDE DEF u
  <2> QED
    BY <1>1, <1>2, <1>3, <1>4, <1>5, <2>1, <2>2, EndStreamStep
<1>6. CASE q.phase = "completed"
  <2>1. Ended(q, z, "broken")
    BY <1>0, FinishEnds DEF Ending
  <2>2. StreamOk("broken", l, u)
    <3>1. StreamOk("completed", l, t)
      BY <1>0, <1>6 DEF LogOk
    <3> HIDE DEF u, l, t
    <3> QED
      BY <1>3, <3>1 DEF StreamOk
  <2>3. Rewritten(l, l)
    BY <1>0 DEF Rewritten
  <2> HIDE DEF z, u
  <2>4. Stays(r, q, z) /\ z.phase = "broken"
    BY <1>0, <2>1, Attempts DEF Stays, Ended, SaidBy
  <2>5. "broken" \in Ending /\ q.phase \in Ending
    BY <1>6 DEF Ending
  <2>6. log' = [log EXCEPT ![r] = l] /\ UNCHANGED rows
    BY <1>0, <1>1
  <2>7. StreamOk(z.phase, l, u) /\ z.phase \in Ending \cup {"settled"}
    BY <2>2, <2>4, <2>5
  <2>8. /\ req' = [req EXCEPT ![r] = z] /\ told' = [told EXCEPT ![r] = u] /\ u \in ToldType
        /\ u.id = t.id /\ u.asked = t.asked /\ u.said = t.said /\ u.until = t.until
    BY <1>1, <1>3
  <2> QED
    BY <1>2, <2>3, <2>4, <2>5, <2>6, <2>7, <2>8, SettleStep
<1> QED
  BY <1>1, <1>5, <1>6

\* The activities of a request with what is being written given a status.
Marked(l, status, writing) ==
    [i \in DOMAIN l |->
        IF l[i].writing THEN [l[i] EXCEPT !.status = status, !.writing = writing] ELSE l[i]]

\* Only what was being written is changed.
LEMMA MarkedFacts ==
  ASSUME NEW l \in Seq(Entry), NEW status \in {"success", "failed"}, NEW writing \in BOOLEAN
  PROVE  /\ Rewritten(l, Marked(l, status, writing))
         /\ \A i \in DOMAIN l : l[i].writing =>
              /\ Marked(l, status, writing)[i].status = status
              /\ (Marked(l, status, writing)[i].writing <=> writing)
<1> DEFINE m == Marked(l, status, writing)
<1>1. Len(l) \in Nat /\ DOMAIN l = 1 .. Len(l) /\ \A i \in 1 .. Len(l) : l[i] \in Entry
  OBVIOUS
<1>2. m = [i \in 1 .. Len(l) |->
             IF l[i].writing THEN [l[i] EXCEPT !.status = status, !.writing = writing] ELSE l[i]]
  BY <1>1 DEF Marked
<1>3. ASSUME NEW i \in 1 .. Len(l)
      PROVE  /\ m[i] \in Entry /\ m[i].thread = l[i].thread
             /\ ~l[i].writing => m[i] = l[i]
             /\ l[i].writing => m[i].status = status /\ m[i].writing = writing
  <2>1. CASE l[i].writing
    <3>1. m[i] = [l[i] EXCEPT !.status = status, !.writing = writing]
      BY <1>2, <2>1
    <3> QED
      BY <1>1, <2>1, <3>1 DEF Entry
  <2>2. CASE ~l[i].writing
    <3>1. m[i] = l[i]
      BY <1>2, <2>2
    <3> QED
      BY <1>1, <2>2, <3>1
  <2> QED
    BY <2>1, <2>2
<1>4. m \in [1 .. Len(l) -> Entry]
  BY <1>2, <1>3
<1> HIDE DEF m
<1>5. m \in Seq(Entry) /\ Len(m) = Len(l) /\ DOMAIN m = 1 .. Len(l)
  BY <1>1, <1>4
<1>6. Rewritten(l, m)
  BY <1>1, <1>3, <1>5 DEF Rewritten
<1>7. \A i \in DOMAIN l : l[i].writing => m[i].status = status /\ (m[i].writing <=> writing)
  BY <1>1, <1>3
<1> QED
  BY <1>6, <1>7 DEF m

\* The activities of a request with nothing being written any more.
Closed(l) == [i \in DOMAIN l |-> [l[i] EXCEPT !.writing = FALSE]]

\* They keep their statuses.
LEMMA ClosedFacts ==
  ASSUME NEW l \in Seq(Entry)
  PROVE  /\ Rewritten(l, Closed(l))
         /\ \A i \in DOMAIN l : Closed(l)[i].status = l[i].status /\ ~Closed(l)[i].writing
<1> DEFINE m == Closed(l)
<1>1. Len(l) \in Nat /\ DOMAIN l = 1 .. Len(l) /\ \A i \in 1 .. Len(l) : l[i] \in Entry
  OBVIOUS
<1>2. m = [i \in 1 .. Len(l) |-> [l[i] EXCEPT !.writing = FALSE]]
  BY <1>1 DEF Closed
<1>3. ASSUME NEW i \in 1 .. Len(l)
      PROVE  /\ m[i] \in Entry /\ m[i].thread = l[i].thread
             /\ m[i].status = l[i].status /\ m[i].writing = FALSE
  <2>1. m[i] = [l[i] EXCEPT !.writing = FALSE] /\ l[i] \in Entry
    BY <1>1, <1>2
  <2> QED
    BY <2>1 DEF Entry
<1>4. m \in [1 .. Len(l) -> Entry]
  BY <1>2, <1>3
<1> HIDE DEF m
<1>5. m \in Seq(Entry) /\ Len(m) = Len(l) /\ DOMAIN m = 1 .. Len(l)
  BY <1>1, <1>4
<1>6. Rewritten(l, m)
  BY <1>1, <1>3, <1>5 DEF Rewritten
<1> QED
  BY <1>1, <1>3, <1>6 DEF m

\* Whatever the mishaps, only a stream the client saw completed is a success.
OnlyCompleted(l, t) == \A i \in DOMAIN l : l[i].status = "success" => t.end = "completion"

\* After a mishap nothing more is claimed.
LEMMA AfterMishap ==
  ASSUME NEW phase \in {"finalizing", "incomplete", "closing", "settled"}, NEW l, NEW t,
         t.mishap, OnlyCompleted(l, t)
  PROVE  StreamOk(phase, l, t)
BY DEF StreamOk, OnlyCompleted

\* One step of settling, with or without a mishap.
LEMMA GoOnStep ==
  ASSUME Inv, NEW r \in Request, req[r] # Idle, req[r].phase \in Ending,
         NEW phase \in {"finalizing", "incomplete", "closing", "settled"}, GoOn(r, phase),
         NEW m, Rewritten(log[r], m), log' = [log EXCEPT ![r] = m],
         \/ NoMishap /\ StreamOk(phase, m, told[r])
         \/ Mishap(r) /\ OnlyCompleted(m, told[r]),
         UNCHANGED <<now, server, batch, legacy, rows>>
  PROVE  Inv'
<1> DEFINE q == req[r]
           z == [q EXCEPT !.phase = phase]
           t == told[r]
<1>0. /\ q \in RequestType /\ t \in ToldType /\ RequestOk(req, r, q, t) /\ q.phase \in Ending
      /\ told = [told EXCEPT ![r] = told[r]] /\ req' = [req EXCEPT ![r] = z]
  BY ServedFacts, Unchanged DEF GoOn
<1>1. Aside
  BY FaultsBounded DEF Aside, NoMishap, Mishap
<1>2. Stays(r, q, z) /\ z.phase = phase
  <2> HIDE DEF q, t
  <2>1. phase \in Final \cup Ending \cup Busy
    BY DEF Final, Ending
  <2>2. /\ z \in RequestType /\ z.phase = phase /\ z.n = q.n /\ z.body = q.body /\ z.shape = q.shape
        /\ z.prev = q.prev /\ z.conversation = q.conversation /\ z.output = q.output
    BY <1>0, <2>1 DEF RequestType
  <2> HIDE DEF z
  <2>3. q.n \in DOMAIN q.shape.attempts /\ q.body = NoBody /\ SaidBy(r, q.output)
    BY <1>0 DEF RequestOk
  <2> QED
    BY <2>2, <2>3 DEF Stays
<1> HIDE DEF z
<1>3. phase \in Ending \cup {"settled"}
  BY DEF Ending
<1>4. CASE NoMishap /\ StreamOk(phase, m, t)
  <2>1. told' = [told EXCEPT ![r] = t]
    BY <1>0, <1>4 DEF NoMishap
  <2> QED
    BY <1>0, <1>1, <1>2, <1>3, <1>4, <2>1, SettleStep
<1>5. CASE Mishap(r) /\ OnlyCompleted(m, t)
  <2> DEFINE u == [t EXCEPT !.mishap = TRUE]
  <2>1. told' = [told EXCEPT ![r] = u]
    BY <1>5 DEF Mishap
  <2>2. /\ u \in ToldType /\ u.id = t.id /\ u.asked = t.asked /\ u.said = t.said /\ u.until = t.until
        /\ u.end = t.end /\ u.mishap
    <3> HIDE DEF t
    <3> QED
      BY <1>0 DEF ToldType
  <2> HIDE DEF u
  <2>3. StreamOk(phase, m, u)
    BY <1>5, <2>2, AfterMishap DEF OnlyCompleted
  <2> QED
    BY <1>0, <1>1, <1>2, <1>3, <2>1, <2>2, <2>3, SettleStep
<1> QED
  BY <1>4, <1>5

\* The row of the activity is updated, or that fails.
LEMMA UpdateStep ==
  ASSUME Inv, NEW r \in Request, req[r] # Idle, update_stream_log(r)
  PROVE  Inv'
<1> DEFINE l == log[r]
           t == told[r]
           status == IF req[r].phase = "completed" THEN "success" ELSE "failed"
           m == Marked(l, status, TRUE)
<1>0. /\ l \in Seq(Entry) /\ t \in ToldType /\ LogOk(req, r, req[r], l, t) /\ log = [log EXCEPT ![r] = l]
  BY ServedFacts, Unchanged
<1>1. /\ req[r].phase \in {"completed", "broken"} /\ req[r].phase \in Ending
      /\ GoOn(r, "finalizing") /\ UNCHANGED <<now, server, batch, legacy, rows>>
      /\ \/ log' = [log EXCEPT ![r] = m] /\ NoMishap
         \/ UNCHANGED log /\ Mishap(r)
  BY DEF update_stream_log, SetActivity, Marked, Ending
<1>2. StreamOk(req[r].phase, l, t)
  BY <1>0 DEF LogOk
<1>3. CASE log' = [log EXCEPT ![r] = m] /\ NoMishap
  <2>1. /\ Rewritten(l, m)
        /\ \A i \in DOMAIN l : l[i].writing => m[i].status = status /\ m[i].writing
    BY <1>0, MarkedFacts
  <2>2. status = Verdict(t) /\ (status = "success" => t.end = "completion")
    BY <1>1, <1>2 DEF StreamOk, Verdict
  <2>3. l # <<>> => Len(l) \in DOMAIN l
    BY <1>0
  <2> HIDE DEF m, status
  <2>4. \A i \in DOMAIN m : m[i].status = "success" => t.end = "completion"
    BY <1>1, <1>2, <2>1, <2>2 DEF Rewritten, StreamOk
  <2>5. ASSUME ~t.mishap PROVE EndsWith(m, Verdict(t)) /\ m[Len(m)].writing
    <3>1. EndsWith(l, "streaming") /\ l[Len(l)].writing /\ Len(l) \in DOMAIN l
      BY <1>1, <1>2, <2>3, <2>5 DEF StreamOk, EndsWith
    <3>2. m[Len(m)].status = status /\ m[Len(m)].writing /\ Len(m) \in DOMAIN m
      BY <2>1, <3>1 DEF Rewritten
    <3> QED
      BY <2>2, <3>2 DEF EndsWith
  <2>6. StreamOk("finalizing", m, t)
    BY <2>4, <2>5 DEF StreamOk
  <2> QED
    BY <1>1, <1>3, <2>1, <2>6, GoOnStep
<1>4. CASE UNCHANGED log /\ Mishap(r)
  <2>1. OnlyCompleted(l, t) /\ Rewritten(l, l) /\ log' = [log EXCEPT ![r] = l]
    BY <1>0, <1>1, <1>2, <1>4 DEF StreamOk, OnlyCompleted, Rewritten
  <2> QED
    BY <1>1, <1>4, <2>1, GoOnStep
<1> QED
  BY <1>1, <1>3, <1>4

\* The end of the rollout is written, or part of it is not.
LEMMA FinalizeStep ==
  ASSUME Inv, NEW r \in Request, req[r] # Idle, finalize_rollout(r)
  PROVE  Inv'
<1> DEFINE l == log[r]
           t == told[r]
<1>0. /\ l \in Seq(Entry) /\ t \in ToldType /\ LogOk(req, r, req[r], l, t) /\ log = [log EXCEPT ![r] = l]
  BY ServedFacts, Unchanged
<1>1. /\ req[r].phase = "finalizing" /\ req[r].phase \in Ending
      /\ UNCHANGED <<now, server, batch, legacy, rows>> /\ log' = [log EXCEPT ![r] = l]
      /\ \/ GoOn(r, "closing") /\ NoMishap
         \/ GoOn(r, "incomplete") /\ Mishap(r)
         \/ GoOn(r, "settled") /\ Mishap(r)
  BY <1>0 DEF finalize_rollout, Ending
<1>2. StreamOk("finalizing", l, t)
  BY <1>0, <1>1 DEF LogOk
<1>3. StreamOk("closing", l, t) /\ OnlyCompleted(l, t) /\ Rewritten(l, l)
  BY <1>0, <1>2 DEF StreamOk, OnlyCompleted, Rewritten
<1>4. CASE GoOn(r, "closing") /\ NoMishap
  BY <1>1, <1>3, <1>4, GoOnStep
<1>5. CASE GoOn(r, "incomplete") /\ Mishap(r)
  BY <1>1, <1>3, <1>5, GoOnStep
<1>6. CASE GoOn(r, "settled") /\ Mishap(r)
  BY <1>1, <1>3, <1>6, GoOnStep
<1> QED
  BY <1>1, <1>4, <1>5, <1>6

\* An incomplete rollout is a failure, whatever the stream was.
LEMMA MarkStep ==
  ASSUME Inv, NEW r \in Request, req[r] # Idle, mark_rollout_incomplete(r)
  PROVE  Inv'
<1> DEFINE l == log[r]
           t == told[r]
           m == Marked(l, "failed", TRUE)
<1>0. /\ l \in Seq(Entry) /\ t \in ToldType /\ LogOk(req, r, req[r], l, t) /\ log = [log EXCEPT ![r] = l]
  BY ServedFacts, Unchanged
<1>1. /\ req[r].phase = "incomplete" /\ req[r].phase \in Ending
      /\ UNCHANGED <<now, server, batch, legacy, rows>> /\ GoOn(r, "closing")
      /\ \/ log' = [log EXCEPT ![r] = m] /\ NoMishap
         \/ log' = [log EXCEPT ![r] = l] /\ Mishap(r)
  BY <1>0 DEF mark_rollout_incomplete, SetActivity, Marked, Ending
<1>2. StreamOk("incomplete", l, t)
  BY <1>0, <1>1 DEF LogOk
<1>3. CASE log' = [log EXCEPT ![r] = m] /\ NoMishap
  <2>1. Rewritten(l, m) /\ \A i \in DOMAIN l : l[i].writing => m[i].status = "failed"
    BY <1>0, MarkedFacts
  <2> HIDE DEF m
  <2>2. OnlyCompleted(m, t) /\ t.mishap
    BY <1>2, <2>1 DEF OnlyCompleted, StreamOk, Rewritten
  <2>3. StreamOk("closing", m, t)
    BY <2>2, AfterMishap
  <2> QED
    BY <1>1, <1>3, <2>1, <2>3, GoOnStep
<1>4. CASE log' = [log EXCEPT ![r] = l] /\ Mishap(r)
  <2>1. OnlyCompleted(l, t) /\ Rewritten(l, l)
    BY <1>0, <1>2 DEF StreamOk, OnlyCompleted, Rewritten
  <2> QED
    BY <1>1, <1>4, <2>1, GoOnStep
<1> QED
  BY <1>1, <1>3, <1>4

\* The rollout is closed, or stays open.
LEMMA CloseStep ==
  ASSUME Inv, NEW r \in Request, req[r] # Idle, complete_stream(r)
  PROVE  Inv'
<1> DEFINE l == log[r]
           t == told[r]
           m == Closed(l)
<1>0. /\ l \in Seq(Entry) /\ t \in ToldType /\ LogOk(req, r, req[r], l, t) /\ log = [log EXCEPT ![r] = l]
  BY ServedFacts, Unchanged
<1>1. /\ req[r].phase = "closing" /\ req[r].phase \in Ending
      /\ UNCHANGED <<now, server, batch, legacy, rows>> /\ GoOn(r, "settled")
      /\ \/ log' = [log EXCEPT ![r] = m] /\ NoMishap
         \/ log' = [log EXCEPT ![r] = l] /\ Mishap(r)
  BY <1>0 DEF complete_stream, Closed, Ending
<1>2. StreamOk("closing", l, t)
  BY <1>0, <1>1 DEF LogOk
<1>3. CASE log' = [log EXCEPT ![r] = m] /\ NoMishap
  <2>1. Rewritten(l, m) /\ \A i \in DOMAIN l : m[i].status = l[i].status /\ ~m[i].writing
    BY <1>0, ClosedFacts
  <2>2. l # <<>> => Len(l) \in DOMAIN l
    BY <1>0
  <2> HIDE DEF m, l
  <2>3. \A i \in DOMAIN m : m[i].status = "success" => t.end = "completion"
    BY <1>2, <2>1 DEF Rewritten, StreamOk
  <2>4. ASSUME ~t.mishap PROVE EndsWith(m, Verdict(t)) /\ ~m[Len(m)].writing
    <3>1. EndsWith(l, Verdict(t)) /\ Len(l) \in DOMAIN l
      BY <1>2, <2>2, <2>4 DEF StreamOk, EndsWith
    <3>2. m[Len(m)].status = Verdict(t) /\ ~m[Len(m)].writing /\ Len(m) \in DOMAIN m
      BY <2>1, <3>1 DEF Rewritten, EndsWith
    <3> QED
      BY <3>2 DEF EndsWith
  <2>5. StreamOk("settled", m, t)
    BY <2>3, <2>4 DEF StreamOk
  <2> QED
    BY <1>1, <1>3, <2>1, <2>5, GoOnStep DEF l
<1>4. CASE log' = [log EXCEPT ![r] = l] /\ Mishap(r)
  <2>1. OnlyCompleted(l, t) /\ Rewritten(l, l)
    BY <1>0, <1>2 DEF StreamOk, OnlyCompleted, Rewritten
  <2> QED
    BY <1>1, <1>4, <2>1, GoOnStep
<1> QED
  BY <1>1, <1>3, <1>4

\* A chat answer that can be decoded is a sequence of items.
LEMMA ChatOutput ==
  ASSUME NEW reply \in ChatReplies, decode_chat_response(reply) # Undecodable
  PROVE  decode_chat_response(reply) \in Seq(Kind)
<1> DEFINE text == IF reply.text THEN <<"text">> ELSE <<>>
           calls == [i \in 1 .. reply.calls |-> "call"]
           output == text \o calls
<1>1. /\ reply.choices \in {"message", "empty", "invalid"} /\ reply.text \in BOOLEAN
      /\ reply.calls \in Nat
  BY RepliesAssumption
<1>2. "text" \in Kind /\ "call" \in Kind /\ "empty" \in Kind
  BY DEF Kind
<1>3. text \in Seq(Kind)
  BY <1>2
<1>4. calls \in Seq(Kind)
  <2>1. calls \in [1 .. reply.calls -> Kind]
    BY <1>2
  <2> HIDE DEF calls
  <2> QED
    BY <1>1, <2>1
<1>5. output \in Seq(Kind) /\ <<>> \in Seq(Kind) /\ <<"empty">> \in Seq(Kind)
  <2> HIDE DEF text, calls
  <2> QED
    BY <1>2, <1>3, <1>4
<1>6. decode_chat_response(reply) =
        CASE reply.choices = "empty" -> <<>>
          [] reply.choices = "invalid" -> Undecodable
          [] reply.choices = "message" -> IF output = <<>> THEN <<"empty">> ELSE output
  BY DEF decode_chat_response
<1> HIDE DEF output
<1>7. CASE reply.choices = "empty"
  BY <1>5, <1>6, <1>7
<1>8. CASE reply.choices = "invalid"
  BY <1>6, <1>8
<1>9. CASE reply.choices = "message"
  BY <1>5, <1>6, <1>9
<1> QED
  BY <1>1, <1>7, <1>8, <1>9

\* An upstream answers a Responses request in one piece.
LEMMA AnswersStep ==
  ASSUME Inv, NEW r \in Request, req[r] # Idle, NativeAnswers(r) \/ BridgedAnswers(r)
  PROVE  Inv'
<1>1. req[r].phase = "waiting" /\ req[r].shape.api = "responses"
  BY DEF NativeAnswers, BridgedAnswers, Waiting
<1>2. CASE record_upstream_failure(r)
  BY <1>1, <1>2, FailureStep
<1>3. CASE NativeAnswers(r) /\ ~record_upstream_failure(r)
  <2>1. PICK reply \in NativeReplies : SaveAnswer(r, OutputItems(r, reply.output))
    BY <1>3 DEF NativeAnswers
  <2>2. reply.output \in Seq(Kind)
    BY RepliesAssumption
  <2>3. OutputItems(r, reply.output) \in Seq(Item) /\ SaidBy(r, OutputItems(r, reply.output))
    BY <2>2, OutputFacts
  <2> QED
    BY <1>1, <2>1, <2>3, SaveStep
<1>4. CASE BridgedAnswers(r) /\ ~record_upstream_failure(r)
  <2>1. PICK reply \in ChatReplies :
          /\ decode_chat_response(reply) # Undecodable
          /\ SaveAnswer(r, OutputItems(r, decode_chat_response(reply)))
    BY <1>4 DEF BridgedAnswers, encode_responses_response
  <2> DEFINE kinds == decode_chat_response(reply)
  <2>2. kinds \in Seq(Kind)
    BY <2>1, ChatOutput
  <2>3. OutputItems(r, kinds) \in Seq(Item) /\ SaidBy(r, OutputItems(r, kinds))
    BY <2>2, OutputFacts
  <2> QED
    BY <1>1, <2>1, <2>3, SaveStep
<1> QED
  BY <1>2, <1>3, <1>4

\* An answer is recorded and told, or refused.
LEMMA RecordStep ==
  ASSUME Inv, NEW r \in Request, req[r] # Idle, req[r].phase \in {"waiting", "recording"},
         req[r].shape.api = "responses" => req[r].phase = "recording", RecordAnswer(r)
  PROVE  Inv'
<1>1. Aside /\ UNCHANGED rows
  BY FaultsBounded DEF RecordAnswer, Aside
<1>2. CASE Logged(r, "success") /\ Tell(r)
  <2>1. /\ LastOf(r, Recorded(r, "success"), "success")
        /\ log' = [log EXCEPT ![r] = Recorded(r, "success")]
    BY <1>2, RecordedFacts
  <2> QED
    BY <1>1, <1>2, <2>1, TellStep
<1>3. CASE UNCHANGED <<log, told>> /\ Refuse(r)
  <2>1. FailedLog(r, log[r]) /\ log = [log EXCEPT ![r] = log[r]]
    BY FailedLogs, ServedFacts, Unchanged
  <2> QED
    BY <1>1, <1>3, <2>1, RefuseStep
<1> QED
  BY <1>2, <1>3 DEF RecordAnswer

\* An image is told, recorded or not.
LEMMA ImageStep ==
  ASSUME Inv, NEW r \in Request, req[r] # Idle, ImageAnswers(r)
  PROVE  Inv'
<1>1. /\ Aside /\ UNCHANGED rows /\ Tell(r)
      /\ req[r].phase = "waiting" /\ req[r].shape.api = "images"
      /\ Logged(r, "success") \/ UNCHANGED log
  BY FaultsBounded DEF ImageAnswers, Waiting, record_image_activity_best_effort, Aside
<1>2. PICK l : /\ log' = [log EXCEPT ![r] = l]
               /\ LastOf(r, l, "success") \/ FailedLog(r, l)
  <2>1. LastOf(r, Recorded(r, "success"), "success") /\ FailedLog(r, log[r])
    BY <1>1, RecordedFacts, FailedLogs
  <2>2. log = [log EXCEPT ![r] = log[r]]
    BY ServedFacts, Unchanged
  <2>3. Logged(r, "success") => log' = [log EXCEPT ![r] = Recorded(r, "success")]
    BY DEF Logged, Recorded
  <2> QED
    BY <1>1, <2>1, <2>2, <2>3
<1> QED
  BY <1>1, <1>2, TellStep

\* A stream is opened, or refused because that could not be recorded.
LEMMA OpenStep ==
  ASSUME Inv, NEW r \in Request, req[r] # Idle, req[r].phase = "waiting",
         OpenStream(r) \/ OpenImageStream(r)
  PROVE  Inv'
<1>1. Aside /\ UNCHANGED rows
  BY FaultsBounded DEF OpenStream, OpenImageStream, Aside
<1>2. LastOf(r, Recorded(r, "streaming"), "streaming") /\ FailedLog(r, log[r])
  BY RecordedFacts, FailedLogs
<1>3. log = [log EXCEPT ![r] = log[r]]
  BY ServedFacts, Unchanged
<1>4. CASE Logged(r, "streaming") /\ Stream(r, FALSE)
  <2>1. log' = [log EXCEPT ![r] = Recorded(r, "streaming")]
    BY <1>4 DEF Logged, Recorded
  <2> QED
    BY <1>1, <1>2, <1>4, <2>1, StreamStep
<1>5. CASE UNCHANGED <<log, told>> /\ Refuse(r)
  <2>1. log' = [log EXCEPT ![r] = log[r]]
    BY <1>3, <1>5
  <2> QED
    BY <1>1, <1>2, <1>5, <2>1, RefuseStep
<1>6. CASE UNCHANGED log /\ Stream(r, TRUE)
  <2>1. log' = [log EXCEPT ![r] = log[r]]
    BY <1>3, <1>6
  <2> QED
    BY <1>1, <1>2, <1>6, <2>1, StreamStep
<1> QED
  BY <1>4, <1>5, <1>6 DEF OpenStream, OpenImageStream, Waiting

\* Every step of a request that is being served.
LEMMA ServeStep ==
  ASSUME Inv, NEW r \in Request, Serve(r)
  PROVE  Inv'
<1>0. req[r] # Idle
  BY DEF Serve
<1>1. CASE create_response_with_candidate(r)
  BY <1>0, <1>1, CandidateStep
<1>2. CASE create_chat_completion_with_candidate(r) \/ create_image_generation_with_candidate(r)
  BY <1>0, <1>2, StatelessCandidateStep
<1>3. CASE \/ NativeAttemptFails(r) \/ BridgedAttemptFails(r) \/ ChatAttemptFails(r)
           \/ ImageAttemptFails(r) \/ ImageHeadFails(r)
           \/ NativeStatusFails(r) \/ BridgedStatusFails(r) \/ ChatStatusFails(r)
  <2>1. req[r].phase = "waiting"
    BY <1>3 DEF NativeAttemptFails, BridgedAttemptFails, ChatAttemptFails, ImageAttemptFails,
       ImageHeadFails, NativeStatusFails, BridgedStatusFails, ChatStatusFails, Waiting
  <2>2. \/ record_upstream_failure(r) \/ record_upstream_status(r) \/ FailUnrecorded(r)
        \/ ImageAttemptFails(r)
    BY <1>3 DEF NativeAttemptFails, BridgedAttemptFails, ChatAttemptFails,
       ImageHeadFails, NativeStatusFails, BridgedStatusFails, ChatStatusFails
  <2> QED
    BY <1>0, <2>1, <2>2, FailureStep
<1>4. CASE NativeAnswers(r) \/ BridgedAnswers(r)
  BY <1>0, <1>4, AnswersStep
<1>5. CASE ChatAnswers(r) \/ RecordNative(r) \/ RecordBridged(r)
  BY <1>0, <1>5, RecordStep DEF ChatAnswers, RecordNative, RecordBridged, Waiting
<1>6. CASE ImageAnswers(r)
  BY <1>0, <1>6, ImageStep
<1>7. CASE \/ OpenNativeStream(r) \/ OpenBridgedStream(r)
           \/ OpenChatStream(r) \/ OpenImageStream(r)
  <2>1. req[r].phase = "waiting" /\ (OpenStream(r) \/ OpenImageStream(r))
    BY <1>7 DEF OpenNativeStream, OpenBridgedStream, OpenChatStream, OpenImageStream, Waiting
  <2> QED
    BY <1>0, <2>1, OpenStep
<1>8. CASE \E kinds \in {reply.output : reply \in NativeReplies}, seen \in BOOLEAN :
             StreamCompletes(r, kinds, seen)
  <2>1. \A reply \in NativeReplies : reply.output \in Seq(Kind)
    BY RepliesAssumption
  <2>2. PICK kinds \in Seq(Kind), seen \in BOOLEAN : StreamCompletes(r, kinds, seen)
    BY <1>8, <2>1
  <2> QED
    BY <1>0, <2>2, CompletesStep
<1>9. CASE StreamBreaks(r)
  BY <1>0, <1>9, BreaksStep
<1>10. CASE \/ update_stream_log(r) \/ finalize_rollout(r)
            \/ mark_rollout_incomplete(r) \/ complete_stream(r)
  BY <1>0, <1>10, UpdateStep, FinalizeStep, MarkStep, CloseStep
<1> QED
  BY <1>1, <1>2, <1>3, <1>4, <1>5, <1>6, <1>7, <1>8, <1>9, <1>10 DEF Serve

-----------------------------------------------------------------------------
(* A request arrives.                                                        *)

\* The input of a request is items it says.
LEMMA InputFacts ==
  ASSUME NEW r \in Request, NEW shape \in Shapes
  PROVE  /\ current_input_items(r, shape) \in Seq(Item) /\ SaidBy(r, current_input_items(r, shape))
         /\ shape \in ShapeType /\ shape.who \in Identity
<1> DEFINE s == current_input_items(r, shape)
           input == shape.input
           Part == [kind : Kind, bytes : Nat]
<1>1. shape \in ShapeType
  BY ShapesAssumption
<1>2. input \in Seq(Part) /\ shape.who \in Identity
  BY <1>1 DEF ShapeType
<1>3. s = [i \in DOMAIN input |->
             [kind |-> input[i].kind, of |-> r, at |-> i, bytes |-> input[i].bytes]]
  BY DEF current_input_items
<1> HIDE DEF input
<1>4. /\ Len(input) \in Nat /\ DOMAIN input = 1 .. Len(input)
      /\ \A i \in 1 .. Len(input) : input[i].kind \in Kind /\ input[i].bytes \in Nat /\ i \in Nat
  <2>1. Len(input) \in Nat /\ DOMAIN input = 1 .. Len(input)
    BY <1>2
  <2>2. \A i \in 1 .. Len(input) : input[i] \in Part /\ i \in Nat
    <3> HIDE DEF Part
    <3> QED
      BY <1>2, <2>1
  <2> QED
    BY <2>1, <2>2
<1>5. \A i \in 1 .. Len(input) : s[i] \in Item /\ s[i].of = r
  BY <1>3, <1>4 DEF Item
<1>6. s \in [1 .. Len(input) -> Item] /\ DOMAIN s = 1 .. Len(input)
  BY <1>3, <1>4, <1>5
<1> QED
  BY <1>1, <1>2, <1>4, <1>5, <1>6 DEF SaidBy

\* A request arrives and is served or refused.
LEMMA ArriveStep ==
  ASSUME Inv, NEW r \in Request, req[r] = Idle,
         NEW q \in RequestType, NEW z, NEW asked \in Seq(Item),
         \/ z = Finish(q, "refused")
         \/ /\ z = q /\ q.phase = "trying" /\ q.n = 1 /\ q.body = NoBody /\ q.output = <<>>
            /\ InConversation(req', r, q)
            /\ q.shape.api = "responses" =>
                 Trimmed(Input(r, q), asked) /\ OwnedBy(req', q.shape.who, asked),
         req' = [req EXCEPT ![r] = z],
         told' = [told EXCEPT ![r] = [told[r] EXCEPT !.asked = asked]],
         UNCHANGED <<rows, log>>, Aside
  PROVE  Inv'
<1> DEFINE t == [told[r] EXCEPT !.asked = asked]
<1>0. /\ rows[r] = NoRow /\ log[r] = <<>> /\ ~told[r].id /\ told[r].until = 0 /\ told[r].said = <<>>
      /\ rows \in [Request -> RowType \cup {NoRow}] /\ log \in [Request -> Seq(Entry)]
      /\ told[r] \in ToldType /\ now \in Nat
  BY ConversationAssumption DEF Inv, IdleInv, Typed
<1>1. /\ t \in ToldType /\ ~t.id /\ t.until = 0 /\ t.said = <<>> /\ t.asked = asked
  BY <1>0 DEF ToldType
<1>2. Goes(r, z, NoRow, <<>>, t)
  <2>1. rows = [rows EXCEPT ![r] = rows[r]] /\ log = [log EXCEPT ![r] = log[r]]
    BY <1>0, Unchanged
  <2>2. rows' = [rows EXCEPT ![r] = NoRow] /\ log' = [log EXCEPT ![r] = <<>>]
    BY <1>0, <2>1
  <2>3. told' = [told EXCEPT ![r] = t]
    OBVIOUS
  <2> HIDE DEF t
  <2> QED
    BY <2>2, <2>3 DEF Goes, Aside
<1> HIDE DEF t
<1>3. SaidBy(r, t.said)
  BY <1>1 DEF SaidBy
<1>4. Len(q.shape.attempts) \in Nat /\ 1 \in DOMAIN q.shape.attempts
  BY Attempts
<1>7. AllFailed(<<>>)
  BY DEF AllFailed
<1>5. CASE z = Finish(q, "refused")
  <2>1. Ended(q, z, "refused")
    BY <1>5, FinishEnds DEF Final
  <2>2. RequestOk(req', r, z, t)
    BY <1>1, <1>3, <2>1, EndedOk DEF Final
  <2>3. LogOk(req', r, z, <<>>, t)
    BY <1>4, <2>1, <1>7, FailuresOnly DEF LogOk, Threaded, Ended
  <2>4. RowOk(req', now, r, z, NoRow, t)
    BY <1>0, <1>1 DEF RowOk
  <2>5. Arrived(r, z, NoRow, <<>>, t)
    BY <1>1, <2>1, <2>2, <2>3, <2>4 DEF Arrived, Ended
  <2> QED
    BY <1>2, <2>5, StepOfOne
<1>6. CASE /\ z = q /\ q.phase = "trying" /\ q.n = 1 /\ q.body = NoBody /\ q.output = <<>>
           /\ InConversation(req', r, q)
           /\ q.shape.api = "responses" =>
                Trimmed(Input(r, q), asked) /\ OwnedBy(req', q.shape.who, asked)
  <2>1. q.shape.api = "responses" => ResponsesOk(req', r, q, t)
    BY <1>1, <1>6 DEF ResponsesOk
  <2>2. RequestOk(req', r, q, t)
    BY <1>1, <1>3, <1>4, <1>6, <2>1 DEF RequestOk, SaidBy
  <2>3. LogOk(req', r, q, <<>>, t)
    BY <1>4, <1>6, <1>7, FailuresOnly DEF LogOk, Threaded
  <2>4. RowOk(req', now, r, q, NoRow, t)
    BY <1>0, <1>1 DEF RowOk
  <2>5. Arrived(r, z, NoRow, <<>>, t)
    BY <1>1, <1>6, <2>2, <2>3, <2>4 DEF Arrived
  <2> QED
    BY <1>2, <2>5, StepOfOne
<1> QED
  BY <1>5, <1>6

\* A chat or an image request arrives.
LEMMA StatelessArrivesStep ==
  ASSUME Inv, NEW r \in Request, NEW shape \in Shapes, NEW api \in {"chat", "images"},
         ArriveStateless(r, shape, api)
  PROVE  Inv'
<1> DEFINE q == [phase |-> "trying", shape |-> shape, prev |-> None, parent |-> NoRow,
                 conversation |-> r, n |-> 1, body |-> NoBody, output |-> <<>>]
           z == IF shape.model THEN q ELSE Finish(q, "refused")
           asked == told[r].asked
<1>1. /\ req[r] = Idle /\ shape.api = api /\ req' = [req EXCEPT ![r] = z]
      /\ UNCHANGED <<now, server, batch, legacy, rows, log, faults, told>>
  BY DEF ArriveStateless
<1>2. q \in RequestType
  <2>1. /\ NoRow \in RowType \cup {NoRow} /\ NoBody \in BodyType /\ 1 \in Nat \ {0}
        /\ <<>> \in Seq(Item) /\ "trying" \in Final \cup Ending \cup Busy /\ None \in Request \cup {None}
    BY DEF BodyType, Busy
  <2> QED
    BY <2>1 DEF RequestType
<1>3. /\ q.phase = "trying" /\ q.n = 1 /\ q.body = NoBody /\ q.output = <<>>
      /\ q.prev = None /\ q.conversation = r /\ q.shape.api # "responses"
  BY <1>1
<1> HIDE DEF q
<1>4. z = q \/ z = Finish(q, "refused")
  OBVIOUS
<1> HIDE DEF z
<1>5. InConversation(req', r, q)
  BY <1>3 DEF InConversation, ConversationOf
<1>6. Aside
  BY <1>1, FaultsBounded DEF Aside, NoFault
<1>7. asked \in Seq(Item) /\ told' = [told EXCEPT ![r] = [told[r] EXCEPT !.asked = asked]]
  <2>1. told \in [Request -> ToldType] /\ told[r] \in ToldType
    BY DEF Inv, Typed
  <2>2. told[r] = [told[r] EXCEPT !.asked = asked] /\ asked \in Seq(Item)
    BY <2>1 DEF ToldType
  <2>3. told = [told EXCEPT ![r] = told[r]]
    BY <2>1, Unchanged
  <2> QED
    BY <1>1, <2>2, <2>3
<1> QED
  BY <1>1, <1>2, <1>3, <1>4, <1>5, <1>6, <1>7, ArriveStep

\* The state a request may continue is what was asked and told there.
LEMMA LoadedFacts ==
  ASSUME Inv, NEW who, NEW prev \in Request, told[prev].id,
         load_response_state(who, prev) # NoRow
  PROVE  LET parent == load_response_state(who, prev)
         IN  /\ parent \in RowType /\ req[prev] # Idle /\ told[prev] \in ToldType
             /\ req[prev].shape.who = who /\ req[prev].conversation = parent.conversation
             /\ parent.response_items = told[prev].said
             /\ Trimmed(parent.request_items, told[prev].asked)
             /\ OwnedBy(req, who, told[prev].asked) /\ SaidBy(prev, told[prev].said)
<1> DEFINE parent == load_response_state(who, prev)
<1>1. parent = rows[prev] /\ rows[prev].who = who /\ rows[prev] # NoRow
  BY DEF load_response_state
<1>2. req[prev] # Idle
  BY DEF Inv, IdleInv
<1>3. /\ told[prev] \in ToldType /\ rows[prev] \in RowType
      /\ RequestOk(req, prev, req[prev], told[prev])
      /\ RowOk(req, now, prev, req[prev], rows[prev], told[prev])
  BY <1>1, <1>2, ServedFacts
<1>4. StoredOk(req, prev, req[prev], rows[prev], told[prev])
  BY <1>1, <1>3 DEF RowOk
<1> HIDE DEF parent
<1>5. /\ req[prev].shape.who = who /\ req[prev].conversation = parent.conversation
      /\ parent.response_items = told[prev].said
      /\ Trimmed(parent.request_items, told[prev].asked)
      /\ OwnedBy(req, who, told[prev].asked)
  BY <1>1, <1>4 DEF StoredOk
<1>6. SaidBy(prev, told[prev].said)
  BY <1>3 DEF RequestOk
<1> QED
  BY <1>1, <1>2, <1>3, <1>5, <1>6 DEF parent

\* Items of two sequences are items of their concatenation, and no others.
LEMMA OwnedTogether ==
  ASSUME NEW all, NEW who, NEW s \in Seq(Item), NEW u \in Seq(Item),
         OwnedBy(all, who, s), OwnedBy(all, who, u)
  PROVE  s \o u \in Seq(Item) /\ OwnedBy(all, who, s \o u)
<1> DEFINE c == s \o u
<1>1. /\ c \in Seq(Item) /\ Len(c) = Len(s) + Len(u) /\ Len(s) \in Nat /\ Len(u) \in Nat
      /\ DOMAIN s = 1 .. Len(s) /\ DOMAIN u = 1 .. Len(u) /\ DOMAIN c = 1 .. Len(c)
      /\ \A i \in 1 .. Len(s) : c[i] = s[i]
      /\ \A i \in 1 .. Len(s) + Len(u) : i > Len(s) => c[i] = u[i - Len(s)]
  OBVIOUS
<1> HIDE DEF c
<1>2. ASSUME NEW i \in DOMAIN c PROVE all[c[i].of] # Idle /\ all[c[i].of].shape.who = who
  <2>1. CASE i <= Len(s)
    <3>1. i \in DOMAIN s /\ c[i] = s[i]
      BY <1>1, <2>1
    <3> QED
      BY <3>1 DEF OwnedBy
  <2>2. CASE ~(i <= Len(s))
    <3>1. i - Len(s) \in DOMAIN u /\ c[i] = u[i - Len(s)]
      BY <1>1, <2>2
    <3> QED
      BY <3>1 DEF OwnedBy
  <2> QED
    BY <2>1, <2>2
<1> QED
  BY <1>1, <1>2 DEF OwnedBy, c

\* A Responses request arrives: what it will send is what was asked and told
\* before it, less the images left out of that, and its own input.
LEMMA ResponsesArrivesStep ==
  ASSUME Inv, NEW r \in Request, NEW shape \in Shapes, NEW prev \in Request \cup {None},
         create_response(r, shape, prev)
  PROVE  Inv'
<1> DEFINE parent == load_response_state(shape.who, prev)
           conversation == IF parent = NoRow THEN r ELSE parent.conversation
           q == [phase |-> "trying", shape |-> shape, prev |-> prev, parent |-> parent,
                 conversation |-> conversation,
                 n |-> 1, body |-> NoBody, output |-> <<>>]
           current == current_input_items(r, shape)
           before == IF prev = None THEN <<>> ELSE told[prev].asked \o told[prev].said
           asked == before \o current
<1>1. /\ req[r] = Idle /\ shape.api = "responses" /\ (prev # None => told[prev].id)
      /\ \/ req' = [req EXCEPT ![r] = q] /\ (prev = None \/ parent # NoRow)
         \/ req' = [req EXCEPT ![r] = Finish(q, "refused")]
      /\ told' = [told EXCEPT ![r].asked = asked]
      /\ Fault \/ NoFault
      /\ UNCHANGED <<now, server, batch, legacy, rows, log>>
  BY DEF create_response
<1>2. Aside
  BY <1>1, FaultsBounded DEF Aside
<1>3. /\ current \in Seq(Item) /\ SaidBy(r, current) /\ current \in Items
      /\ shape \in ShapeType /\ shape.who \in Identity
  BY InputFacts, SaidAreItems
<1>4. /\ rows \in [Request -> RowType \cup {NoRow}] /\ told \in [Request -> ToldType]
      /\ req \in [Request -> RequestType \cup {Idle}]
  BY DEF Inv, Typed
<1>5. parent \in RowType \cup {NoRow}
  BY <1>4 DEF load_response_state
<1>6. conversation \in Request
  <2> HIDE DEF parent
  <2>1. parent \in RowType => parent.conversation \in Request
    BY DEF RowType
  <2> QED
    BY <1>5, <2>1
<1> HIDE DEF parent, current
<1>7. q \in RequestType
  <2>1. /\ NoBody \in BodyType /\ 1 \in Nat \ {0}
        /\ <<>> \in Seq(Item) /\ "trying" \in Final \cup Ending \cup Busy
    BY DEF BodyType, Busy
  <2> HIDE DEF conversation
  <2> QED
    BY <1>5, <1>6, <2>1 DEF RequestType
<1>8. /\ q.phase = "trying" /\ q.n = 1 /\ q.body = NoBody /\ q.output = <<>> /\ q.shape = shape
      /\ q.prev = prev /\ q.conversation = conversation /\ q.parent = parent
  OBVIOUS
<1> HIDE DEF q
<1>9. before \in Seq(Item)
  <2>1. CASE prev = None
    BY <2>1
  <2>2. CASE prev # None
    <3>1. told[prev].asked \in Seq(Item) /\ told[prev].said \in Seq(Item)
      BY <1>4, <2>2, ToldFields
    <3> QED
      BY <2>2, <3>1
  <2> QED
    BY <2>1, <2>2
<1>10. asked \in Seq(Item)
  <2> HIDE DEF before
  <2> QED
    BY <1>3, <1>9
<1>11. told' = [told EXCEPT ![r] = [told[r] EXCEPT !.asked = asked]]
  <2> HIDE DEF asked
  <2> QED
    BY <1>1
<1>12. CASE req' = [req EXCEPT ![r] = Finish(q, "refused")]
  <2> DEFINE z == Finish(q, "refused")
  <2> HIDE DEF asked
  <2> QED
    BY <1>1, <1>2, <1>7, <1>10, <1>11, <1>12, ArriveStep
<1>13. CASE req' = [req EXCEPT ![r] = q] /\ (prev = None \/ parent # NoRow)
  <2>1. req'[r] = q /\ q # Idle /\ \A p \in Request : req[p] # Idle => req'[p] = req[p]
    BY <1>1, <1>4, <1>7, <1>13, RequestFields
  <2>2. OwnedBy(req', shape.who, current)
    BY <1>3, <1>8, <2>1 DEF OwnedBy, SaidBy
  <2>3. /\ Trimmed(Input(r, q), asked) /\ OwnedBy(req', shape.who, asked)
        /\ InConversation(req', r, q)
    <3>1. CASE prev = None
      <4>1. parent = NoRow
        BY <3>1, ConversationAssumption DEF parent, load_response_state, Request, None
      <4>2. asked = current
        <5>1. before = <<>>
          BY <3>1
        <5> HIDE DEF before
        <5> QED
          BY <1>3, <5>1
      <4>3. Input(r, q) = current
        BY <1>8, <4>1 DEF Input, current
      <4>4. InConversation(req', r, q)
        BY <1>8, <3>1, <4>1 DEF InConversation, ConversationOf
      <4> HIDE DEF asked
      <4> QED
        BY <1>3, <2>2, <4>2, <4>3, <4>4, TrimmedWhole
    <3>2. CASE prev # None
      <4> DEFINE a == told[prev].asked
                 s == told[prev].said
      <4>1. prev \in Request /\ told[prev].id /\ parent # NoRow
        BY <1>1, <1>13, <3>2
      <4>2. /\ parent \in RowType /\ req[prev] # Idle /\ told[prev] \in ToldType
            /\ req[prev].shape.who = shape.who /\ req[prev].conversation = parent.conversation
            /\ parent.response_items = s /\ Trimmed(parent.request_items, a)
            /\ OwnedBy(req, shape.who, a) /\ SaidBy(prev, s)
        BY <4>1, LoadedFacts DEF parent
      <4>3. a \in Seq(Item) /\ s \in Seq(Item) /\ a \in Items /\ s \in Items
            /\ \A i \in DOMAIN a : a[i].of \in Request
        BY <4>2, ToldFields, SaidAreItems
      <4>4. before = a \o s
        BY <3>2
      <4> HIDE DEF a, s, before
      <4>5. OwnedBy(req', shape.who, a)
        BY <2>1, <4>2, <4>3 DEF OwnedBy
      <4>6. OwnedBy(req', shape.who, s)
        BY <2>1, <4>1, <4>2 DEF OwnedBy, SaidBy
      <4>7. OwnedBy(req', shape.who, before)
        BY <4>3, <4>4, <4>5, <4>6, OwnedTogether
      <4>8. OwnedBy(req', shape.who, asked)
        BY <1>3, <1>9, <2>2, <4>7, OwnedTogether
      <4>9. Trimmed(parent.request_items \o s, before)
        BY <4>2, <4>3, <4>4, TrimmedContinued
      <4>10. before \in Items
        BY <1>9, SaidAreItems
      <4>11. Trimmed((parent.request_items \o s) \o current, asked)
        BY <1>3, <4>9, <4>10, TrimmedContinued
      <4>12. Input(r, q) = (parent.request_items \o s) \o current
        BY <1>8, <4>1, <4>2 DEF Input, continuation_items, current
      <4>13. InConversation(req', r, q)
        <5>1. conversation = req[prev].conversation
          BY <4>1, <4>2
        <5> QED
          BY <1>8, <2>1, <3>2, <4>1, <4>2, <5>1 DEF InConversation, ConversationOf
      <4> HIDE DEF asked
      <4> QED
        BY <4>8, <4>11, <4>12, <4>13
    <3> QED
      BY <3>1, <3>2
  <2> HIDE DEF asked
  <2> QED
    BY <1>1, <1>2, <1>7, <1>8, <1>10, <1>11, <1>13, <2>3, ArriveStep
<1> QED
  BY <1>1, <1>12, <1>13

-----------------------------------------------------------------------------
(* Starting, stopping and cleaning up.                                       *)

\* Rows go only once they may no longer be continued.
OnlyExpired ==
    \A r \in Request : rows'[r] = rows[r] \/ (rows'[r] = NoRow /\ 2 * told[r].until <= now')

\* Steps that touch no request.
LEMMA GlobalStep ==
  ASSUME Inv, UNCHANGED <<req, log, told>>, now' \in 0 .. MaxNow, now <= now',
         server' \in {"down", "encrypting", "recovering", "cleaning", "up"}, faults' \in 0 .. MaxFaults, LegacyInv',
         rows' \in [Request -> RowType \cup {NoRow}], OnlyExpired
  PROVE  Inv'
<1>1. Typed'
  BY DEF Inv, Typed
<1>2. now \in Nat /\ now' \in Nat /\ now <= now'
  BY ConversationAssumption DEF Inv, Typed
<1>3. Kept(req, req)
  BY DEF Kept
<1>4. ASSUME NEW r \in Request PROVE (IdleInv(r) /\ RequestInv(r))'
  <2>1. rows'[r] = rows[r] \/ (rows'[r] = NoRow /\ 2 * told[r].until <= now')
    BY DEF OnlyExpired
  <2>2. CASE req[r] = Idle
    BY <2>1, <2>2 DEF Inv, IdleInv, RequestInv
  <2>3. CASE req[r] # Idle
    <3>1. /\ req[r] \in RequestType /\ told[r] \in ToldType
          /\ RequestOk(req, r, req[r], told[r]) /\ RowOk(req, now, r, req[r], rows[r], told[r])
          /\ LogOk(req, r, req[r], log[r], told[r])
      BY <2>3, ServedFacts
    <3>2. RowOk(req, now', r, req[r], rows[r], told[r])
      BY <1>2, <1>3, <3>1, OkKept
    <3>3. RowOk(req, now', r, req[r], rows'[r], told[r])
      BY <2>1, <3>2 DEF RowOk
    <3> QED
      BY <2>3, <3>1, <3>3 DEF IdleInv, RequestInv
  <2> QED
    BY <2>2, <2>3
<1> QED
  BY <1>1, <1>4 DEF Inv

\* The same when no row goes.
LEMMA QuietStep ==
  ASSUME Inv, UNCHANGED <<rows, req, log, told, faults>>, now' \in 0 .. MaxNow, now <= now',
         server' \in {"down", "encrypting", "recovering", "cleaning", "up"}, LegacyInv'
  PROVE  Inv'
<1>1. /\ OnlyExpired /\ rows' \in [Request -> RowType \cup {NoRow}]
      /\ faults' \in 0 .. MaxFaults
  BY DEF OnlyExpired, Inv, Typed
<1> QED
  BY <1>1, GlobalStep

\* The clock goes on.
LEMMA TickStep ==
  ASSUME Inv, Tick
  PROVE  Inv'
<1>1. now \in 0 .. MaxNow /\ MaxNow \in Nat /\ now < MaxNow /\ now' = now + 1
  BY ConversationAssumption DEF Inv, Typed, Tick
<1>2. now' \in 0 .. MaxNow /\ now <= now'
  BY <1>1
<1>3. /\ UNCHANGED <<server, batch, legacy, rows, req, log, faults, told>>
      /\ server \in {"down", "encrypting", "recovering", "cleaning", "up"} /\ LegacyInv
  BY DEF Tick, Inv, Typed
<1>4. LegacyInv'
  BY <1>3 DEF LegacyInv, Encrypted
<1> QED
  BY <1>2, <1>3, <1>4, QuietStep

\* Expired states are deleted, at the start or later.
LEMMA CleanupStep ==
  ASSUME Inv, StartupCleanup \/ spawn_response_state_cleanup
  PROVE  Inv'
<1>1. /\ UNCHANGED <<now, batch, legacy, req, log, faults, told>> /\ server' = "up"
      /\ server \in {"cleaning", "up"} /\ delete_expired_response_states
  BY DEF StartupCleanup, spawn_response_state_cleanup
<1>2. LegacyInv'
  BY <1>1 DEF Inv, LegacyInv, Encrypted
<1>3. /\ now \in 0 .. MaxNow /\ now \in Nat /\ now <= now
      /\ rows \in [Request -> RowType \cup {NoRow}]
  BY ConversationAssumption DEF Inv, Typed
<1>4. rows' \in [Request -> RowType \cup {NoRow}]
  BY <1>1, <1>3 DEF delete_expired_response_states
<1>5. ASSUME NEW r \in Request
      PROVE  rows'[r] = rows[r] \/ (rows'[r] = NoRow /\ 2 * told[r].until <= now)
  <2>1. CASE rows[r] # NoRow /\ rows[r].expires < Sec(now)
    <3>1. rows'[r] = NoRow
      BY <1>1, <2>1 DEF delete_expired_response_states
    <3>2. req[r] # Idle
      BY <2>1 DEF Inv, IdleInv
    <3>3. RowOk(req, now, r, req[r], rows[r], told[r]) /\ told[r] \in ToldType
      BY <3>2, ServedFacts
    <3>4. rows[r].expires = told[r].until /\ told[r].until \in Nat
      BY <2>1, <3>3, ToldFields DEF RowOk, StoredOk
    <3>5. told[r].until < now \div 2
      BY <2>1, <3>4 DEF Sec
    <3>6. 2 * told[r].until <= now
      BY <1>3, <3>4, <3>5
    <3> QED
      BY <3>1, <3>6
  <2>2. CASE ~(rows[r] # NoRow /\ rows[r].expires < Sec(now))
    BY <1>1, <2>2 DEF delete_expired_response_states
  <2> QED
    BY <2>1, <2>2
<1>6. OnlyExpired
  BY <1>1, <1>5 DEF OnlyExpired
<1>7. faults' \in 0 .. MaxFaults
  BY <1>1 DEF Inv, Typed
<1> QED
  BY <1>1, <1>2, <1>3, <1>4, <1>6, <1>7, GlobalStep

\* The startup begins.
LEMMA StartStep ==
  ASSUME Inv, Start
  PROVE  Inv'
<1>1. /\ server' = "encrypting" /\ batch' = [offset |-> 0, rows |-> <<>>]
      /\ UNCHANGED <<now, legacy, rows, req, log, faults, told>>
  BY DEF Start
<1>2. now \in 0 .. MaxNow /\ now <= now /\ LegacyInv
  BY ConversationAssumption DEF Inv, Typed
<1>3. /\ batch'.offset = 0 /\ batch'.rows = <<>> /\ DOMAIN batch' = {"offset", "rows"}
  BY <1>1
<1>4. LegacyInv'
  <2>1. Len(LegacyRows) \in Nat /\ 0 \in 0 .. Len(LegacyRows) /\ 1 .. 0 = {}
    BY LegacyAssumption
  <2> QED
    BY <1>1, <1>2, <1>3, <2>1 DEF LegacyInv, Encrypted
<1> QED
  BY <1>1, <1>2, <1>4, QuietStep

\* The next batch is read, and the last row is followed by none.
LEMMA BatchStep ==
  ASSUME Inv, encrypt_legacy_response_sessions
  PROVE  Inv'
<1> DEFINE n == Len(LegacyRows)
           at == batch.offset
           end == IF at + LegacyBatch < n THEN at + LegacyBatch ELSE n
           read == [i \in 1 .. end - at |-> at + i]
<1>1. /\ server = "encrypting" /\ batch.rows = <<>>
      /\ batch' = [offset |-> end, rows |-> read]
      /\ server' = IF end = at THEN "recovering" ELSE server
      /\ UNCHANGED <<now, legacy, rows, req, log, faults, told>>
  BY DEF encrypt_legacy_response_sessions
<1>2. /\ now \in 0 .. MaxNow /\ now <= now /\ LegacyInv
      /\ n \in Nat /\ LegacyBatch \in Nat \ {0} /\ DOMAIN LegacyRows = 1 .. n
  BY ConversationAssumption, LegacyAssumption DEF Inv, Typed
<1>3. at \in 0 .. n /\ end \in 0 .. n /\ at <= end /\ (end = at => at = n)
  BY <1>2 DEF LegacyInv
<1> HIDE DEF n, at, end
<1>4. read \in [1 .. end - at -> 1 .. n] /\ end - at \in Nat
  BY <1>2, <1>3
<1>5. read \in Seq(1 .. n) /\ DOMAIN read = 1 .. end - at
  <2> DEFINE m == end - at
             Rows == 1 .. n
  <2>1. m \in Nat /\ read \in [1 .. m -> Rows]
    BY <1>4
  <2> HIDE DEF read, m, Rows
  <2>2. read \in Seq(Rows) /\ DOMAIN read = 1 .. m
    BY <2>1
  <2> QED
    BY <2>2 DEF m, Rows
<1>6. \A i \in 1 .. at : Encrypted(i)
  BY <1>1, <1>2 DEF LegacyInv, at
<1>7. ASSUME NEW i \in 1 .. end, ~(i \in 1 .. at) PROVE \E j \in DOMAIN read : read[j] = i
  <2>1. i - at \in 1 .. end - at /\ read[i - at] = i
    BY <1>2, <1>3, <1>7
  <2> QED
    BY <1>5, <2>1
<1> HIDE DEF read
<1>8. batch'.offset = end /\ batch'.rows = read /\ DOMAIN batch' = {"offset", "rows"}
  BY <1>1
<1>9. \A i : Encrypted(i)' <=> Encrypted(i)
  BY <1>1 DEF Encrypted
<1>10. \A i \in 1 .. batch'.offset :
         Encrypted(i)' \/ \E j \in DOMAIN batch'.rows : batch'.rows[j] = i
  BY <1>6, <1>7, <1>8, <1>9
<1>11. server' \in {"recovering", "cleaning", "up"} => \A i \in DOMAIN LegacyRows : Encrypted(i)'
  BY <1>1, <1>2, <1>3, <1>6, <1>9
<1>12. server' \in {"down", "encrypting", "recovering", "cleaning", "up"}
  BY <1>1
<1>13. LegacyInv'
  BY <1>1, <1>2, <1>3, <1>5, <1>8, <1>10, <1>11 DEF LegacyInv, n
<1> QED
  BY <1>1, <1>2, <1>12, <1>13, QuietStep

\* A row of the batch is encrypted, where it is not yet.
LEMMA EncryptStep ==
  ASSUME Inv, EncryptLegacyRow
  PROVE  Inv'
<1> DEFINE h == Head(batch.rows)
           before == legacy[h]
           after == [column \in DOMAIN before |-> encrypt_legacy_value(before[column])]
           rest == Tail(batch.rows)
<1>1. /\ server = "encrypting" /\ batch.rows # <<>>
      /\ legacy' = [legacy EXCEPT ![h] = after]
      /\ batch' = [batch EXCEPT !.rows = rest]
      /\ UNCHANGED <<now, server, rows, req, log, faults, told>>
  BY DEF EncryptLegacyRow
<1>2. /\ now \in 0 .. MaxNow /\ now <= now /\ LegacyInv
      /\ Len(LegacyRows) \in Nat /\ DOMAIN LegacyRows = 1 .. Len(LegacyRows)
  BY ConversationAssumption, LegacyAssumption DEF Inv, Typed
<1>3. /\ batch.rows \in Seq(DOMAIN LegacyRows) /\ DOMAIN batch = {"offset", "rows"}
      /\ DOMAIN legacy = DOMAIN LegacyRows
      /\ \A i \in DOMAIN LegacyRows : \A column \in DOMAIN legacy[i] : legacy[i][column] \in -1 .. 1
      /\ \A i \in 1 .. batch.offset :
           Encrypted(i) \/ \E j \in DOMAIN batch.rows : batch.rows[j] = i
  BY <1>1, <1>2 DEF LegacyInv
<1>4. /\ h \in DOMAIN LegacyRows /\ rest \in Seq(DOMAIN LegacyRows)
      /\ \A j \in DOMAIN batch.rows : batch.rows[j] = h \/ \E k \in DOMAIN rest : rest[k] = batch.rows[j]
  <2> DEFINE s == batch.rows
  <2>1. /\ Len(s) \in Nat \ {0} /\ DOMAIN s = 1 .. Len(s) /\ h = s[1] /\ h \in DOMAIN LegacyRows
        /\ rest \in Seq(DOMAIN LegacyRows) /\ DOMAIN rest = 1 .. Len(s) - 1
        /\ \A k \in 1 .. Len(s) - 1 : rest[k] = s[k + 1]
    BY <1>1, <1>3
  <2> HIDE DEF h, rest, s
  <2>2. ASSUME NEW j \in DOMAIN s PROVE s[j] = h \/ \E k \in DOMAIN rest : rest[k] = s[j]
    <3>1. CASE j = 1
      BY <2>1, <3>1
    <3>2. CASE j # 1
      <4>1. j - 1 \in DOMAIN rest /\ rest[j - 1] = s[j]
        BY <2>1, <3>2
      <4> QED
        BY <4>1
    <3> QED
      BY <3>1, <3>2
  <2> QED
    BY <2>1, <2>2 DEF s
<1> HIDE DEF h, rest
<1>5. \A column \in DOMAIN after : after[column] \in -1 .. 1 /\ after[column] # 0
  BY <1>3, <1>4 DEF encrypt_legacy_value
<1> HIDE DEF after
<1>6. /\ DOMAIN legacy' = DOMAIN LegacyRows /\ legacy'[h] = after
      /\ \A i \in DOMAIN LegacyRows : i # h => legacy'[i] = legacy[i]
  BY <1>1, <1>3, <1>4
<1>7. \A i \in DOMAIN LegacyRows : i = h \/ Encrypted(i) => Encrypted(i)'
  BY <1>5, <1>6 DEF Encrypted
<1>8. batch'.offset = batch.offset /\ batch'.rows = rest /\ DOMAIN batch' = {"offset", "rows"}
  BY <1>1, <1>3
<1>9. batch.offset \in 0 .. Len(LegacyRows) /\ 1 .. batch.offset \subseteq DOMAIN LegacyRows
  BY <1>2 DEF LegacyInv
<1>10. ASSUME NEW i \in 1 .. batch.offset
       PROVE  Encrypted(i)' \/ \E k \in DOMAIN rest : rest[k] = i
  <2>1. CASE Encrypted(i)
    BY <1>7, <1>9, <2>1
  <2>2. CASE ~Encrypted(i)
    <3>1. PICK j \in DOMAIN batch.rows : batch.rows[j] = i
      BY <1>3, <2>2
    <3> QED
      BY <1>4, <1>7, <1>9, <3>1
  <2> QED
    BY <2>1, <2>2
<1>11. \A i \in DOMAIN LegacyRows : \A column \in DOMAIN legacy'[i] : legacy'[i][column] \in -1 .. 1
  BY <1>3, <1>5, <1>6
<1>12. LegacyInv'
  BY <1>1, <1>4, <1>6, <1>8, <1>9, <1>10, <1>11 DEF LegacyInv
<1>13. server' \in {"down", "encrypting", "recovering", "cleaning", "up"}
  BY <1>1
<1> QED
  BY <1>1, <1>2, <1>12, <1>13, QuietStep

\* While the server does not serve, no request is being served.
AtRest == server # "up" => \A r \in Request : req[r] = Idle \/ req[r].phase \in Final

\* The recovery settles the activity of a stream that was cut off.
LEMMA RecoverStep ==
  ASSUME Inv, AtRest, NEW r \in Request, recover_rollout_status(r)
  PROVE  Inv'
<1> DEFINE q == req[r]
           l == log[r]
           t == told[r]
           w == rows[r]
           m == Marked(l, "failed", FALSE)
<1>1. /\ server = "recovering" /\ Unsettled(r) # {}
      /\ log' = [log EXCEPT ![r] = m]
      /\ UNCHANGED <<now, server, batch, legacy, rows, req, faults, told>>
  BY DEF recover_rollout_status, SetActivity, Marked
<1>2. l # <<>>
  BY <1>1 DEF Unsettled
<1>3. q # Idle
  BY <1>2 DEF Inv, IdleInv
<1>4. /\ q \in RequestType /\ t \in ToldType /\ l \in Seq(Entry) /\ w \in RowType \cup {NoRow}
      /\ RequestOk(req, r, q, t) /\ RowOk(req, now, r, q, w, t) /\ LogOk(req, r, q, l, t)
      /\ req = [req EXCEPT ![r] = q] /\ told = [told EXCEPT ![r] = t] /\ rows = [rows EXCEPT ![r] = w]
  BY <1>3, ServedFacts, Unchanged
<1>5. q.phase \in Final
  BY <1>1, <1>3 DEF AtRest
<1>6. faults' \in 0 .. MaxFaults
  BY <1>1 DEF Inv, Typed
<1>7. Goes(r, q, w, m, t)
  <2> HIDE DEF m
  <2> QED
    BY <1>1, <1>4, <1>6 DEF Goes
<1>8. /\ Rewritten(l, m) /\ Len(l) \in DOMAIN l
      /\ \A i \in DOMAIN l : l[i].writing => m[i].status = "failed" /\ ~m[i].writing
  <2>1. Len(l) \in DOMAIN l
    BY <1>2, <1>4
  <2> QED
    BY <1>4, <2>1, MarkedFacts
<1> HIDE DEF q, l, t, w, m
<1>9. /\ Earlier(l) /\ Threaded(req, r, q, l) /\ Len(l) <= Len(q.shape.attempts)
      /\ StreamOk(q.phase, l, t)
      /\ q.phase \notin {"trying", "waiting", "recording"}
  BY <1>4, <1>5 DEF LogOk, Final
<1>10. Earlier(m) /\ Threaded(req, r, q, m) /\ Len(m) <= Len(q.shape.attempts)
  <2>1. Earlier(m) /\ Len(m) <= Len(q.shape.attempts)
    BY <1>8, <1>9 DEF Earlier, FailedEntry, Rewritten
  <2> QED
    BY <1>2, <1>8, <1>9, <2>1 DEF Threaded, Rewritten
<1>11. ASSUME q.phase = "refused" PROVE AllFailed(m)
  BY <1>4, <1>8, <1>11 DEF LogOk, AllFailed, FailedEntry, Rewritten
<1>12. ASSUME q.phase = "answered", q.shape.api # "images" PROVE EndsWith(m, "success")
  <2>1. EndsWith(l, "success") /\ ~l[Len(l)].writing
    BY <1>4, <1>8, <1>9, <1>12 DEF LogOk, StreamOk
  <2>2. m[Len(m)].status = "success" /\ Len(m) \in DOMAIN m
    BY <1>8, <2>1 DEF Rewritten, EndsWith
  <2> QED
    BY <2>2 DEF EndsWith
<1>13. StreamOk(q.phase, m, t)
  <2>1. \A i \in DOMAIN m : m[i].status = "success" => l[i].status = "success" /\ i \in DOMAIN l
    BY <1>8 DEF Rewritten
  <2>2. q.phase = "answered" => \A i \in DOMAIN m : ~m[i].writing
    BY <1>8 DEF Rewritten
  <2>3. ASSUME q.phase = "settled", ~t.mishap PROVE EndsWith(m, Verdict(t)) /\ ~m[Len(m)].writing
    <3>1. EndsWith(l, Verdict(t)) /\ ~l[Len(l)].writing
      BY <1>9, <2>3 DEF StreamOk
    <3>2. m[Len(m)].status = Verdict(t) /\ ~m[Len(m)].writing /\ Len(m) \in DOMAIN m
      BY <1>8, <3>1 DEF Rewritten, EndsWith
    <3> QED
      BY <3>2 DEF EndsWith
  <2>4. \A i \in DOMAIN m : m[i].status = "success" => q.phase = "answered" \/ t.end = "completion"
    BY <1>9, <2>1 DEF StreamOk
  <2> QED
    BY <1>5, <2>2, <2>3, <2>4 DEF StreamOk, Final
<1>14. LogOk(req, r, q, m, t)
  BY <1>9, <1>10, <1>11, <1>12, <1>13 DEF LogOk
<1>15. Allowed(r, q, w, m, t)
  BY <1>4, <1>8, <1>14 DEF Allowed, Rewritten, q
<1> QED
  BY <1>7, <1>15, RequestStep

\* The recovery ends, with everything settled or not.
LEMMA RecoveryEndsStep ==
  ASSUME Inv, RecoveryEnds
  PROVE  Inv'
<1>1. /\ server = "recovering" /\ server' = "cleaning" /\ (Fault \/ NoFault)
      /\ UNCHANGED <<now, batch, legacy, rows, req, log, told>>
  BY DEF RecoveryEnds
<1>2. LegacyInv'
  BY <1>1 DEF Inv, LegacyInv, Encrypted
<1>3. /\ now \in 0 .. MaxNow /\ now <= now /\ rows \in [Request -> RowType \cup {NoRow}]
  BY ConversationAssumption DEF Inv, Typed
<1>4. OnlyExpired /\ faults' \in 0 .. MaxFaults
  BY <1>1, FaultsBounded DEF OnlyExpired
<1> QED
  BY <1>1, <1>2, <1>3, <1>4, GlobalStep

\* A crash ends every open request, and changes nothing for the others; what
\* is stored or recorded stays.
LEMMA CrashStep ==
  ASSUME Inv, Crash
  PROVE  Inv' /\ AtRest'
<1>1. /\ server' = "down" /\ UNCHANGED <<now, batch, legacy, rows, log, told>> /\ Fault
      /\ req' = [r \in Request |-> IF Open(r) THEN Finish(req[r], "lost") ELSE req[r]]
  BY DEF Crash
<1>2. /\ Typed /\ LegacyInv /\ now \in Nat /\ now <= now
      /\ req \in [Request -> RequestType \cup {Idle}] /\ log \in [Request -> Seq(Entry)]
      /\ told \in [Request -> ToldType] /\ rows \in [Request -> RowType \cup {NoRow}]
  BY ConversationAssumption DEF Inv, Typed
<1>3. LegacyInv'
  BY <1>1, <1>2 DEF LegacyInv, Encrypted
<1>4. /\ \A r \in Request : req[r] = Idle => req'[r] = Idle
      /\ \A r \in Request : req[r] # Idle =>
           req'[r] = IF req[r].phase \in Final THEN req[r] ELSE Finish(req[r], "lost")
  BY <1>1 DEF Open
<1>5. ASSUME NEW r \in Request, req[r] # Idle, req[r].phase \notin Final
      PROVE  Ended(req[r], req'[r], "lost")
  <2>1. req[r] \in RequestType
    BY <1>2, <1>5
  <2> QED
    BY <1>4, <1>5, <2>1, FinishEnds DEF Final
<1>6. \A r \in Request : req'[r] \in RequestType \cup {Idle}
  BY <1>2, <1>4, <1>5 DEF Ended
<1>7. AtRest'
  <2>1. ASSUME NEW r \in Request PROVE req'[r] = Idle \/ req'[r].phase \in Final
    <3>1. CASE req[r] = Idle
      BY <1>4, <3>1
    <3>2. CASE req[r] # Idle /\ req[r].phase \in Final
      BY <1>4, <3>2
    <3>3. CASE req[r] # Idle /\ req[r].phase \notin Final
      BY <1>5, <3>3 DEF Ended, Final
    <3> QED
      BY <3>1, <3>2, <3>3
  <2> QED
    BY <2>1 DEF AtRest
<1>8. Typed'
  <2>1. req' \in [Request -> RequestType \cup {Idle}]
    BY <1>1, <1>6
  <2>2. faults' \in 0 .. MaxFaults
    BY <1>1, FaultsBounded
  <2> QED
    BY <1>1, <1>2, <2>1, <2>2 DEF Typed
<1>9. Kept(req, req')
  <2>1. ASSUME NEW p \in Request, req[p] # Idle
        PROVE  /\ req'[p] # Idle
               /\ req'[p].shape = req[p].shape /\ req'[p].conversation = req[p].conversation
    <3>1. CASE req[p].phase \in Final
      BY <1>4, <2>1, <3>1
    <3>2. CASE req[p].phase \notin Final
      BY <1>5, <2>1, <3>2, RequestFields DEF Ended
    <3> QED
      BY <3>1, <3>2
  <2> QED
    BY <2>1 DEF Kept
<1>10. ASSUME NEW r \in Request PROVE (IdleInv(r) /\ RequestInv(r))'
  <2> DEFINE q == req[r]
             z == req'[r]
             t == told[r]
             w == rows[r]
             l == log[r]
  <2>0. log'[r] = l /\ told'[r] = t /\ rows'[r] = w /\ now' = now
    BY <1>1
  <2>1. CASE q = Idle
    BY <1>4, <2>0, <2>1 DEF Inv, IdleInv, RequestInv
  <2>2. CASE q # Idle
    <3>1. /\ q \in RequestType /\ t \in ToldType /\ l \in Seq(Entry)
          /\ RequestOk(req, r, q, t) /\ RowOk(req, now, r, q, w, t) /\ LogOk(req, r, q, l, t)
      BY <2>2, ServedFacts
    <3>2. z = q \/ (Ended(q, z, "lost") /\ q.phase \notin Final)
      BY <1>4, <1>5, <2>2
    <3> HIDE DEF q, z, t, w, l
    <3>4. z \in RequestType /\ z.shape = q.shape /\ z.prev = q.prev /\ z.conversation = q.conversation
      BY <3>1, <3>2 DEF Ended
    <3>5. RequestOk(req, r, z, t)
      <4>1. SaidBy(r, t.said)
        BY <3>1 DEF RequestOk
      <4> QED
        BY <3>1, <3>2, <4>1, EndedOk DEF Final
    <3>6. RowOk(req, now, r, z, w, t)
      <4>1. CASE z = q
        BY <3>1, <4>1
      <4>2. CASE Ended(q, z, "lost") /\ q.phase \notin Final
        <5>1. ASSUME w # NoRow PROVE StoredOk(req, r, z, w, t)
          <6>1. StoredOk(req, r, q, w, t)
            BY <3>1, <5>1 DEF RowOk
          <6>2. InConversation(req, r, z)
            BY <3>4, <6>1 DEF StoredOk, InConversation, ConversationOf
          <6>3. z.phase = "lost"
            BY <4>2 DEF Ended
          <6> QED
            BY <3>4, <6>1, <6>2, <6>3 DEF StoredOk, Final
        <5> QED
          BY <3>1, <5>1 DEF RowOk
      <4> QED
        BY <3>2, <4>1, <4>2
    <3>9. LogOk(req, r, z, l, t)
      <4>1. CASE Ended(q, z, "lost") /\ q.phase \notin Final
        <5>1. z.phase = "lost" /\ q.phase # "answered"
          BY <4>1 DEF Ended, Final
        <5>2. /\ Len(l) <= Len(z.shape.attempts) /\ Earlier(l) /\ StreamOk(q.phase, l, t)
              /\ Threaded(req, r, q, l)
          BY <3>1, <3>4 DEF LogOk
        <5>3. Threaded(req, r, z, l)
          BY <3>4, <5>2 DEF Threaded, ThreadOf, InConversation, ConversationOf
        <5>4. StreamOk("lost", l, t)
          BY <5>1, <5>2 DEF StreamOk
        <5> QED
          BY <5>1, <5>2, <5>3, <5>4 DEF LogOk
      <4>2. CASE z = q
        BY <3>1, <4>2
      <4> QED
        BY <3>2, <4>1, <4>2
    <3>10. /\ RequestOk(req', r, z, t) /\ RowOk(req', now, r, z, w, t) /\ LogOk(req', r, z, l, t)
      BY <1>2, <1>9, <3>1, <3>4, <3>5, <3>6, <3>9, OkKept
    <3>11. z # Idle
      BY <3>4, RequestFields
    <3> QED
      BY <2>0, <3>10, <3>11 DEF IdleInv, RequestInv, z
  <2> QED
    BY <2>1, <2>2
<1> QED
  BY <1>3, <1>7, <1>8, <1>10 DEF Inv

\* A request is served only while the server is up, and does not change that.
LEMMA ServedWhileUp ==
  ASSUME NEW r \in Request, Serve(r)
  PROVE  req[r] # Idle /\ req[r].phase \notin Final /\ server' = server
<1>0. req[r] # Idle
  BY DEF Serve
<1>1. CASE \/ create_response_with_candidate(r) \/ create_chat_completion_with_candidate(r)
           \/ create_image_generation_with_candidate(r)
  BY <1>0, <1>1 DEF create_response_with_candidate, create_chat_completion_with_candidate,
     create_image_generation_with_candidate, Final
<1>2. CASE \/ NativeAttemptFails(r) \/ BridgedAttemptFails(r) \/ ChatAttemptFails(r)
           \/ ImageAttemptFails(r) \/ ImageHeadFails(r)
           \/ NativeStatusFails(r) \/ BridgedStatusFails(r) \/ ChatStatusFails(r)
  BY <1>0, <1>2 DEF NativeAttemptFails, BridgedAttemptFails, ChatAttemptFails, ImageAttemptFails,
     ImageHeadFails, NativeStatusFails, BridgedStatusFails, ChatStatusFails, Waiting,
     record_upstream_failure, record_upstream_status, FailUnrecorded, Final
<1>3. CASE \/ NativeAnswers(r) \/ BridgedAnswers(r) \/ ChatAnswers(r) \/ ImageAnswers(r)
           \/ RecordNative(r) \/ RecordBridged(r)
  BY <1>0, <1>3 DEF NativeAnswers, BridgedAnswers, ChatAnswers, ImageAnswers, RecordNative,
     RecordBridged, RecordAnswer, SaveAnswer, record_upstream_failure, Waiting, Final
<1>4. CASE \/ OpenNativeStream(r) \/ OpenBridgedStream(r) \/ OpenChatStream(r) \/ OpenImageStream(r)
  BY <1>0, <1>4 DEF OpenNativeStream, OpenBridgedStream, OpenChatStream, OpenImageStream,
     OpenStream, Waiting, Final
<1>5. CASE \E kinds \in {reply.output : reply \in NativeReplies}, seen \in BOOLEAN :
             StreamCompletes(r, kinds, seen)
  <2>1. PICK kinds, seen : StreamCompletes(r, kinds, seen)
    BY <1>5
  <2>2. [req[r] EXCEPT !.output = OutputItems(r, kinds)].phase = "streaming" /\ server' = server
    BY <2>1 DEF StreamCompletes
  <2>3. req[r].phase = "streaming"
    BY <2>2
  <2> QED
    BY <1>0, <2>2, <2>3 DEF Final
<1>6. CASE \/ StreamBreaks(r) \/ update_stream_log(r) \/ finalize_rollout(r)
           \/ mark_rollout_incomplete(r) \/ complete_stream(r)
  BY <1>0, <1>6 DEF StreamBreaks, update_stream_log, finalize_rollout, mark_rollout_incomplete,
     complete_stream, Final
<1> QED
  BY <1>1, <1>2, <1>3, <1>4, <1>5, <1>6 DEF Serve

-----------------------------------------------------------------------------
(* The invariant holds.                                                      *)

\* It holds at first.
LEMMA InitInv ==
  ASSUME Init
  PROVE  Inv /\ AtRest
<1>1. Typed
  <2> DEFINE t == [id |-> FALSE, asked |-> <<>>, said |-> <<>>, until |-> 0,
                   end |-> "-", mishap |-> FALSE]
  <2>1. t \in ToldType /\ <<>> \in Seq(Entry)
    BY DEF ToldType
  <2>2. now \in 0 .. MaxNow /\ faults \in 0 .. MaxFaults /\ server = "down"
    BY ConversationAssumption DEF Init
  <2>3. /\ rows = [r \in Request |-> NoRow] /\ req = [r \in Request |-> Idle]
        /\ log = [r \in Request |-> <<>>] /\ told = [r \in Request |-> t]
    BY DEF Init
  <2> HIDE DEF t
  <2> QED
    BY <2>1, <2>2, <2>3 DEF Typed
<1>2. LegacyInv
  <2>1. batch.offset = 0 /\ batch.rows = <<>> /\ DOMAIN batch = {"offset", "rows"}
    BY DEF Init
  <2>2. legacy = LegacyRows /\ server = "down"
    BY DEF Init
  <2> QED
    BY <2>1, <2>2, LegacyAssumption DEF LegacyInv
<1>3. ASSUME NEW r \in Request PROVE IdleInv(r) /\ RequestInv(r)
  <2>1. /\ rows[r] = NoRow /\ req[r] = Idle /\ log[r] = <<>>
        /\ told[r] = [id |-> FALSE, asked |-> <<>>, said |-> <<>>, until |-> 0,
                      end |-> "-", mishap |-> FALSE]
    BY DEF Init
  <2> QED
    BY <2>1 DEF IdleInv, RequestInv
<1>4. AtRest
  BY DEF AtRest, Init
<1> QED
  BY <1>1, <1>2, <1>3, <1>4 DEF Inv

\* Every step keeps it.
LEMMA NextInv ==
  ASSUME Inv, AtRest, [Next]_vars
  PROVE  Inv' /\ AtRest'
<1>1. ASSUME NEW r \in Request, NEW shape \in Shapes, NEW prev \in Request \cup {None},
             create_response(r, shape, prev)
      PROVE  Inv' /\ AtRest'
  BY <1>1, ResponsesArrivesStep DEF AtRest, create_response
<1>2. ASSUME NEW r \in Request, NEW shape \in Shapes,
             create_chat_completion(r, shape) \/ create_image_generation(r, shape)
      PROVE  Inv' /\ AtRest'
  <2>1. server' = "up"
    BY <1>2 DEF create_chat_completion, create_image_generation, ArriveStateless
  <2> QED
    BY <1>2, <2>1, StatelessArrivesStep DEF AtRest, create_chat_completion, create_image_generation
<1>3. ASSUME NEW r \in Request, Serve(r) PROVE Inv' /\ AtRest'
  <2>1. server = "up" /\ server' = "up"
    BY <1>3, ServedWhileUp DEF AtRest
  <2> QED
    BY <1>3, <2>1, ServeStep DEF AtRest
<1>4. CASE Start \/ encrypt_legacy_response_sessions \/ EncryptLegacyRow
  <2>1. Inv'
    BY <1>4, StartStep, BatchStep, EncryptStep
  <2>2. server # "up" /\ UNCHANGED req
    BY <1>4 DEF Start, encrypt_legacy_response_sessions, EncryptLegacyRow
  <2> QED
    BY <2>1, <2>2 DEF AtRest
<1>5. ASSUME NEW r \in Request, recover_rollout_status(r) PROVE Inv' /\ AtRest'
  <2>1. UNCHANGED <<server, req>>
    BY <1>5 DEF recover_rollout_status
  <2> QED
    BY <1>5, <2>1, RecoverStep DEF AtRest
<1>6. CASE RecoveryEnds
  <2>1. server # "up" /\ UNCHANGED req
    BY <1>6 DEF RecoveryEnds
  <2> QED
    BY <1>6, <2>1, RecoveryEndsStep DEF AtRest
<1>7. CASE StartupCleanup \/ spawn_response_state_cleanup
  <2>1. server' = "up"
    BY <1>7 DEF StartupCleanup, spawn_response_state_cleanup
  <2> QED
    BY <1>7, <2>1, CleanupStep DEF AtRest
<1>8. CASE Tick
  <2>1. UNCHANGED <<server, req>>
    BY <1>8 DEF Tick
  <2> QED
    BY <1>8, <2>1, TickStep DEF AtRest
<1>9. CASE Crash
  BY <1>9, CrashStep
<1>10. CASE UNCHANGED vars
  <2>1. UNCHANGED <<now, server, batch, legacy, rows, req, log, faults, told>>
    BY <1>10 DEF vars
  <2>2. LegacyInv'
    BY <2>1 DEF Inv, LegacyInv, Encrypted
  <2>3. now' \in 0 .. MaxNow /\ now <= now' /\ server' \in {"down", "encrypting", "recovering", "cleaning", "up"}
    BY <2>1, ConversationAssumption DEF Inv, Typed
  <2>4. Inv'
    BY <2>1, <2>2, <2>3, QuietStep
  <2> QED
    BY <2>1, <2>4 DEF AtRest
<1> QED
  BY <1>1, <1>2, <1>3, <1>4, <1>5, <1>6, <1>7, <1>8, <1>9, <1>10 DEF Next, Recover

\* The inductive invariant holds whatever requests, faults and crashes come
\* in whatever order.
THEOREM ConversationInvariant == Spec => []Inv
<1>1. Init => Inv /\ AtRest
  BY InitInv
<1>2. Inv /\ AtRest /\ [Next]_vars => Inv' /\ AtRest'
  BY NextInv
<1> QED
  BY <1>1, <1>2, PTL DEF Spec

-----------------------------------------------------------------------------
(* What the invariant says of the properties.                                *)

\* Every value of the state has its type: Conversation's TypeOK.
THEOREM TypeCorrect == Spec => []TypeOK
<1>1. ASSUME Inv PROVE TypeOK
  <2>1. /\ now \in 0 .. MaxNow /\ faults \in 0 .. MaxFaults
        /\ server \in {"down", "encrypting", "recovering", "cleaning", "up"}
        /\ batch.offset \in 0 .. Len(LegacyRows) /\ batch.rows \in Seq(DOMAIN LegacyRows)
    BY <1>1 DEF Inv, Typed, LegacyInv
  <2>2. ASSUME NEW i \in DOMAIN LegacyRows, NEW column \in DOMAIN legacy[i]
        PROVE  legacy[i][column] \in -1 .. 2
    <3>1. legacy[i][column] \in -1 .. 1
      BY <1>1, <2>2 DEF Inv, LegacyInv
    <3> QED
      BY <3>1
  <2>3. ASSUME NEW r \in Request
        PROVE  rows[r] = NoRow \/ /\ rows[r].who \in Identity /\ rows[r].prev \in Request \cup {None}
                                  /\ rows[r].conversation \in Request /\ rows[r].expires \in Nat
                                  /\ rows[r].request_items \in Items /\ rows[r].response_items \in Items
    <3>1. rows[r] \in RowType \cup {NoRow}
      BY <1>1 DEF Inv, Typed
    <3>2. ASSUME NEW w \in RowType
          PROVE  /\ w.who \in Identity /\ w.prev \in Request \cup {None}
                 /\ w.conversation \in Request /\ w.expires \in Nat
                 /\ w.request_items \in Items /\ w.response_items \in Items
      BY SaidAreItems DEF RowType
    <3> QED
      BY <3>1, <3>2
  <2>4. ASSUME NEW r \in Request
        PROVE  req[r] = Idle \/ /\ req[r].shape \in Shapes /\ req[r].prev \in Request \cup {None}
                                /\ req[r].phase \in Final \cup {"trying", "waiting", "recording", "streaming",
                                       "completed", "broken", "finalizing", "incomplete", "closing"}
                                /\ req[r].n \in DOMAIN req[r].shape.attempts
                                /\ req[r].output \in Items
    <3>1. CASE req[r] # Idle
      <4>1. req[r] \in RequestType /\ RequestOk(req, r, req[r], told[r])
        BY <1>1, <3>1, ServedFacts
      <4> QED
        BY <4>1, RequestFields, SaidAreItems DEF RequestOk, Busy, Ending
    <3> QED
      BY <3>1
  <2>5. ASSUME NEW r \in Request, NEW i \in DOMAIN log[r]
        PROVE  /\ log[r][i].status \in {"streaming", "success", "failed"}
               /\ log[r][i].writing \in BOOLEAN
    <3>1. log[r] \in Seq(Entry)
      BY <1>1 DEF Inv, Typed
    <3>2. log[r][i] \in Entry
      BY <3>1
    <3> QED
      BY <3>2 DEF Entry
  <2> QED
    BY <2>1, <2>2, <2>3, <2>4, <2>5 DEF TypeOK
<1> QED
  BY <1>1, ConversationInvariant, PTL

\* Whatever budget, whatever expires and whatever was trimmed on the way: an
\* upstream is sent the whole conversation, with no more images left out than
\* the budget demands, and nothing of another identity.
THEOREM SentIsTheWholeConversation == Spec => []SentIsTheConversation
<1>1. ASSUME Inv PROVE SentIsTheConversation
  <2> SUFFICES ASSUME NEW r \in Request, req[r] # Idle, req[r].shape.api = "responses",
                      req[r].body # NoBody
               PROVE  LET items == req[r].body.items
                          asked == told[r].asked
                          kept(k) == Cardinality(ImagesFrom(asked, k))
                      IN  /\ \E k \in 1 .. Len(asked) + 1 :
                               /\ items = Abridged(asked, k)
                               /\ k > 1 => kept(k) >= KeepLast
                               /\ req[r].body.to = "native" =>
                                    Fits(asked, k) /\ \A j \in 1 .. k - 1 : ~Fits(asked, j) \/ kept(j) = kept(k)
                               /\ req[r].body.to = "chat" => kept(k) = 0
                          /\ \A i \in DOMAIN items :
                               items[i].of = None \/ req[items[i].of].shape.who = req[r].shape.who
    BY DEF SentIsTheConversation
  <2> DEFINE items == req[r].body.items
             asked == told[r].asked
             to == req[r].body.to
             who == req[r].shape.who
  <2>1. /\ req[r] \in RequestType /\ told[r] \in ToldType /\ RequestOk(req, r, req[r], told[r])
    BY <1>1, ServedFacts
  <2>2. req[r].phase \in Busy /\ req[r].phase # "trying"
    BY <2>1, RequestFields DEF RequestOk
  <2>3. Sent(items, asked, to) /\ OwnedBy(req, who, asked)
    BY <2>1, <2>2 DEF RequestOk, ResponsesOk
  <2>4. asked \in Items /\ Len(asked) \in Nat
    BY <2>1, ToldFields, ItemFacts
  <2> HIDE DEF items, asked, to, who
  <2>5. PICK k \in 1 .. Len(asked) + 1 :
          /\ AsNeeded(items, asked, k)
          /\ to = "native" => Fits(asked, k)
          /\ to = "chat" => ImagesFrom(asked, k) = {}
    BY <2>3 DEF Sent
  <2>6. /\ items = Abridged(asked, k) /\ k \in Nat
        /\ k > 1 => Cardinality(ImagesFrom(asked, k)) >= KeepLast
        /\ \A j \in 1 .. k - 1 : ~Fits(asked, j) \/ ImagesFrom(asked, j) = ImagesFrom(asked, k)
    BY <2>4, <2>5 DEF AsNeeded
  <2>7. to = "chat" => Cardinality(ImagesFrom(asked, k)) = 0
    BY <2>5, FS_EmptySet
  <2>8. \A j \in 1 .. k - 1 : ~Fits(asked, j)
          \/ Cardinality(ImagesFrom(asked, j)) = Cardinality(ImagesFrom(asked, k))
    BY <2>6
  <2>9. ASSUME NEW i \in DOMAIN items
        PROVE  items[i].of = None \/ req[items[i].of].shape.who = who
    <3>1. /\ DOMAIN items = DOMAIN asked
          /\ items[i] = placeholder_text \/ items[i] = asked[i]
      BY <2>6, <2>9 DEF Abridged
    <3>2. CASE items[i] = placeholder_text
      BY <3>2 DEF placeholder_text
    <3>3. CASE items[i] = asked[i]
      BY <2>3, <2>9, <3>1, <3>3 DEF OwnedBy
    <3> QED
      BY <3>1, <3>2, <3>3
  <2>10. \E x \in 1 .. Len(asked) + 1 :
            /\ items = Abridged(asked, x)
            /\ x > 1 => Cardinality(ImagesFrom(asked, x)) >= KeepLast
            /\ to = "native" =>
                 /\ Fits(asked, x)
                 /\ \A j \in 1 .. x - 1 : ~Fits(asked, j)
                      \/ Cardinality(ImagesFrom(asked, j)) = Cardinality(ImagesFrom(asked, x))
            /\ to = "chat" => Cardinality(ImagesFrom(asked, x)) = 0
    BY <2>5, <2>6, <2>7, <2>8
  <2> QED
    BY <2>9, <2>10 DEF items, asked, to, who
<1> QED
  BY <1>1, ConversationInvariant, PTL

\* A stored answer can be continued from the moment the client has it until
\* it expires, with the output the client saw, whatever happens in between.
THEOREM StoredIsContinuable == Spec => []AnsweredIsContinuable
<1>1. ASSUME Inv PROVE AnsweredIsContinuable
  <2> SUFFICES ASSUME NEW r \in Request, req[r] # Idle, Stores(r)
               PROVE  /\ (told[r].id /\ now < 2 * told[r].until) =>
                           LET state == load_response_state(req[r].shape.who, r)
                           IN  /\ state # NoRow
                               /\ state.response_items = told[r].said
                               /\ state.conversation = IF req[r].prev = None THEN r ELSE req[req[r].prev].conversation
                      /\ req[r].phase = "answered" => told[r].until > 0
    BY DEF AnsweredIsContinuable
  <2>1. /\ told[r] \in ToldType /\ RowOk(req, now, r, req[r], rows[r], told[r]) /\ now \in Nat
        /\ RequestOk(req, r, req[r], told[r])
    BY <1>1, ServedFacts
  <2>2. req[r].phase = "answered" => told[r].until > 0
    BY <2>1 DEF RequestOk, Stores, StoresOf
  <2>3. ASSUME told[r].id, now < 2 * told[r].until
        PROVE  LET state == load_response_state(req[r].shape.who, r)
               IN  /\ state # NoRow
                   /\ state.response_items = told[r].said
                   /\ state.conversation = IF req[r].prev = None THEN r ELSE req[req[r].prev].conversation
    <3>2. told[r].until \in Nat
      BY <2>1, ToldFields
    <3>3. rows[r] # NoRow
      BY <2>1, <2>3, <3>2 DEF RowOk
    <3>4. StoredOk(req, r, req[r], rows[r], told[r])
      BY <2>1, <3>3 DEF RowOk
    <3>5. /\ rows[r].who = req[r].shape.who /\ rows[r].expires = told[r].until
          /\ rows[r].response_items = told[r].said
          /\ rows[r].conversation = ConversationOf(req, r, req[r])
      BY <2>3, <3>4 DEF StoredOk, InConversation
    <3>6. ~Expired(rows[r])
      BY <2>1, <2>3, <3>2, <3>5 DEF Expired
    <3>7. load_response_state(req[r].shape.who, r) = rows[r]
      BY <3>3, <3>5, <3>6 DEF load_response_state
    <3> QED
      BY <3>3, <3>5, <3>7 DEF ConversationOf
  <2> QED
    BY <2>2, <2>3
<1> QED
  BY <1>1, ConversationInvariant, PTL

\* The activities tell what happened to a request, in one safe thread: an
\* answer in one piece is not given without one, and the activity of a stream
\* settled without a mishap says how the stream ended, ever after.
THEOREM ActivitiesAreTrue == Spec => []ActivitiesTellTheRequest
<1>1. ASSUME Inv PROVE ActivitiesTellTheRequest
  <2> SUFFICES ASSUME NEW r \in Request, req[r] # Idle
               PROVE  LET l == log[r]
                          q == req[r]
                          t == told[r]
                      IN  /\ Len(l) <= Len(q.shape.attempts)
                          /\ \A i \in DOMAIN l :
                               /\ l[i].status # "failed" => i = Len(l)
                               /\ l[i].status = "success" => q.phase = "answered" \/ t.end = "completion"
                               /\ \/ l[i].thread = <<"conversation", IF q.prev = None THEN r ELSE req[q.prev].conversation>>
                                  \/ l[i].thread[1] = "header" /\ l[i].thread[2] \notin {"-", "../"}
                          /\ (q.phase = "answered" /\ q.shape.api # "images") =>
                               l # <<>> /\ Last(l).status = "success"
                          /\ (q.phase = "refused" /\ l # <<>>) => Last(l).status = "failed"
                          /\ (q.phase = "settled" /\ ~t.mishap) =>
                               /\ l # <<>> /\ ~Last(l).writing
                               /\ Last(l).status = IF t.end = "completion" THEN "success" ELSE "failed"
    BY DEF ActivitiesTellTheRequest
  <2> DEFINE l == log[r]
             q == req[r]
             t == told[r]
  <2>1. l \in Seq(Entry) /\ LogOk(req, r, q, l, t)
    BY <1>1, ServedFacts
  <2>2. l # <<>> => Len(l) \in DOMAIN l
    BY <2>1
  <2> HIDE DEF l, q, t
  <2>3. ASSUME NEW i \in DOMAIN l
        PROVE  \/ l[i].thread = <<"conversation", IF q.prev = None THEN r ELSE req[q.prev].conversation>>
               \/ l[i].thread[1] = "header" /\ l[i].thread[2] \notin {"-", "../"}
    <3>1. ThreadOf(req, r, q, l[i].thread)
      BY <2>1, <2>3 DEF LogOk, Threaded
    <3> QED
      BY <3>1 DEF ThreadOf, ConversationOf
  <2>4. (q.phase = "answered" /\ q.shape.api # "images") =>
          l # <<>> /\ Last(l).status = "success"
    BY <2>1 DEF LogOk, EndsWith, Last
  <2>5. (q.phase = "refused" /\ l # <<>>) => Last(l).status = "failed"
    BY <2>1, <2>2 DEF LogOk, AllFailed, FailedEntry, Last
  <2>6. /\ Len(l) <= Len(q.shape.attempts)
        /\ \A i \in DOMAIN l : /\ l[i].status # "failed" => i = Len(l)
                               /\ l[i].status = "success" => q.phase = "answered" \/ t.end = "completion"
    BY <2>1 DEF LogOk, Earlier, FailedEntry, StreamOk
  <2>7. (q.phase = "settled" /\ ~t.mishap) =>
          /\ l # <<>> /\ ~Last(l).writing
          /\ Last(l).status = IF t.end = "completion" THEN "success" ELSE "failed"
    BY <2>1 DEF LogOk, StreamOk, EndsWith, Verdict, Last
  <2> QED
    BY <2>3, <2>4, <2>5, <2>6, <2>7 DEF l, q, t
<1> QED
  BY <1>1, ConversationInvariant, PTL

\* Once the server serves, every legacy column is encrypted, and none twice,
\* however often the startup was interrupted and whatever the batch.
THEOREM LegacyIsEncryptedOnce == Spec => []LegacyEncryptedOnce
<1>1. ASSUME Inv PROVE LegacyEncryptedOnce
  <2> SUFFICES ASSUME NEW i \in DOMAIN LegacyRows, NEW column \in DOMAIN legacy[i]
               PROVE  legacy[i][column] <= 1 /\ (server = "up" => legacy[i][column] # 0)
    BY DEF LegacyEncryptedOnce
  <2>1. legacy[i][column] \in -1 .. 1
    BY <1>1 DEF Inv, LegacyInv
  <2>2. server = "up" => legacy[i][column] # 0
    BY <1>1 DEF Inv, LegacyInv, Encrypted
  <2> QED
    BY <2>1, <2>2
<1> QED
  BY <1>1, ConversationInvariant, PTL

=============================================================================
