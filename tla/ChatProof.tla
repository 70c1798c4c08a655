---- MODULE ChatProof ----
(***************************************************************************)
(* The streams of the chat, for any number of connections, clients and     *)
(* ports, bytes and messages of any length, and any size of the reads.     *)
(* The network keeps its own invariant: what is on the wire is the end of  *)
(* what was sent, and who waits in a queue waits in one place.  On it      *)
(* stands that of the server: an accepted connection has one peer, whose   *)
(* buffer is the end of what was read, and what poll() reported is still   *)
(* there.                                                                  *)
(***************************************************************************)
EXTENDS ChatProps, FiniteSetTheorems, SequenceTheorems, TLAPS

(***************************************************************************)
(* Sequences that are a part of another.                                   *)
(***************************************************************************)

(* x is what precedes place r + 1 of s, as far as x reaches.               *)
Upto(x, s, r) ==
    /\ Len(x) <= r /\ r <= Len(s)
    /\ \A i \in 1..Len(x) : x[i] = s[r - Len(x) + i]

(* That is how a suffix of the first r elements is told (IsSuffix of       *)
(* ChatProps.tla, for the buffer of chat_server.c:241-293).                *)
LEMMA UptoIsSuffix ==
    ASSUME NEW S, NEW x \in Seq(S), NEW s \in Seq(S), NEW r \in Nat, Upto(x, s, r)
    PROVE  IsSuffix(x, SubSeq(s, 1, r))
<1> DEFINE t == SubSeq(s, 1, r)
<1>1. Len(x) \in Nat /\ Len(s) \in Nat
  BY LenProperties
<1>2. t \in Seq(S) /\ Len(t) = r /\ \A i \in 1..r : t[i] = s[i]
  BY <1>1, SubSeqProperties DEF Upto
<1> HIDE DEF t
<1>3. \A i \in 1..Len(x) : x[i] = t[r - Len(x) + i]
  BY <1>1, <1>2 DEF Upto
<1> DEFINE a == Reverse(x)
           b == Reverse(t)
<1>4. /\ a \in Seq(S) /\ Len(a) = Len(x)
      /\ \A i \in 1..Len(x) : a[i] = x[Len(x) - i + 1]
  <2>1. \A i \in 1..Len(x) : x[Len(x) - i + 1] \in S
    BY <1>1, ElementOfSeq
  <2>. QED BY <2>1, <1>1, IsASeq DEF Reverse
<1>5. /\ b \in Seq(S) /\ Len(b) = r
      /\ \A i \in 1..r : b[i] = t[r - i + 1]
  <2>1. \A i \in 1..r : t[r - i + 1] \in S
    BY <1>2, ElementOfSeq
  <2>. QED BY <2>1, <1>2, IsASeq DEF Reverse
<1> HIDE DEF a, b
<1>6. Len(x) <= r
  BY DEF Upto
<1>7. \A i \in 1..Len(x) : a[i] = b[i]
  <2> SUFFICES ASSUME NEW i \in 1..Len(x) PROVE a[i] = b[i]
    OBVIOUS
  <2>1. Len(x) - i + 1 \in 1..Len(x) /\ i \in 1..r
    BY <1>1, <1>6
  <2>2. x[Len(x) - i + 1] = t[r - Len(x) + (Len(x) - i + 1)]
    BY <2>1, <1>3
  <2>3. r - Len(x) + (Len(x) - i + 1) = r - i + 1
    BY <1>1
  <2>. QED BY <2>1, <2>2, <2>3, <1>4, <1>5
<1>8. SubSeq(a, 1, Len(x)) = SubSeq(b, 1, Len(x))
  BY <1>1, <1>4, <1>5, <1>6, <1>7, SubSeqProperties
<1>9. IsPrefix(a, b)
  BY <1>8, <1>6, <1>4, <1>5 DEF IsPrefix
<1>. QED BY <1>9 DEF IsSuffix, a, b, t

(* More may be sent: what was sent stays where it is.                      *)
LEMMA UptoLonger ==
    ASSUME NEW S, NEW x \in Seq(S), NEW s \in Seq(S), NEW d \in Seq(S), NEW r \in Nat,
           Upto(x, s, r)
    PROVE  Upto(x, s \o d, r)
<1>1. Len(x) \in Nat /\ Len(s) \in Nat /\ Len(d) \in Nat
  BY LenProperties
<1>2. Len(s \o d) = Len(s) + Len(d) /\ \A i \in 1..Len(s) : (s \o d)[i] = s[i]
  BY <1>1, ConcatProperties
<1>3. ASSUME NEW i \in 1..Len(x) PROVE x[i] = (s \o d)[r - Len(x) + i]
  <2>1. r - Len(x) + i \in 1..Len(s)
    BY <1>1 DEF Upto
  <2>. QED BY <2>1, <1>2 DEF Upto
<1>. QED BY <1>1, <1>2, <1>3 DEF Upto

(* What is sent last is what is on the wire last.                          *)
LEMMA UptoSent ==
    ASSUME NEW S, NEW x \in Seq(S), NEW s \in Seq(S), NEW d \in Seq(S), Upto(x, s, Len(s))
    PROVE  Upto(x \o d, s \o d, Len(s \o d))
<1>1. Len(x) \in Nat /\ Len(s) \in Nat /\ Len(d) \in Nat /\ Len(x) <= Len(s)
  BY LenProperties DEF Upto
<1>2. /\ Len(s \o d) = Len(s) + Len(d)
      /\ \A i \in 1..Len(s) + Len(d) : (s \o d)[i] = IF i <= Len(s) THEN s[i] ELSE d[i - Len(s)]
  BY <1>1, ConcatProperties
<1>3. /\ Len(x \o d) = Len(x) + Len(d)
      /\ \A i \in 1..Len(x) + Len(d) : (x \o d)[i] = IF i <= Len(x) THEN x[i] ELSE d[i - Len(x)]
  BY <1>1, ConcatProperties
<1> DEFINE u == s \o d
           v == x \o d
<1>4. ASSUME NEW i \in 1..Len(x) + Len(d) PROVE v[i] = u[Len(s) - Len(x) + i]
  <2> DEFINE j == Len(s) - Len(x) + i
  <2>1. j \in 1..Len(s) + Len(d) /\ (i <= Len(x) <=> j <= Len(s)) /\ i - Len(x) = j - Len(s)
    BY <1>1
  <2>2. i <= Len(x) => x[i] = s[j]
    BY <1>1 DEF Upto
  <2> HIDE DEF j
  <2>3. v[i] = IF i <= Len(x) THEN x[i] ELSE d[i - Len(x)]
    BY <1>3
  <2>4. u[j] = IF j <= Len(s) THEN s[j] ELSE d[j - Len(s)]
    BY <1>2, <2>1
  <2>5. v[i] = u[j]
    BY <2>1, <2>2, <2>3, <2>4
  <2>. QED BY <2>5 DEF j
<1>5. Len(u) = Len(s) + Len(d) /\ Len(v) = Len(x) + Len(d)
  BY <1>2, <1>3
<1> HIDE DEF u, v
<1>6. Upto(v, u, Len(u))
  <2>1. ASSUME NEW i \in 1..Len(v) PROVE v[i] = u[Len(u) - Len(v) + i]
    <3>1. Len(u) - Len(v) + i = Len(s) - Len(x) + i /\ i \in 1..Len(x) + Len(d)
      BY <1>1, <1>5
    <3>. QED BY <3>1, <1>4
  <2>. QED BY <2>1, <1>1, <1>5 DEF Upto
<1>. QED BY <1>6 DEF u, v
(* What is left after b elements (memmove(), chat_server.c:289-293, and     *)
(* what a read leaves on the wire).                                         *)
LEMMA UptoRest ==
    ASSUME NEW S, NEW x \in Seq(S), NEW s \in Seq(S), NEW r \in Nat, NEW b \in 0..Len(x),
           Upto(x, s, r)
    PROVE  /\ Rest(x, b) \in Seq(S) /\ Len(Rest(x, b)) = Len(x) - b
           /\ Upto(Rest(x, b), s, r)
<1> DEFINE z == SubSeq(x, b + 1, Len(x))
<1>1. Len(x) \in Nat /\ Len(s) \in Nat
  BY LenProperties
<1>2. /\ z \in Seq(S) /\ Len(z) = Len(x) - b
      /\ \A i \in 1..Len(x) - b : z[i] = x[b + i]
  BY <1>1, SubSeqProperties
<1> HIDE DEF z
<1>3. ASSUME NEW i \in 1..Len(z) PROVE z[i] = s[r - Len(z) + i]
  <2>1. i \in 1..Len(x) - b /\ b + i \in 1..Len(x) /\ r - Len(z) + i = r - Len(x) + (b + i)
    BY <1>1, <1>2
  <2>2. x[b + i] = s[r - Len(x) + (b + i)]
    BY <2>1 DEF Upto
  <2>. QED BY <2>1, <2>2, <1>2
<1>4. Upto(z, s, r)
  BY <1>1, <1>2, <1>3 DEF Upto
<1>. QED BY <1>2, <1>4 DEF Rest, z

(* A read takes what comes next to the end of the buffer (lines 241-250).   *)
LEMMA UptoRead ==
    ASSUME NEW S, NEW x \in Seq(S), NEW w \in Seq(S), NEW s \in Seq(S), NEW n \in 0..Len(w),
           Upto(w, s, Len(s)), Upto(x, s, Len(s) - Len(w))
    PROVE  /\ x \o SubSeq(w, 1, n) \in Seq(S) /\ Len(x \o SubSeq(w, 1, n)) = Len(x) + n
           /\ Upto(x \o SubSeq(w, 1, n), s, Len(s) - Len(w) + n)
<1> DEFINE d == SubSeq(w, 1, n)
           r == Len(s) - Len(w)
           y == x \o d
<1>1. Len(x) \in Nat /\ Len(s) \in Nat /\ Len(w) \in Nat /\ r \in Nat
  BY LenProperties DEF Upto
<1>2. d \in Seq(S) /\ Len(d) = n /\ \A i \in 1..n : d[i] = w[i]
  BY <1>1, SubSeqProperties
<1> HIDE DEF d
<1>3. /\ y \in Seq(S) /\ Len(y) = Len(x) + n
      /\ \A i \in 1..Len(x) + n : y[i] = IF i <= Len(x) THEN x[i] ELSE d[i - Len(x)]
  BY <1>1, <1>2, ConcatProperties
<1>4. \A i \in 1..Len(w) : w[i] = s[r + i]
  BY <1>1 DEF Upto
<1>5. Len(x) <= r /\ \A i \in 1..Len(x) : x[i] = s[r - Len(x) + i]
  BY DEF Upto
<1> HIDE DEF y, r
<1>6. ASSUME NEW i \in 1..Len(y) PROVE y[i] = s[(r + n) - Len(y) + i]
  <2>0. (r + n) - Len(y) + i = r - Len(x) + i /\ i \in 1..Len(x) + n
    BY <1>1, <1>3
  <2>1. CASE i <= Len(x)
    <3>1. i \in 1..Len(x)
      BY <2>1, <2>0, <1>1
    <3>. QED BY <3>1, <2>0, <2>1, <1>3, <1>5
  <2>2. CASE ~(i <= Len(x))
    <3>1. i - Len(x) \in 1..n /\ i - Len(x) \in 1..Len(w) /\ r + (i - Len(x)) = r - Len(x) + i
      BY <2>2, <2>0, <1>1
    <3>2. y[i] = w[i - Len(x)]
      BY <3>1, <2>0, <2>2, <1>2, <1>3
    <3>3. w[i - Len(x)] = s[r + (i - Len(x))]
      BY <3>1, <1>4
    <3>. QED BY <3>1, <3>2, <3>3, <2>0
  <2>. QED BY <2>1, <2>2
<1>7. Len(y) <= r + n /\ r + n <= Len(s)
  BY <1>1, <1>3, <1>5 DEF r
<1>8. Upto(y, s, r + n)
  BY <1>6, <1>7 DEF Upto
<1>. QED BY <1>3, <1>8 DEF y, d, r

(* The parser consumes no more than there is (lines 252-285).               *)
LEMMA ParsedInside ==
    ASSUME NEW S, NEW data \in Seq(S)
    PROVE  Parsed(data).bytes \in 0..Len(data)
<1> DEFINE starts == Starts(data)
           last == starts[Len(starts)]
           end == IF Len(data) - last < PrefixSize THEN last ELSE last + PrefixSize
           C == {j \in 1..Len(data) : j <= end}
<1>1. Parsed(data).bytes = Cardinality(C)
  BY DEF Parsed
<1>2. Len(data) \in Nat
  BY LenProperties
<1>3. IsFiniteSet(1..Len(data)) /\ Cardinality(1..Len(data)) = Len(data)
  <2>1. 1 \in Int /\ Len(data) \in Int
    BY <1>2
  <2>2. /\ IsFiniteSet(1..Len(data))
        /\ Cardinality(1..Len(data)) = IF 1 > Len(data) THEN 0 ELSE Len(data) - 1 + 1
    BY <2>1, FS_Interval
  <2>. QED BY <2>2, <1>2
<1>4. C \subseteq 1..Len(data)
  OBVIOUS
<1> HIDE DEF C
<1>5. Cardinality(C) <= Len(data) /\ Cardinality(C) \in Nat
  BY <1>3, <1>4, FS_Subset, FS_CardinalityType
<1>. QED BY <1>1, <1>2, <1>5
(***************************************************************************)
(* The network.                                                            *)
(***************************************************************************)

NetTypes ==
    /\ port \in [Listeners -> Ports \union {NoPort}]
    /\ backlog \in [Listeners -> Seq(Conns)]
    /\ conn \in [Conns -> {"free", "queued", "accepted", "dead"}]
    /\ sent \in [Conns -> Seq(Bytes)]
    /\ wire \in [Conns -> Seq(Bytes)]

(* Who waits in a queue is queued, and waits in one place.                 *)
Queues ==
    /\ \A l \in Listeners : \A i \in 1..Len(backlog[l]) : conn[backlog[l][i]] = "queued"
    /\ \A l, m \in Listeners : \A i \in 1..Len(backlog[l]), j \in 1..Len(backlog[m]) :
          backlog[l][i] = backlog[m][j] => l = m /\ i = j

Streams == \A k \in Conns : Upto(wire[k], sent[k], Len(sent[k]))

NetInv == NetTypes /\ Queues /\ Streams

(* What a client may do to the server's side of the network: nothing is    *)
(* accepted or read, nobody leaves a queue, and what is sent comes last.   *)
NetMoves ==
    /\ \A k \in Conns : conn'[k] = "accepted" <=> conn[k] = "accepted"
    /\ \A l \in Listeners : backlog[l] # <<>> => backlog'[l] # <<>>
    /\ \A k \in Conns : \/ sent'[k] = sent[k] /\ wire'[k] = wire[k]
                        \/ \E d \in Seq(Bytes) :
                              sent'[k] = sent[k] \o d /\ wire'[k] = wire[k] \o d
    /\ hup \subseteq hup'

(* A connection joins one queue (chat_client.c:143-213).                   *)
LEMMA ConnectsKeeps ==
    ASSUME NetInv, NEW k \in Conns, NEW p, Connects(k, p)
    PROVE  NetInv' /\ NetMoves
<1>1. PICK l \in Listeners :
        /\ backlog' = [backlog EXCEPT ![l] = Append(@, k)]
        /\ conn' = [conn EXCEPT ![k] = "queued"]
  BY DEF Connects
<1>2. conn[k] = "free" /\ UNCHANGED <<port, sent, wire, hup>>
  BY DEF Connects
<1>3. backlog[l] \in Seq(Conns) /\ Len(backlog[l]) \in Nat
  BY LenProperties DEF NetInv, NetTypes
<1>4. /\ backlog'[l] = Append(backlog[l], k)
      /\ \A m \in Listeners : m # l => backlog'[m] = backlog[m]
      /\ backlog' \in [Listeners -> Seq(Conns)]
  BY <1>1, <1>3 DEF NetInv, NetTypes
<1>5. /\ Len(backlog'[l]) = Len(backlog[l]) + 1
      /\ \A i \in 1..Len(backlog[l]) : backlog'[l][i] = backlog[l][i]
      /\ backlog'[l][Len(backlog[l]) + 1] = k
  BY <1>3, <1>4, AppendProperties
<1>6. /\ conn' \in [Conns -> {"free", "queued", "accepted", "dead"}]
      /\ conn'[k] = "queued" /\ \A x \in Conns : x # k => conn'[x] = conn[x]
  BY <1>1 DEF NetInv, NetTypes
<1>7. \A m \in Listeners : \A i \in 1..Len(backlog[m]) : backlog[m][i] # k /\ backlog[m][i] \in Conns
  <2>1. \A m \in Listeners : \A i \in 1..Len(backlog[m]) : backlog[m][i] \in Conns
    BY ElementOfSeq DEF NetInv, NetTypes
  <2>. QED BY <2>1, <1>2 DEF NetInv, Queues
<1>8. ASSUME NEW m \in Listeners, NEW i \in 1..Len(backlog'[m])
      PROVE  \/ i \in 1..Len(backlog[m]) /\ backlog'[m][i] = backlog[m][i] /\ backlog'[m][i] # k
             \/ m = l /\ i = Len(backlog[l]) + 1 /\ backlog'[m][i] = k
  <2>1. CASE m = l
    <3>1. i \in 1..Len(backlog[l]) \/ i = Len(backlog[l]) + 1
      BY <2>1, <1>3, <1>5
    <3>. QED BY <3>1, <2>1, <1>5, <1>7
  <2>2. CASE m # l
    BY <2>2, <1>4, <1>7
  <2>. QED BY <2>1, <2>2
<1>9. Queues'
  <2>1. \A m \in Listeners : \A i \in 1..Len(backlog'[m]) : conn'[backlog'[m][i]] = "queued"
    BY <1>6, <1>7, <1>8, SMTT(40) DEF NetInv, Queues
  <2>2. ASSUME NEW m \in Listeners, NEW n \in Listeners, NEW i \in 1..Len(backlog'[m]),
               NEW j \in 1..Len(backlog'[n]), backlog'[m][i] = backlog'[n][j]
        PROVE  m = n /\ i = j
    <3>1. CASE backlog'[m][i] = k
      BY <3>1, <2>2, <1>8
    <3>2. CASE backlog'[m][i] # k
      <4>1. /\ i \in 1..Len(backlog[m]) /\ backlog'[m][i] = backlog[m][i]
            /\ j \in 1..Len(backlog[n]) /\ backlog'[n][j] = backlog[n][j]
        BY <3>2, <2>2, <1>8
      <4>2. backlog[m][i] = backlog[n][j]
        BY <4>1, <2>2
      <4>3. \A q, r \in Listeners : \A a \in 1..Len(backlog[q]), b \in 1..Len(backlog[r]) :
               backlog[q][a] = backlog[r][b] => q = r /\ a = b
        BY DEF NetInv, Queues
      <4>. QED BY <4>1, <4>2, <4>3
    <3>. QED BY <3>1, <3>2
  <2>. QED BY <2>1, <2>2 DEF Queues
<1>10. NetInv'
  BY <1>2, <1>4, <1>6, <1>9 DEF NetInv, NetTypes, Streams
<1>11. \A m \in Listeners : backlog[m] # <<>> => backlog'[m] # <<>>
  <2>1. backlog'[l] # <<>>
    BY <1>3, <1>5
  <2>. QED BY <2>1, <1>4
<1>12. NetMoves
  BY <1>2, <1>6, <1>11 DEF NetMoves
<1>. QED BY <1>10, <1>12

(* A connection that nobody will accept.                                   *)
LEMMA RefusedKeeps ==
    ASSUME NetInv, NEW k \in Conns, NEW p, Refused(k, p)
    PROVE  NetInv' /\ NetMoves
<1>1. /\ conn[k] = "free" /\ conn' = [conn EXCEPT ![k] = "dead"]
      /\ UNCHANGED <<port, backlog, sent, wire, hup>>
  BY DEF Refused
<1>2. /\ conn' \in [Conns -> {"free", "queued", "accepted", "dead"}]
      /\ conn'[k] = "dead" /\ \A x \in Conns : x # k => conn'[x] = conn[x]
  BY <1>1 DEF NetInv, NetTypes
<1>3. \A m \in Listeners : \A i \in 1..Len(backlog[m]) : backlog[m][i] # k /\ backlog[m][i] \in Conns
  <2>1. \A m \in Listeners : \A i \in 1..Len(backlog[m]) : backlog[m][i] \in Conns
    BY ElementOfSeq DEF NetInv, NetTypes
  <2>. QED BY <2>1, <1>1 DEF NetInv, Queues
<1>4. Queues'
  BY <1>1, <1>2, <1>3 DEF NetInv, Queues
<1>. QED BY <1>1, <1>2, <1>4 DEF NetInv, NetTypes, Streams, NetMoves

(* A client writes (chat_client.c:231-291).                                *)
LEMMA SendsKeeps ==
    ASSUME NetInv, NEW k \in Conns, NEW data \in Seq(Bytes), Sends(k, data)
    PROVE  NetInv' /\ NetMoves
<1>1. /\ sent' = [sent EXCEPT ![k] = @ \o data] /\ wire' = [wire EXCEPT ![k] = @ \o data]
      /\ UNCHANGED <<port, backlog, conn, hup>>
  BY DEF Sends
<1>2. sent[k] \in Seq(Bytes) /\ wire[k] \in Seq(Bytes)
  BY DEF NetInv, NetTypes
<1>3. sent[k] \o data \in Seq(Bytes) /\ wire[k] \o data \in Seq(Bytes)
  BY <1>2, ConcatProperties
<1>4. /\ sent' \in [Conns -> Seq(Bytes)] /\ wire' \in [Conns -> Seq(Bytes)]
      /\ sent'[k] = sent[k] \o data /\ wire'[k] = wire[k] \o data
      /\ \A x \in Conns : x # k => sent'[x] = sent[x] /\ wire'[x] = wire[x]
  BY <1>1, <1>3 DEF NetInv, NetTypes
<1>5. Upto(wire[k] \o data, sent[k] \o data, Len(sent[k] \o data))
  BY <1>2, UptoSent DEF NetInv, Streams
<1>6. Streams'
  BY <1>4, <1>5 DEF NetInv, Streams
<1>7. NetInv'
  BY <1>1, <1>4, <1>6 DEF NetInv, NetTypes, Queues
<1>8. NetMoves
  BY <1>1, <1>4 DEF NetMoves
<1>. QED BY <1>7, <1>8

(* A client closes its socket.                                             *)
LEMMA ClosesKeeps ==
    ASSUME NetInv, NEW k, Closes(k)
    PROVE  NetInv' /\ NetMoves
<1>1. hup' = hup \union {k} /\ UNCHANGED <<port, backlog, conn, sent, wire>>
  BY DEF Closes
<1>. QED BY <1>1 DEF NetInv, NetTypes, Queues, Streams, NetMoves

(* Strings are sequences.                                                  *)
LEMMA StringsAreSeqs ==
    ASSUME NEW S, S \subseteq Bytes, NEW data \in Strings(S, MaxBytes)
    PROVE  data \in Seq(Bytes)
<1>1. PICK n \in 0..MaxBytes : data \in [1..n -> S]
  BY DEF Strings
<1>2. n \in Nat
  BY <1>1, NetAssumption
<1>3. data \in [1..n -> Bytes]
  BY <1>1
<1>. QED BY <1>2, <1>3, SeqDef

(***************************************************************************)
(* The clients.                                                            *)
(***************************************************************************)

ClientInv ==
    /\ client \in [Clients -> {"live", "deleted", "aborted", "killed"}]
    /\ client_socket \in [Clients -> Conns \union {None}]
    /\ current_message_index \in [Clients -> 0..MaxMessages]

(* The end of a client (chat_client.c:129-141).                            *)
LEMMA EndsKeeps ==
    ASSUME NetInv, ClientInv, NEW c \in Clients,
           NEW how \in {"live", "deleted", "aborted", "killed"}, Ends(c, how)
    PROVE  NetInv' /\ NetMoves /\ ClientInv'
<1>1. ClientInv'
  BY ClientAssumption DEF Ends, ClientInv
<1>2. CASE UNCHANGED net
  BY <1>1, <1>2 DEF net, NetInv, NetTypes, Queues, Streams, NetMoves
<1>3. CASE Closes(client_socket[c])
  BY <1>1, <1>3, ClosesKeeps
<1>. QED BY <1>2, <1>3 DEF Ends

(* What a client does to the network (chat_client.c).                      *)
LEMMA ClientKeeps ==
    ASSUME NetInv, ClientInv, NEW c \in Clients, clientStep(c)
    PROVE  NetInv' /\ NetMoves /\ ClientInv'
<1>0. UNCHANGED net => NetInv' /\ NetMoves
  BY DEF net, NetInv, NetTypes, Queues, Streams, NetMoves
<1>1. CASE chat_client_delete(c)
  BY <1>1, EndsKeeps DEF chat_client_delete
<1>2. ASSUME NEW k \in Conns \ Foreign, NEW p \in Ports, chat_client_connect(c, k, p)
      PROVE  NetInv' /\ NetMoves /\ ClientInv'
  <2>1. ClientInv'
    BY <1>2 DEF chat_client_connect, ClientInv
  <2>2. Connects(k, p) \/ Refused(k, p)
    BY <1>2 DEF chat_client_connect
  <2>. QED BY <2>1, <2>2, ConnectsKeeps, RefusedKeeps
<1>3. CASE chat_client_feed(c)
  <2>1. current_message_index[c] + 1 \in 0..MaxMessages
    BY <1>3, ClientAssumption DEF chat_client_feed, HasSpace, ClientInv
  <2>. QED BY <2>1, <1>3, <1>0 DEF chat_client_feed, ClientInv
<1>4. CASE popDelete(c)
  <2>1. CASE current_message_index[c] = 0
    <3>1. 1 \in 0..MaxMessages
      BY <1>4, <2>1, ClientAssumption DEF popDelete, HasSpace
    <3>. QED BY <3>1, <2>1, <1>4, <1>0 DEF popDelete, ClientInv
  <2>2. CASE current_message_index[c] # 0
    BY <2>2, <1>4, EndsKeeps DEF popDelete
  <2>. QED BY <2>1, <2>2
<1>5. CASE updateWrites(c)
  <2>1. PICK data \in Strings(Bytes \ {0}, MaxBytes) : Sends(client_socket[c], data)
    BY <1>5 DEF updateWrites
  <2>2. client_socket[c] \in Conns
    BY <1>5 DEF updateWrites, ClientInv
  <2>3. data \in Seq(Bytes)
    BY <2>1, StringsAreSeqs
  <2>4. ClientInv'
    BY <1>5 DEF updateWrites, clientVars, ClientInv
  <2>. QED BY <2>1, <2>2, <2>3, <2>4, SendsKeeps
<1>6. CASE updateBroken(c)
  BY <1>6, EndsKeeps DEF updateBroken
<1>. QED BY <1>1, <1>2, <1>3, <1>4, <1>5, <1>6 DEF clientStep

(* What another program does to the network.                               *)
LEMMA ForeignKeeps ==
    ASSUME NetInv, foreign
    PROVE  NetInv' /\ NetMoves
<1>1. PICK k \in Foreign :
        \/ \E p \in Ports : Connects(k, p)
        \/ \E b \in Bytes : Sends(k, <<b>>)
        \/ Closes(k)
  BY DEF foreign
<1>2. k \in Conns
  BY NetAssumption
<1>3. \A b \in Bytes : <<b>> \in Seq(Bytes)
  OBVIOUS
<1>. QED BY <1>1, <1>2, <1>3, ConnectsKeeps, SendsKeeps, ClosesKeeps
(***************************************************************************)
(* The server.                                                             *)
(***************************************************************************)

Peer == [socket : Listeners \union Conns, input : Seq(Bytes), input_size : Nat]

ServerTypes ==
    /\ server \in {"live", "deleted", "crashed"}
    /\ server_socket \in Listeners \union {NoSocket}
    /\ is_started \in BOOLEAN
    /\ peers \in Seq(Peer)
    /\ pc \in {"idle", "accept", "scan"}

(* How much the server has read from a connection.                         *)
Taken(k) == Len(sent[k]) - Len(wire[k])

(* A connection that was accepted has one peer, any other none.            *)
Peered ==
    /\ \A i, j \in 1..Len(peers) :
          peers[i].socket \in Conns /\ peers[i].socket = peers[j].socket => i = j
    /\ \A k \in Conns :
          conn[k] = "accepted" <=> \E i \in 1..Len(peers) : peers[i].socket = k

Holds(peer) ==
    peer.socket \in Conns =>
        /\ Upto(peer.input, sent[peer.socket], Taken(peer.socket))
        /\ Len(peer.input) <= peer.input_size

Buffers == \A i \in 1..Len(peers) : Holds(peers[i])

(* What poll() reported is still there.                                    *)
Polled ==
    /\ revents \subseteq 1..Len(peers)
    /\ ~is_started => peers = <<>>
    /\ is_started => /\ server_socket # NoSocket
                     /\ server_socket = 1 => Len(peers) >= 1 /\ peers[1].socket = 1
    /\ pc # "idle" => is_started
    /\ pc = "accept" /\ server_socket = 1 => backlog[1] # <<>>
    /\ \A i \in revents : peers[i].socket \in Listeners \/ Readable(peers[i].socket)

ServerInv ==
    /\ ServerTypes
    /\ server = "live" => Peered /\ Buffers /\ Polled

ChatInv == NetInv /\ ServerInv /\ ClientInv

(* ReadFits, of one step.                                                  *)
Fits ==
    server' = "live" =>
        \A i \in 1..Len(peers) :
            peers[i].socket \in Conns =>
                Len(peers[i].input) + Arrived(peers[i].socket) <= peers'[i].input_size

(* A peer is a record with a socket, a buffer and its size.                *)
LEMMA PeersAre ==
    ASSUME ServerTypes
    PROVE  /\ Len(peers) \in Nat
           /\ \A i \in 1..Len(peers) :
                 /\ peers[i] \in Peer
                 /\ peers[i].socket \in Listeners \union Conns
                 /\ peers[i].input \in Seq(Bytes) /\ Len(peers[i].input) \in Nat
                 /\ peers[i].input_size \in Nat
<1>1. Len(peers) \in Nat /\ \A i \in 1..Len(peers) : peers[i] \in Peer
  BY LenProperties, ElementOfSeq DEF ServerTypes
<1>. QED BY <1>1, LenProperties DEF Peer

(* How much was read is a number.                                          *)
LEMMA TakenIs ==
    ASSUME NetInv, NEW k \in Conns
    PROVE  /\ sent[k] \in Seq(Bytes) /\ wire[k] \in Seq(Bytes)
           /\ Len(sent[k]) \in Nat /\ Len(wire[k]) \in Nat
           /\ Len(wire[k]) <= Len(sent[k])
           /\ Taken(k) \in Nat /\ Taken(k) <= Len(sent[k])
<1>1. sent[k] \in Seq(Bytes) /\ wire[k] \in Seq(Bytes) /\ Len(sent[k]) \in Nat /\ Len(wire[k]) \in Nat
  BY LenProperties DEF NetInv, NetTypes
<1>2. Len(wire[k]) <= Len(sent[k])
  BY <1>1 DEF NetInv, Streams, Upto
<1>3. Taken(k) = Len(sent[k]) - Len(wire[k])
  BY DEF Taken
<1> DEFINE a == Len(sent[k])
           b == Len(wire[k])
<1>4. a - b \in Nat /\ a - b <= a
  <2>1. a \in Nat /\ b \in Nat /\ b <= a
    BY <1>1, <1>2
  <2> HIDE DEF a, b
  <2>. QED BY <2>1
<1>. QED BY <1>1, <1>2, <1>3, <1>4

(* The clients do not disturb the server, and make no buffer too small.    *)
LEMMA ServerUndisturbed ==
    ASSUME NetInv, NetInv', ServerInv, NetMoves, UNCHANGED serverVars
    PROVE  ServerInv' /\ Fits
<1>0. UNCHANGED <<server, server_socket, is_started, peers, messages, total_messages, pc, revents>>
  BY DEF serverVars
<1>1. ServerTypes'
  BY <1>0 DEF ServerInv, ServerTypes
<1>2. ASSUME NEW k \in Conns
      PROVE  /\ Len(sent'[k]) - Len(wire'[k]) = Taken(k)
             /\ Len(wire[k]) <= Len(wire'[k])
             /\ wire[k] # <<>> => wire'[k] # <<>>
             /\ \A x \in Seq(Bytes) : Upto(x, sent[k], Taken(k)) => Upto(x, sent'[k], Taken(k))
  <2>1. /\ sent[k] \in Seq(Bytes) /\ wire[k] \in Seq(Bytes)
        /\ Len(sent[k]) \in Nat /\ Len(wire[k]) \in Nat /\ Taken(k) \in Nat
    BY TakenIs
  <2>2. CASE sent'[k] = sent[k] /\ wire'[k] = wire[k]
    <3>1. Len(sent'[k]) - Len(wire'[k]) = Taken(k) /\ Len(wire[k]) <= Len(wire'[k])
      BY <2>1, <2>2 DEF Taken
    <3>. QED BY <3>1, <2>2
  <2>3. ASSUME NEW d \in Seq(Bytes), sent'[k] = sent[k] \o d, wire'[k] = wire[k] \o d
        PROVE  /\ Len(sent'[k]) - Len(wire'[k]) = Taken(k)
               /\ Len(wire[k]) <= Len(wire'[k])
               /\ wire[k] # <<>> => wire'[k] # <<>>
               /\ \A x \in Seq(Bytes) : Upto(x, sent[k], Taken(k)) => Upto(x, sent'[k], Taken(k))
    <3>1. /\ Len(d) \in Nat /\ Len(sent'[k]) = Len(sent[k]) + Len(d)
          /\ Len(wire'[k]) = Len(wire[k]) + Len(d)
      BY <2>1, <2>3, LenProperties, ConcatProperties
    <3>2. Len(sent'[k]) - Len(wire'[k]) = Taken(k)
      BY <3>1, <2>1 DEF Taken
    <3>3. Len(wire[k]) <= Len(wire'[k])
      BY <3>1, <2>1
    <3>4. wire[k] # <<>> => wire'[k] # <<>>
      <4>1. wire[k] # <<>> => Len(wire[k]) # 0
        BY <2>1, EmptySeq
      <4>2. wire'[k] = <<>> => Len(wire'[k]) = 0
        BY EmptySeq
      <4>. QED BY <4>1, <4>2, <3>1, <2>1
    <3>5. \A x \in Seq(Bytes) : Upto(x, sent[k], Taken(k)) => Upto(x, sent'[k], Taken(k))
      BY <2>1, <2>3, UptoLonger
    <3>. QED BY <3>2, <3>3, <3>4, <3>5
  <2>. QED BY <2>2, <2>3 DEF NetMoves
<1>3. CASE server # "live"
  BY <1>0, <1>1, <1>3 DEF ServerInv, Fits
<1>4. CASE server = "live"
  <2>1. Peered'
    BY <1>0, <1>4 DEF ServerInv, Peered, NetMoves
  <2>2. Buffers'
    <3> SUFFICES ASSUME NEW i \in 1..Len(peers), peers[i].socket \in Conns
                 PROVE  /\ Upto(peers[i].input, sent'[peers[i].socket],
                                Len(sent'[peers[i].socket]) - Len(wire'[peers[i].socket]))
                        /\ Len(peers[i].input) <= peers[i].input_size
      BY <1>0 DEF Buffers, Holds, Taken
    <3>1. peers[i].input \in Seq(Bytes)
      BY PeersAre DEF ServerInv
    <3>2. /\ Upto(peers[i].input, sent[peers[i].socket], Taken(peers[i].socket))
          /\ Len(peers[i].input) <= peers[i].input_size
      BY <1>4 DEF ServerInv, Buffers, Holds
    <3>. QED BY <3>1, <3>2, <1>2
  <2>3. \A i \in revents : peers[i].socket \in Listeners \/ Readable(peers[i].socket)'
    <3> SUFFICES ASSUME NEW i \in revents, peers[i].socket \notin Listeners
                 PROVE  Readable(peers[i].socket)'
      OBVIOUS
    <3>1. i \in 1..Len(peers) /\ Readable(peers[i].socket)
      BY <1>4 DEF ServerInv, Polled
    <3>2. peers[i].socket \in Conns
      BY <3>1, PeersAre DEF ServerInv
    <3>. QED BY <3>1, <3>2, <1>0, <1>2 DEF Readable, NetMoves
  <2>4. Polled'
    <3>1. 1 \in Listeners
      BY DEF Listeners
    <3>. QED BY <3>1, <2>3, <1>0, <1>4 DEF ServerInv, Polled, NetMoves
  <2>5. Fits
    <3> SUFFICES ASSUME NEW i \in 1..Len(peers), peers[i].socket \in Conns
                 PROVE  Len(peers[i].input) + Arrived(peers[i].socket) <= peers[i].input_size
      BY <1>0 DEF Fits
    <3> DEFINE held == Len(peers[i].input)
               size == peers[i].input_size
               before == Len(wire[peers[i].socket])
               after == Len(wire'[peers[i].socket])
    <3>1. held <= size /\ held \in Nat /\ size \in Nat
      BY <1>4, PeersAre DEF ServerInv, Buffers, Holds
    <3>2. before <= after /\ before \in Nat /\ after \in Nat
      BY <1>2, TakenIs, LenProperties DEF NetInv, NetTypes
    <3>3. Arrived(peers[i].socket) = before - after
      BY DEF Arrived
    <3> HIDE DEF held, size, before, after
    <3>4. held + (before - after) <= size
      BY <3>1, <3>2
    <3>. QED BY <3>3, <3>4 DEF held, size
  <2>. QED BY <1>1, <2>1, <2>2, <2>4, <2>5 DEF ServerInv
<1>. QED BY <1>3, <1>4
(* A server that is no more keeps its types (chat_server.c:96-109).        *)
LEMMA NotLive ==
    ASSUME ServerTypes', server' # "live"
    PROVE  ServerInv' /\ Fits
BY DEF ServerInv, Fits

(* The listening socket is closed with its queue.                          *)
LEMMA CloseListenerKeeps ==
    ASSUME NetInv, NEW l \in Listeners, CloseListener(l)
    PROVE  NetInv'
<1> DEFINE newConn == [k \in Conns |-> IF k \in ToSet(backlog[l]) THEN "dead" ELSE conn[k]]
<1>1. /\ port' = [port EXCEPT ![l] = NoPort] /\ conn' = newConn
      /\ backlog' = [backlog EXCEPT ![l] = <<>>] /\ UNCHANGED <<sent, wire, hup>>
  BY DEF CloseListener
<1>2. /\ port' \in [Listeners -> Ports \union {NoPort}]
      /\ conn' \in [Conns -> {"free", "queued", "accepted", "dead"}]
      /\ backlog' \in [Listeners -> Seq(Conns)]
      /\ backlog'[l] = <<>> /\ \A m \in Listeners : m # l => backlog'[m] = backlog[m]
  <2>1. <<>> \in Seq(Conns)
    OBVIOUS
  <2>. QED BY <1>1, <2>1 DEF NetInv, NetTypes
<1>3. Len(backlog'[l]) = 0
  BY <1>2
<1>4. ASSUME NEW m \in Listeners, NEW i \in 1..Len(backlog'[m])
      PROVE  m # l /\ backlog'[m] = backlog[m] /\ conn'[backlog[m][i]] = "queued"
  <2>1. m # l
    BY <1>3, <1>4
  <2>2. backlog'[m] = backlog[m] /\ i \in 1..Len(backlog[m])
    BY <2>1, <1>2
  <2>3. backlog[m][i] \in Conns /\ conn[backlog[m][i]] = "queued"
    BY <2>2, ElementOfSeq DEF NetInv, NetTypes, Queues
  <2>4. backlog[m][i] \notin ToSet(backlog[l])
    <3> SUFFICES ASSUME NEW j \in 1..Len(backlog[l]), backlog[m][i] = backlog[l][j] PROVE FALSE
      <4>1. DOMAIN backlog[l] = 1..Len(backlog[l])
        BY LenProperties DEF NetInv, NetTypes
      <4>. QED BY <4>1 DEF ToSet
    <3>1. \A q, r \in Listeners : \A a \in 1..Len(backlog[q]), b \in 1..Len(backlog[r]) :
             backlog[q][a] = backlog[r][b] => q = r /\ a = b
      BY DEF NetInv, Queues
    <3>. QED BY <3>1, <2>1, <2>2
  <2>5. conn'[backlog[m][i]] = conn[backlog[m][i]]
    BY <1>1, <2>3, <2>4
  <2>. QED BY <2>1, <2>2, <2>3, <2>5
<1>5. Queues'
  <2>1. \A m \in Listeners : \A i \in 1..Len(backlog'[m]) : conn'[backlog'[m][i]] = "queued"
    BY <1>4
  <2>2. ASSUME NEW m \in Listeners, NEW n \in Listeners, NEW i \in 1..Len(backlog'[m]),
               NEW j \in 1..Len(backlog'[n]), backlog'[m][i] = backlog'[n][j]
        PROVE  m = n /\ i = j
    <3>1. backlog'[m] = backlog[m] /\ backlog'[n] = backlog[n]
      BY <1>4
    <3>2. \A q, r \in Listeners : \A a \in 1..Len(backlog[q]), b \in 1..Len(backlog[r]) :
             backlog[q][a] = backlog[r][b] => q = r /\ a = b
      BY DEF NetInv, Queues
    <3>3. i \in 1..Len(backlog[m]) /\ j \in 1..Len(backlog[n]) /\ backlog[m][i] = backlog[n][j]
      BY <3>1, <2>2
    <3>. QED BY <3>2, <3>3
  <2>. QED BY <2>1, <2>2 DEF Queues
<1>. QED BY <1>1, <1>2, <1>5 DEF NetInv, NetTypes, Streams

(* chat_server_delete() (lines 96-109).                                    *)
LEMMA DeleteKeeps ==
    ASSUME NetInv, ServerInv, chat_server_delete
    PROVE  NetInv' /\ ServerInv' /\ Fits
<1>1. /\ server' = "deleted"
      /\ UNCHANGED <<server_socket, is_started, peers, messages, total_messages, pc, revents>>
  BY DEF chat_server_delete
<1>2. ServerInv' /\ Fits
  <2>1. ServerTypes' /\ server' # "live"
    BY <1>1 DEF ServerInv, ServerTypes
  <2>. QED BY <2>1, NotLive
<1>3. NetInv'
  <2>1. CASE UNCHANGED net
    BY <2>1 DEF net, NetInv, NetTypes, Queues, Streams
  <2>2. CASE server_socket # NoSocket /\ CloseListener(server_socket)
    BY <2>2, CloseListenerKeeps DEF ServerInv, ServerTypes
  <2>. QED BY <2>1, <2>2 DEF chat_server_delete
<1>. QED BY <1>2, <1>3

(* The server crashes, at most in the middle of a read (lines 277-284).    *)
LEMMA CrashKeeps ==
    ASSUME NetInv, ServerInv, Crash, UNCHANGED peers, wire' \in [Conns -> Seq(Bytes)],
           \A k \in Conns : Upto(wire'[k], sent[k], Len(sent[k]))
    PROVE  NetInv' /\ ServerInv' /\ Fits
<1>1. /\ server' = "crashed" /\ pc' = "idle" /\ CloseAll
      /\ UNCHANGED <<server_socket, is_started, messages, total_messages>>
  BY DEF Crash
<1>2. ServerInv' /\ Fits
  <2>1. ServerTypes' /\ server' # "live"
    BY <1>1 DEF ServerInv, ServerTypes
  <2>. QED BY <2>1, NotLive
<1>3. /\ port' = [l \in Listeners |-> NoPort]
      /\ conn' = [k \in Conns |-> IF conn[k] = "free" THEN "free" ELSE "dead"]
      /\ backlog' = [l \in Listeners |-> <<>>] /\ sent' = sent
  BY <1>1 DEF CloseAll
<1>4. NetTypes'
  <2>1. <<>> \in Seq(Conns)
    OBVIOUS
  <2>. QED BY <1>3, <2>1 DEF NetInv, NetTypes
<1>5. Queues'
  <2>1. \A l \in Listeners : Len(backlog'[l]) = 0
    BY <1>3
  <2>. QED BY <2>1 DEF Queues
<1>6. Streams'
  BY <1>3 DEF Streams
<1>. QED BY <1>2, <1>4, <1>5, <1>6 DEF NetInv

(* The entry past one of the arrays (lines 141-150, 189 and 225-232).      *)
LEMMA OverrunKeeps ==
    ASSUME NetInv, ServerInv, updateOverrun \/ peersOverrun
    PROVE  NetInv' /\ ServerInv' /\ Fits
<1>1. Crash /\ UNCHANGED <<wire, peers>>
  BY DEF updateOverrun, peersOverrun
<1>2. wire' \in [Conns -> Seq(Bytes)] /\ \A k \in Conns : Upto(wire'[k], sent[k], Len(sent[k]))
  BY <1>1 DEF NetInv, NetTypes, Streams
<1>. QED BY <1>1, <1>2, CrashKeeps

(* A step that reads nothing and keeps the peers there are makes no buffer *)
(* too small.                                                              *)
LEMMA FitsUnread ==
    ASSUME NetInv, ServerInv, server = "live", UNCHANGED wire,
           \A i \in 1..Len(peers) : peers'[i] = peers[i]
    PROVE  Fits
<1> SUFFICES ASSUME NEW i \in 1..Len(peers), peers[i].socket \in Conns
             PROVE  Len(peers[i].input) + Arrived(peers[i].socket) <= peers[i].input_size
  BY DEF Fits
<1> DEFINE held == Len(peers[i].input)
           size == peers[i].input_size
           before == Len(wire[peers[i].socket])
<1>1. held <= size /\ held \in Nat /\ size \in Nat
  BY PeersAre DEF ServerInv, Buffers, Holds
<1>2. before \in Nat /\ Arrived(peers[i].socket) = before - before
  BY TakenIs DEF Arrived
<1> HIDE DEF held, size, before
<1>3. held + (before - before) <= size
  BY <1>1, <1>2
<1>. QED BY <1>2, <1>3 DEF held, size

(* One more peer.                                                          *)
LEMMA PeersAppended ==
    ASSUME ServerTypes, NEW new \in Peer, peers' = Append(peers, new)
    PROVE  /\ peers' \in Seq(Peer) /\ Len(peers) \in Nat /\ Len(peers') = Len(peers) + 1
           /\ \A i \in 1..Len(peers) : peers'[i] = peers[i]
           /\ peers'[Len(peers) + 1] = new
           /\ \A i \in 1..Len(peers') : i \in 1..Len(peers) \/ i = Len(peers) + 1
<1>1. peers \in Seq(Peer) /\ Len(peers) \in Nat
  BY LenProperties DEF ServerTypes
<1>2. /\ peers' \in Seq(Peer) /\ Len(peers') = Len(peers) + 1
      /\ \A i \in 1..Len(peers) : peers'[i] = peers[i]
      /\ peers'[Len(peers) + 1] = new
  BY <1>1, AppendProperties
<1>. QED BY <1>1, <1>2
(* chat_server_listen() (lines 111-154).                                   *)
LEMMA ListenKeeps ==
    ASSUME NetInv, ServerInv, NEW p \in Ports, chat_server_listen(p)
    PROVE  NetInv' /\ ServerInv' /\ Fits
<1>1. /\ server = "live" /\ pc = "idle" /\ server_socket + 1 \in Listeners
      /\ server_socket' = server_socket + 1
      /\ UNCHANGED <<server, messages, total_messages, pc, revents>>
  BY DEF chat_server_listen
<1>2. server_socket \in 0..2 /\ Listeners = 1..2
  BY DEF ServerInv, ServerTypes, Listeners, NoSocket
<1>3. CASE UNCHANGED <<net, is_started, peers>>
  <2>1. NetInv'
    BY <1>3 DEF net, NetInv, NetTypes, Queues, Streams
  <2>2. Fits
    BY <1>1, <1>3, FitsUnread DEF net
  <2>3. ServerTypes' /\ Peered' /\ Buffers'
    BY <1>1, <1>3 DEF net, ServerInv, ServerTypes, Peered, Buffers, Holds, Taken
  <2>4. server_socket' # 1 \/ server_socket = 0
    BY <1>1, <1>2
  <2>5. is_started => server_socket # 0 /\ server_socket' # NoSocket
    BY <1>1, <1>2 DEF ServerInv, Polled, NoSocket
  <2>6. \A i \in revents : peers[i].socket \in Listeners \/ Readable(peers[i].socket)'
    BY <1>1, <1>3 DEF net, ServerInv, Polled, Readable
  <2>7. Polled'
    BY <1>1, <1>3, <2>4, <2>5, <2>6 DEF ServerInv, Polled
  <2>. QED BY <2>1, <2>2, <2>3, <2>7 DEF ServerInv
<1>4. CASE /\ port' = [port EXCEPT ![server_socket + 1] = p]
           /\ peers' = Append(peers, [socket |-> server_socket + 1,
                                      input |-> <<>>, input_size |-> 1])
           /\ is_started' = TRUE
           /\ UNCHANGED <<backlog, conn, sent, wire, hup>>
  <2> DEFINE new == [socket |-> server_socket + 1, input |-> <<>>, input_size |-> 1]
  <2>1. new \in Peer
    <3>1. <<>> \in Seq(Bytes)
      OBVIOUS
    <3>. QED BY <3>1, <1>1 DEF Peer
  <2>2. new.socket = server_socket + 1 /\ new.socket \notin Conns
    BY <1>1, NetAssumption
  <2>3. peers' = Append(peers, new)
    BY <1>4
  <2> HIDE DEF new
  <2>4. /\ peers' \in Seq(Peer) /\ Len(peers) \in Nat /\ Len(peers') = Len(peers) + 1
        /\ \A i \in 1..Len(peers) : peers'[i] = peers[i]
        /\ peers'[Len(peers) + 1] = new
        /\ \A i \in 1..Len(peers') : i \in 1..Len(peers) \/ i = Len(peers) + 1
    BY <2>1, <2>3, PeersAppended DEF ServerInv
  <2>5. Fits
    BY <1>1, <1>4, <2>4, FitsUnread
  <2>6. NetInv'
    BY <1>1, <1>4 DEF NetInv, NetTypes, Queues, Streams
  <2>7. ServerTypes'
    BY <1>1, <1>4, <2>4 DEF ServerInv, ServerTypes
  <2>8. Peered'
    <3>1. \A i, j \in 1..Len(peers') :
             peers'[i].socket \in Conns /\ peers'[i].socket = peers'[j].socket => i = j
      BY <1>1, <2>2, <2>4 DEF ServerInv, Peered
    <3>2. ASSUME NEW k \in Conns
          PROVE  conn[k] = "accepted" <=> \E i \in 1..Len(peers') : peers'[i].socket = k
      <4>1. conn[k] = "accepted" <=> \E i \in 1..Len(peers) : peers[i].socket = k
        BY <1>1 DEF ServerInv, Peered
      <4>2. 1..Len(peers) \subseteq 1..Len(peers')
        BY <2>4
      <4>. QED BY <4>1, <4>2, <2>2, <2>4
    <3>. QED BY <3>1, <3>2, <1>4 DEF Peered
  <2>9. Buffers'
    <3>1. \A i \in 1..Len(peers) : Holds(peers[i])
      BY <1>1 DEF ServerInv, Buffers
    <3>. QED BY <3>1, <1>4, <2>2, <2>4 DEF Buffers, Holds, Taken
  <2>10. server_socket' = 1 => peers = <<>>
    <3> SUFFICES ASSUME server_socket = 0 PROVE peers = <<>>
      BY <1>1, <1>2
    <3>. QED BY <1>1 DEF ServerInv, Polled, NoSocket
  <2>11. server_socket' = 1 => Len(peers') >= 1 /\ peers'[1].socket = 1
    <3> SUFFICES ASSUME peers = <<>>, server_socket' = 1
                 PROVE  Len(peers') >= 1 /\ peers'[1].socket = 1
      BY <2>10
    <3>1. Len(peers) = 0
      OBVIOUS
    <3>2. Len(peers') = 1 /\ peers'[1] = new
      BY <3>1, <2>4
    <3>. QED BY <3>2, <2>2, <1>1
  <2>12. revents \subseteq 1..Len(peers')
    BY <1>1, <2>4 DEF ServerInv, Polled
  <2>13. \A i \in revents : (peers[i].socket \in Listeners \/ Readable(peers[i].socket))'
    <3> SUFFICES ASSUME NEW i \in revents
                 PROVE  (peers[i].socket \in Listeners \/ Readable(peers[i].socket))'
      OBVIOUS
    <3>1. /\ i \in 1..Len(peers)
          /\ peers[i].socket \in Listeners \/ Readable(peers[i].socket)
      BY <1>1 DEF ServerInv, Polled
    <3>2. peers'[i] = peers[i]
      BY <3>1, <2>4
    <3>. QED BY <3>1, <3>2, <1>4 DEF Readable
  <2>14. server_socket' # NoSocket
    BY <1>1, <1>2 DEF NoSocket
  <2>15. Polled'
    BY <1>1, <1>4, <2>11, <2>12, <2>13, <2>14 DEF Polled, Readable
  <2>. QED BY <2>5, <2>6, <2>7, <2>8, <2>9, <2>15 DEF ServerInv
<1>. QED BY <1>3, <1>4 DEF chat_server_listen

(* The return of poll() (lines 183-209).                                   *)
LEMMA PollKeeps ==
    ASSUME NetInv, ServerInv, updatePoll
    PROVE  NetInv' /\ ServerInv' /\ Fits
<1>1. /\ server = "live" /\ pc = "idle" /\ is_started
      /\ revents' = {i \in 1..Len(peers) : Readable(peers[i].socket)}
      /\ pc' = IF 1 \in revents' THEN "accept" ELSE "scan"
      /\ UNCHANGED <<net, server, server_socket, is_started, peers, messages, total_messages>>
  BY DEF updatePoll
<1>2. NetInv'
  BY <1>1 DEF net, NetInv, NetTypes, Queues, Streams
<1>3. Fits
  BY <1>1, FitsUnread DEF net
<1>4. ServerTypes' /\ Peered' /\ Buffers'
  BY <1>1 DEF net, ServerInv, ServerTypes, Peered, Buffers, Holds, Taken
<1>5. pc' = "accept" /\ server_socket = 1 => backlog[1] # <<>>
  <2> SUFFICES ASSUME 1 \in revents', server_socket = 1 PROVE backlog[1] # <<>>
    BY <1>1
  <2>1. peers[1].socket = 1 /\ Readable(peers[1].socket)
    BY <1>1 DEF ServerInv, Polled
  <2>2. 1 \in Listeners
    BY DEF Listeners
  <2>. QED BY <2>1, <2>2 DEF Readable
<1>6. \A i \in revents' : Readable(peers[i].socket)'
  BY <1>1 DEF net, Readable
<1>7. Polled'
  BY <1>1, <1>5, <1>6 DEF net, ServerInv, Polled
<1>. QED BY <1>1, <1>2, <1>3, <1>4, <1>7 DEF ServerInv

(* The end of the call (lines 298-301).                                    *)
LEMMA ReturnKeeps ==
    ASSUME NetInv, ServerInv, updateReturn
    PROVE  NetInv' /\ ServerInv' /\ Fits
<1>1. /\ server = "live" /\ pc = "scan" /\ pc' = "idle" /\ revents' = {}
      /\ UNCHANGED <<net, server, server_socket, is_started, peers, messages, total_messages>>
  BY DEF updateReturn
<1>2. NetInv'
  BY <1>1 DEF net, NetInv, NetTypes, Queues, Streams
<1>3. Fits
  BY <1>1, FitsUnread DEF net
<1>4. ServerTypes' /\ Peered' /\ Buffers'
  BY <1>1 DEF net, ServerInv, ServerTypes, Peered, Buffers, Holds, Taken
<1>5. Polled'
  BY <1>1 DEF net, ServerInv, Polled
<1>. QED BY <1>1, <1>2, <1>3, <1>4, <1>5 DEF ServerInv

(* The next connection leaves its queue (lines 211-234).                   *)
LEMMA NetAccepts ==
    ASSUME NetInv, NEW l \in Listeners, backlog[l] # <<>>, NEW k, k = Head(backlog[l]),
           conn' = [conn EXCEPT ![k] = "accepted"],
           backlog' = [backlog EXCEPT ![l] = Tail(@)],
           UNCHANGED <<port, sent, wire, hup>>
    PROVE  /\ NetInv' /\ k \in Conns /\ conn[k] = "queued"
           /\ conn'[k] = "accepted" /\ \A x \in Conns : x # k => conn'[x] = conn[x]
<1>1. backlog[l] \in Seq(Conns) /\ Len(backlog[l]) \in Nat
  BY LenProperties DEF NetInv, NetTypes
<1>2. 1 \in 1..Len(backlog[l])
  BY <1>1, EmptySeq
<1>3. /\ k = backlog[l][1] /\ Tail(backlog[l]) \in Seq(Conns)
      /\ Len(Tail(backlog[l])) = Len(backlog[l]) - 1
      /\ \A i \in 1..Len(backlog[l]) - 1 : Tail(backlog[l])[i] = backlog[l][i + 1]
  BY <1>1, HeadTailProperties
<1>4. k \in Conns /\ conn[k] = "queued"
  BY <1>1, <1>2, <1>3, ElementOfSeq DEF NetInv, Queues
<1>5. /\ conn' \in [Conns -> {"free", "queued", "accepted", "dead"}]
      /\ conn'[k] = "accepted" /\ \A x \in Conns : x # k => conn'[x] = conn[x]
      /\ backlog' \in [Listeners -> Seq(Conns)] /\ backlog'[l] = Tail(backlog[l])
      /\ \A m \in Listeners : m # l => backlog'[m] = backlog[m]
  BY <1>3, <1>4 DEF NetInv, NetTypes
<1> DEFINE old(m, i) == IF m = l THEN i + 1 ELSE i
<1>6. ASSUME NEW m \in Listeners, NEW i \in 1..Len(backlog'[m])
      PROVE  /\ old(m, i) \in 1..Len(backlog[m]) /\ backlog'[m][i] = backlog[m][old(m, i)]
             /\ m = l => old(m, i) # 1
  <2>1. CASE m = l
    <3>1. i \in 1..Len(backlog[l]) - 1
      BY <2>1, <1>3, <1>5
    <3>. QED BY <3>1, <2>1, <1>1, <1>3, <1>5
  <2>2. CASE m # l
    BY <2>2, <1>5
  <2>. QED BY <2>1, <2>2
<1>7. \A q, r \in Listeners : \A a \in 1..Len(backlog[q]), b \in 1..Len(backlog[r]) :
         backlog[q][a] = backlog[r][b] => q = r /\ a = b
  BY DEF NetInv, Queues
<1>8. ASSUME NEW m \in Listeners, NEW i \in 1..Len(backlog'[m])
      PROVE  conn'[backlog'[m][i]] = "queued"
  <2>1. /\ old(m, i) \in 1..Len(backlog[m]) /\ backlog'[m][i] = backlog[m][old(m, i)]
        /\ m = l => old(m, i) # 1
    BY <1>6
  <2> HIDE DEF old
  <2>2. backlog[m][old(m, i)] \in Conns /\ conn[backlog[m][old(m, i)]] = "queued"
    BY <2>1, ElementOfSeq DEF NetInv, NetTypes, Queues
  <2>3. backlog[m][old(m, i)] # k
    BY <2>1, <1>2, <1>3, <1>7
  <2>. QED BY <2>1, <2>2, <2>3, <1>5
<1>9. ASSUME NEW m \in Listeners, NEW n \in Listeners, NEW i \in 1..Len(backlog'[m]),
             NEW j \in 1..Len(backlog'[n]), backlog'[m][i] = backlog'[n][j]
      PROVE  m = n /\ i = j
  <2>1. /\ old(m, i) \in 1..Len(backlog[m]) /\ old(n, j) \in 1..Len(backlog[n])
        /\ backlog[m][old(m, i)] = backlog[n][old(n, j)]
    BY <1>6, <1>9
  <2> HIDE DEF old
  <2>2. m = n /\ old(m, i) = old(n, j)
    BY <2>1, <1>7
  <2>3. Len(backlog'[m]) \in Nat /\ Len(backlog'[n]) \in Nat
    BY <1>5, LenProperties
  <2>. QED BY <2>2, <2>3 DEF old
<1>10. Queues'
  BY <1>8, <1>9 DEF Queues
<1>11. NetInv'
  BY <1>5, <1>10 DEF NetInv, NetTypes, Streams
<1>. QED BY <1>4, <1>5, <1>11
(* A connection is accepted (lines 211-234).                               *)
LEMMA AcceptKeeps ==
    ASSUME NetInv, ServerInv, updateAccept
    PROVE  NetInv' /\ ServerInv' /\ Fits
<1>1. /\ server = "live" /\ pc = "accept" /\ pc' = "scan" /\ is_started
      /\ UNCHANGED <<server, server_socket, is_started, messages, total_messages>>
  BY DEF updateAccept, ServerInv, Polled
<1>2. CASE port[server_socket] = NoPort
  <2>1. UNCHANGED <<net, peers, revents>>
    BY <1>2 DEF updateAccept
  <2>2. NetInv'
    BY <2>1 DEF net, NetInv, NetTypes, Queues, Streams
  <2>3. Fits
    BY <1>1, <2>1, FitsUnread DEF net
  <2>4. ServerTypes' /\ Peered' /\ Buffers'
    BY <1>1, <2>1 DEF net, ServerInv, ServerTypes, Peered, Buffers, Holds, Taken
  <2>5. Polled'
    BY <1>1, <2>1 DEF net, ServerInv, Polled, Readable
  <2>. QED BY <2>2, <2>3, <2>4, <2>5 DEF ServerInv
<1>3. CASE port[server_socket] # NoPort
  <2> DEFINE l == server_socket
             k == Head(backlog[l])
             new == [socket |-> k, input |-> <<>>, input_size |-> 0]
  <2>1. /\ backlog[l] # <<>>
        /\ conn' = [conn EXCEPT ![k] = "accepted"]
        /\ peers' = Append(peers, new)
        /\ backlog' = [backlog EXCEPT ![l] = Tail(@)]
        /\ revents' = revents
        /\ UNCHANGED <<port, sent, wire, hup>>
    BY <1>3 DEF updateAccept, WithPeer, AfterAccept
  <2>2. l \in Listeners
    BY <1>1 DEF ServerInv, ServerTypes, Polled
  <2> HIDE DEF l
  <2>3. /\ NetInv' /\ k \in Conns /\ conn[k] = "queued"
        /\ conn'[k] = "accepted" /\ \A x \in Conns : x # k => conn'[x] = conn[x]
    BY <2>1, <2>2, NetAccepts
  <2>4. new \in Peer /\ new.socket = k /\ new.input = <<>> /\ new.input_size = 0
    <3>1. <<>> \in Seq(Bytes)
      OBVIOUS
    <3>. QED BY <3>1, <2>3 DEF Peer
  <2> HIDE DEF k, new
  <2>5. /\ peers' \in Seq(Peer) /\ Len(peers) \in Nat /\ Len(peers') = Len(peers) + 1
        /\ \A i \in 1..Len(peers) : peers'[i] = peers[i]
        /\ peers'[Len(peers) + 1] = new
        /\ \A i \in 1..Len(peers') : i \in 1..Len(peers) \/ i = Len(peers) + 1
    BY <2>1, <2>4, PeersAppended DEF ServerInv
  <2>6. Fits
    BY <1>1, <2>1, <2>5, FitsUnread
  <2>7. ServerTypes'
    BY <1>1, <2>5 DEF ServerInv, ServerTypes
  <2>8. \A i \in 1..Len(peers) : peers[i].socket # k
    BY <1>1, <2>3 DEF ServerInv, Peered
  <2>9. Peered'
    <3>1. ASSUME NEW i \in 1..Len(peers'), NEW j \in 1..Len(peers'),
                 peers'[i].socket \in Conns, peers'[i].socket = peers'[j].socket
          PROVE  i = j
      <4>1. CASE i \in 1..Len(peers) /\ j \in 1..Len(peers)
        BY <4>1, <3>1, <1>1, <2>5 DEF ServerInv, Peered
      <4>2. CASE i = Len(peers) + 1 \/ j = Len(peers) + 1
        BY <4>2, <3>1, <2>4, <2>5, <2>8
      <4>. QED BY <4>1, <4>2, <2>5
    <3>2. ASSUME NEW x \in Conns
          PROVE  conn'[x] = "accepted" <=> \E i \in 1..Len(peers') : peers'[i].socket = x
      <4>1. CASE x = k
        <5>1. Len(peers) + 1 \in 1..Len(peers')
          BY <2>5
        <5>. QED BY <5>1, <4>1, <2>3, <2>4, <2>5
      <4>2. CASE x # k
        <5>1. conn'[x] = conn[x]
          BY <4>2, <2>3
        <5>2. conn[x] = "accepted" <=> \E i \in 1..Len(peers) : peers[i].socket = x
          BY <1>1 DEF ServerInv, Peered
        <5>3. 1..Len(peers) \subseteq 1..Len(peers')
          BY <2>5
        <5>. QED BY <5>1, <5>2, <5>3, <4>2, <2>4, <2>5
      <4>. QED BY <4>1, <4>2
    <3>. QED BY <3>1, <3>2 DEF Peered
  <2>10. Buffers'
    <3>1. \A i \in 1..Len(peers) : Holds(peers[i])'
      <4>1. \A i \in 1..Len(peers) : Holds(peers[i])
        BY <1>1 DEF ServerInv, Buffers
      <4>. QED BY <4>1, <2>1, <2>5 DEF Holds, Taken
    <3>2. Upto(<<>>, sent[k], Taken(k))
      <4>1. Taken(k) \in Nat /\ Taken(k) <= Len(sent[k])
        BY <2>3, TakenIs
      <4>. QED BY <4>1 DEF Upto
    <3>3. Upto(new.input, sent'[new.socket], Len(sent'[new.socket]) - Len(wire'[new.socket]))
      BY <3>2, <2>1, <2>4 DEF Taken
    <3>4. Len(new.input) <= new.input_size
      BY <2>4
    <3>5. ASSUME NEW i \in 1..Len(peers') PROVE Holds(peers[i])'
      <4>1. CASE i \in 1..Len(peers)
        BY <4>1, <3>1
      <4>2. CASE i = Len(peers) + 1
        <5>1. peers'[i] = new
          BY <4>2, <2>5
        <5>. QED BY <5>1, <3>3, <3>4 DEF Holds, Taken
      <4>. QED BY <4>1, <4>2, <2>5
    <3>. QED BY <3>5 DEF Buffers
  <2>11. revents \subseteq 1..Len(peers) /\ revents \subseteq 1..Len(peers')
    BY <1>1, <2>5 DEF ServerInv, Polled
  <2>12. \A i \in revents : (peers[i].socket \in Listeners \/ Readable(peers[i].socket))'
    <3> SUFFICES ASSUME NEW i \in revents
                 PROVE  (peers[i].socket \in Listeners \/ Readable(peers[i].socket))'
      OBVIOUS
    <3>1. peers[i].socket \in Listeners \/ Readable(peers[i].socket)
      BY <1>1 DEF ServerInv, Polled
    <3>2. peers'[i] = peers[i]
      BY <2>5, <2>11
    <3>. QED BY <3>1, <3>2, <2>1 DEF Readable
  <2>13. server_socket = 1 => Len(peers') >= 1 /\ peers'[1].socket = 1
    <3> SUFFICES ASSUME server_socket = 1 PROVE Len(peers') >= 1 /\ peers'[1].socket = 1
      OBVIOUS
    <3>1. Len(peers) >= 1 /\ peers[1].socket = 1
      BY <1>1 DEF ServerInv, Polled
    <3>2. 1 \in 1..Len(peers)
      BY <3>1, <2>5
    <3>. QED BY <3>1, <3>2, <2>5
  <2>14. server_socket # NoSocket
    BY <1>1 DEF ServerInv, Polled
  <2>15. Polled'
    BY <1>1, <2>1, <2>11, <2>12, <2>13, <2>14 DEF Polled, Readable
  <2>. QED BY <2>3, <2>6, <2>7, <2>9, <2>10, <2>15 DEF ServerInv
<1>. QED BY <1>2, <1>3
(* The record of a peer that was read.                                     *)
LEMMA PeerUpdated ==
    ASSUME NEW r \in Peer, NEW input, NEW size
    PROVE  [[r EXCEPT !.input = input] EXCEPT !.input_size = size]
             = [socket |-> r.socket, input |-> input, input_size |-> size]
<1>1. PICK a, b, c : r = [socket |-> a, input |-> b, input_size |-> c]
  BY DEF Peer
<1>2. [r EXCEPT !.input = input] = [socket |-> a, input |-> input, input_size |-> c]
  BY <1>1
<1>3. PICK q : q = [socket |-> a, input |-> input, input_size |-> c]
  OBVIOUS
<1>4. [q EXCEPT !.input_size = size] = [socket |-> a, input |-> input, input_size |-> size]
  BY <1>3
<1>5. r.socket = a
  BY <1>1
<1>. QED BY <1>2, <1>3, <1>4, <1>5

(* One read of a peer (lines 239-295).                                     *)
LEMMA ReadKeeps ==
    ASSUME NetInv, ServerInv, server = "live", pc = "scan", NEW i \in revents,
           peers[i].socket \notin Listeners,
           NEW n \in 0..Len(wire[peers[i].socket]), readPeer(i, n)
    PROVE  NetInv' /\ ServerInv' /\ Fits
<1>1. /\ i \in 1..Len(peers) /\ peers[i].socket \in Conns
      /\ peers[i] \in Peer /\ peers[i].input \in Seq(Bytes) /\ Len(peers[i].input) \in Nat
      /\ peers[i].input_size \in Nat /\ Len(peers) \in Nat
  <2>1. i \in 1..Len(peers)
    BY DEF ServerInv, Polled
  <2>. QED BY <2>1, PeersAre DEF ServerInv
<1> DEFINE k == peers[i].socket
           x == peers[i].input
           size == peers[i].input_size
           data == x \o SubSeq(wire[k], 1, n)
           b == Parsed(data).bytes
           left == SubSeq(wire[k], n + 1, Len(wire[k]))
           grown == Grown(size, Len(x), n)
<1>2. /\ wire' = [wire EXCEPT ![k] = left]
      /\ \/ Crash /\ UNCHANGED peers
         \/ /\ peers' = [peers EXCEPT ![i].input = Rest(data, b), ![i].input_size = grown]
            /\ revents' = revents \ {i}
            /\ UNCHANGED <<port, backlog, conn, sent, hup, server, server_socket, is_started,
                           total_messages, pc>>
  BY DEF readPeer
<1>3. Upto(x, sent[k], Taken(k)) /\ Len(x) <= size
  BY <1>1 DEF ServerInv, Buffers, Holds
<1>4. /\ sent[k] \in Seq(Bytes) /\ wire[k] \in Seq(Bytes)
      /\ Len(sent[k]) \in Nat /\ Len(wire[k]) \in Nat /\ n \in 0..Len(wire[k])
      /\ Upto(wire[k], sent[k], Len(sent[k])) /\ Taken(k) \in Nat
      /\ Taken(k) = Len(sent[k]) - Len(wire[k])
  BY <1>1, TakenIs DEF NetInv, Streams, Taken
<1>5. left = Rest(wire[k], n)
  BY DEF Rest
<1>6. left \in Seq(Bytes) /\ Len(left) = Len(wire[k]) - n /\ Upto(left, sent[k], Len(sent[k]))
  <2> DEFINE w == wire[k]
             s == sent[k]
  <2>1. /\ w \in Seq(Bytes) /\ s \in Seq(Bytes) /\ n \in 0..Len(w)
        /\ Len(s) \in Nat /\ Upto(w, s, Len(s)) /\ left = Rest(w, n)
    BY <1>4, <1>5
  <2> HIDE DEF w, s, left
  <2>2. left \in Seq(Bytes) /\ Len(left) = Len(w) - n /\ Upto(left, s, Len(s))
    BY <2>1, UptoRest
  <2>. QED BY <2>2 DEF w, s
<1>7. /\ data \in Seq(Bytes) /\ Len(data) = Len(x) + n
      /\ Upto(data, sent[k], Len(sent[k]) - Len(wire[k]) + n)
  <2>1. Upto(x, sent[k], Len(sent[k]) - Len(wire[k]))
    BY <1>3, <1>4
  <2>2. x \in Seq(Bytes)
    BY <1>1
  <2> HIDE DEF k, x
  <2>. QED BY <2>1, <2>2, <1>4, UptoRead
<1>8. k \in Conns
  BY <1>1
<1> HIDE DEF left, data
<1>9. /\ wire' \in [Conns -> Seq(Bytes)] /\ wire'[k] = left
      /\ \A y \in Conns : y # k => wire'[y] = wire[y]
      /\ \A y \in Conns : Upto(wire'[y], sent[y], Len(sent[y]))
  BY <1>1, <1>2, <1>6 DEF NetInv, NetTypes, Streams
<1>10. CASE Crash /\ UNCHANGED peers
  BY <1>9, <1>10, CrashKeeps
<1>11. CASE /\ peers' = [peers EXCEPT ![i].input = Rest(data, b), ![i].input_size = grown]
            /\ revents' = revents \ {i}
            /\ UNCHANGED <<port, backlog, conn, sent, hup, server, server_socket, is_started,
                           total_messages, pc>>
  <2> DEFINE rest == Rest(data, b)
             new == [socket |-> k, input |-> rest, input_size |-> grown]
  <2>1. b \in 0..Len(data)
    BY <1>7, ParsedInside
  <2>2. Len(sent[k]) - Len(wire[k]) + n \in Nat
    BY <1>4
  <2>3. /\ rest \in Seq(Bytes) /\ Len(rest) = Len(data) - b
        /\ Upto(rest, sent[k], Len(sent[k]) - Len(wire[k]) + n)
    <3> DEFINE r == Len(sent[k]) - Len(wire[k]) + n
               s == sent[k]
    <3>1. r \in Nat /\ s \in Seq(Bytes) /\ data \in Seq(Bytes) /\ b \in 0..Len(data)
          /\ Upto(data, s, r)
      BY <1>4, <1>7, <2>1, <2>2
    <3> HIDE DEF r, s, b
    <3>2. rest \in Seq(Bytes) /\ Len(rest) = Len(data) - b /\ Upto(rest, s, r)
      BY <3>1, UptoRest
    <3>. QED BY <3>2 DEF r, s
  <2>4. grown \in Nat /\ Len(x) + n <= grown
    <3>1. Len(x) \in Nat /\ size \in Nat /\ n \in Nat
      BY <1>1, <1>4
    <3> HIDE DEF x, size
    <3>. QED BY <3>1 DEF Grown
  <2> HIDE DEF b, rest, grown
  <2>5. Len(rest) <= grown
    <3>1. Len(rest) <= Len(x) + n /\ Len(rest) \in Nat /\ Len(x) \in Nat /\ n \in Nat
      BY <2>1, <2>3, <1>1, <1>4, <1>7
    <3>. QED BY <3>1, <2>4
  <2>6. peers \in Seq(Peer)
    BY DEF ServerInv, ServerTypes
  <2>7. new \in Peer
    BY <1>8, <2>3, <2>4 DEF Peer
  <2> HIDE DEF new
  <2>8. peers' = [peers EXCEPT ![i] = new]
    <3>1. [[peers[i] EXCEPT !.input = rest] EXCEPT !.input_size = grown] = new
      BY <1>1, PeerUpdated DEF new
    <3>2. peers' = [peers EXCEPT ![i] = [[peers[i] EXCEPT !.input = rest] EXCEPT !.input_size = grown]]
      BY <1>11, <1>1, <2>6 DEF rest, b, grown
    <3>. QED BY <3>1, <3>2
  <2>9. new.socket = k /\ new.input = rest /\ new.input_size = grown
    BY DEF new
  <2>10. /\ peers' \in Seq(Peer) /\ Len(peers') = Len(peers) /\ peers'[i] = new
         /\ \A j \in 1..Len(peers) : j # i => peers'[j] = peers[j]
    BY <1>1, <2>6, <2>7, <2>8, ExceptSeq
  <2>11. \A j \in 1..Len(peers) : peers'[j].socket = peers[j].socket
    BY <2>9, <2>10
  <2>12. \A j \in 1..Len(peers) : j # i => peers[j].socket # k
    BY <1>1 DEF ServerInv, Peered
  <2>13. NetInv'
    <3>1. NetTypes'
      BY <1>9, <1>11 DEF NetInv, NetTypes
    <3>2. Queues'
      BY <1>11 DEF NetInv, Queues
    <3>3. Streams'
      BY <1>9, <1>11 DEF Streams
    <3>. QED BY <3>1, <3>2, <3>3 DEF NetInv
  <2>14. ServerTypes'
    BY <1>11, <2>10 DEF ServerInv, ServerTypes
  <2>15. Peered'
    BY <1>11, <2>10, <2>11 DEF ServerInv, Peered
  <2>16. Buffers'
    <3>1. Len(sent[k]) - Len(left) = Len(sent[k]) - Len(wire[k]) + n
      <4> DEFINE a == Len(sent[k])
                 c == Len(wire[k])
      <4>1. a \in Nat /\ c \in Nat /\ n \in Nat /\ Len(left) = c - n
        BY <1>4, <1>6
      <4> HIDE DEF a, c
      <4>2. a - (c - n) = a - c + n
        BY <4>1
      <4>3. a - Len(left) = a - c + n
        BY <4>1, <4>2
      <4>. QED BY <4>3 DEF a, c
    <3>2. Upto(rest, sent'[k], Len(sent'[k]) - Len(wire'[k]))
      BY <2>3, <3>1, <1>9, <1>11
    <3> SUFFICES ASSUME NEW j \in 1..Len(peers'), peers'[j].socket \in Conns
                 PROVE  /\ Upto(peers'[j].input, sent'[peers'[j].socket],
                                Len(sent'[peers'[j].socket]) - Len(wire'[peers'[j].socket]))
                        /\ Len(peers'[j].input) <= peers'[j].input_size
      BY DEF Buffers, Holds, Taken
    <3>3. CASE j = i
      BY <3>2, <3>3, <2>5, <2>9, <2>10
    <3>4. CASE j # i
      <4>1. peers'[j] = peers[j] /\ peers[j].socket # k /\ j \in 1..Len(peers)
        BY <3>4, <2>10, <2>12
      <4>2. peers[j].socket \in Conns
        BY <4>1
      <4>3. wire'[peers[j].socket] = wire[peers[j].socket] /\ sent' = sent
        BY <4>1, <4>2, <1>9, <1>11
      <4>4. /\ Upto(peers[j].input, sent[peers[j].socket],
                    Len(sent[peers[j].socket]) - Len(wire[peers[j].socket]))
            /\ Len(peers[j].input) <= peers[j].input_size
        BY <4>1, <4>2 DEF ServerInv, Buffers, Holds, Taken
      <4>. QED BY <4>1, <4>3, <4>4
    <3>. QED BY <3>3, <3>4
  <2>17. Polled'
    <3>1. revents' \subseteq 1..Len(peers')
      BY <1>11, <2>10 DEF ServerInv, Polled
    <3>2. is_started /\ server_socket # NoSocket
      BY DEF ServerInv, Polled
    <3>3. server_socket = 1 => Len(peers') >= 1 /\ peers'[1].socket = 1
      <4> SUFFICES ASSUME server_socket = 1 PROVE Len(peers') >= 1 /\ peers'[1].socket = 1
        OBVIOUS
      <4>1. Len(peers) >= 1 /\ peers[1].socket = 1
        BY DEF ServerInv, Polled
      <4>2. 1 \in 1..Len(peers)
        BY <4>1, <1>1
      <4>. QED BY <4>1, <4>2, <2>10, <2>11
    <3>4. ASSUME NEW j \in revents'
          PROVE  (peers[j].socket \in Listeners \/ Readable(peers[j].socket))'
      <4>1. j \in revents /\ j # i /\ j \in 1..Len(peers)
        BY <1>11 DEF ServerInv, Polled
      <4>2. peers'[j] = peers[j] /\ peers[j].socket # k
        BY <4>1, <2>10, <2>12
      <4>3. peers[j].socket \in Listeners \/ Readable(peers[j].socket)
        BY <4>1 DEF ServerInv, Polled
      <4>4. CASE peers[j].socket \in Listeners
        BY <4>2, <4>4
      <4>5. CASE peers[j].socket \notin Listeners
        <5>1. peers[j].socket \in Conns
          BY <4>1, <4>5, PeersAre DEF ServerInv
        <5>2. wire'[peers[j].socket] = wire[peers[j].socket]
          BY <5>1, <4>2, <1>9
        <5>. QED BY <5>2, <4>2, <4>3, <4>5, <1>11 DEF Readable
      <4>. QED BY <4>4, <4>5
    <3>. QED BY <3>1, <3>2, <3>3, <3>4, <1>11 DEF Polled
  <2>18. Fits
    <3> SUFFICES ASSUME NEW j \in 1..Len(peers), peers[j].socket \in Conns
                 PROVE  Len(peers[j].input) + Arrived(peers[j].socket) <= peers'[j].input_size
      BY DEF Fits
    <3>1. CASE j = i
      <4>1. Arrived(k) = Len(wire[k]) - Len(left)
        BY <1>9 DEF Arrived
      <4>2. Arrived(k) = n
        BY <4>1, <1>4, <1>6
      <4>. QED BY <4>2, <3>1, <2>4, <2>9, <2>10
    <3>2. CASE j # i
      <4> DEFINE held == Len(peers[j].input)
                 room == peers[j].input_size
                 before == Len(wire[peers[j].socket])
      <4>1. held <= room /\ held \in Nat /\ room \in Nat
        BY PeersAre DEF ServerInv, Buffers, Holds
      <4>2. peers[j].socket # k
        BY <3>2, <2>12
      <4>3. before \in Nat /\ Arrived(peers[j].socket) = before - before
        BY <4>2, <1>9, TakenIs DEF Arrived
      <4>4. peers'[j] = peers[j]
        BY <3>2, <2>10
      <4> HIDE DEF held, room, before
      <4>5. held + (before - before) <= room
        BY <4>1, <4>3
      <4>. QED BY <4>3, <4>4, <4>5 DEF held, room
    <3>. QED BY <3>1, <3>2
  <2>. QED BY <2>13, <2>14, <2>15, <2>16, <2>17, <2>18 DEF ServerInv
<1>. QED BY <1>2, <1>10, <1>11
(* The loop over the peers (lines 236-296).                                *)
LEMMA ScanKeeps ==
    ASSUME NetInv, ServerInv, updateScan
    PROVE  NetInv' /\ ServerInv' /\ Fits
<1>1. PICK i \in revents :
        IF peers[i].socket \in Listeners
        THEN /\ revents' = revents \ {i}
             /\ UNCHANGED <<net, server, server_socket, is_started, peers, messages,
                            total_messages, pc>>
        ELSE LET k == peers[i].socket
             IN  IF wire[k] = <<>> THEN readPeer(i, 0)
                 ELSE \E n \in 1..ReadSize : n <= Len(wire[k]) /\ readPeer(i, n)
  BY DEF updateScan, Visited
<1>2. server = "live" /\ pc = "scan"
  BY DEF updateScan
<1>3. CASE peers[i].socket \in Listeners
  <2>1. /\ revents' = revents \ {i}
        /\ UNCHANGED <<net, server, server_socket, is_started, peers, messages,
                       total_messages, pc>>
    BY <1>1, <1>3
  <2>2. NetInv'
    BY <2>1 DEF net, NetInv, NetTypes, Queues, Streams
  <2>3. Fits
    BY <1>2, <2>1, FitsUnread DEF net
  <2>4. ServerTypes' /\ Peered' /\ Buffers'
    BY <1>2, <2>1 DEF net, ServerInv, ServerTypes, Peered, Buffers, Holds, Taken
  <2>5. Polled'
    BY <1>2, <2>1 DEF net, ServerInv, Polled, Readable
  <2>. QED BY <2>2, <2>3, <2>4, <2>5 DEF ServerInv
<1>4. CASE peers[i].socket \notin Listeners
  <2>1. i \in 1..Len(peers)
    BY <1>2 DEF ServerInv, Polled
  <2>2. peers[i].socket \in Conns
    BY <1>4, <2>1, PeersAre DEF ServerInv
  <2>3. Len(wire[peers[i].socket]) \in Nat
    BY <2>2, TakenIs
  <2>4. PICK n \in 0..Len(wire[peers[i].socket]) : readPeer(i, n)
    <3>1. CASE wire[peers[i].socket] = <<>>
      <4>1. readPeer(i, 0) /\ 0 \in 0..Len(wire[peers[i].socket])
        BY <3>1, <1>1, <1>4, <2>3
      <4>. QED BY <4>1
    <3>2. CASE wire[peers[i].socket] # <<>>
      <4>1. PICK n \in 1..ReadSize : n <= Len(wire[peers[i].socket]) /\ readPeer(i, n)
        BY <3>2, <1>1, <1>4
      <4>2. n \in 0..Len(wire[peers[i].socket])
        BY <4>1, <2>3, SizesAssumption
      <4>. QED BY <4>1, <4>2
    <3>. QED BY <3>1, <3>2
  <2>. QED BY <1>2, <1>4, <2>4, ReadKeeps
<1>. QED BY <1>3, <1>4

(* The first state (chat_server.c:72-94, chat_client.c:101-127).           *)
LEMMA InitInv == Init => ChatInv
<1> SUFFICES ASSUME Init PROVE ChatInv
  OBVIOUS
<1> USE DEF Init
<1>1. NetTypes
  <2>1. <<>> \in Seq(Conns) /\ <<>> \in Seq(Bytes)
    OBVIOUS
  <2>. QED BY <2>1 DEF NetInit, NetTypes
<1>2. Queues
  <2>1. \A l \in Listeners : Len(backlog[l]) = 0
    BY DEF NetInit
  <2>. QED BY <2>1 DEF Queues
<1>3. Streams
  BY DEF NetInit, Streams, Upto
<1>4. ServerTypes
  <2>1. <<>> \in Seq(Peer)
    OBVIOUS
  <2>. QED BY <2>1 DEF ServerInit, ServerTypes
<1>5. Peered /\ Buffers
  <2>1. Len(peers) = 0
    BY DEF ServerInit
  <2>2. \A k \in Conns : conn[k] # "accepted"
    BY DEF NetInit
  <2>. QED BY <2>1, <2>2 DEF Peered, Buffers
<1>6. Polled
  BY DEF ServerInit, Polled
<1>7. ClientInv
  BY ClientAssumption DEF ClientInit, ClientInv
<1>. QED BY <1>1, <1>2, <1>3, <1>4, <1>5, <1>6, <1>7 DEF ChatInv, NetInv, ServerInv

(* Every step keeps the invariant, and reads no more than its buffer holds *)
(* (chat_server_exe.c:56-71 drives the server, anybody the clients).       *)
LEMMA StepInv ==
    ASSUME ChatInv, [Next]_vars
    PROVE  ChatInv' /\ [Fits]_vars
<1>0. NetInv /\ ServerInv /\ ClientInv
  BY DEF ChatInv
<1>1. CASE UNCHANGED vars
  <2>1. UNCHANGED net /\ UNCHANGED serverVars /\ UNCHANGED clientVars
    BY <1>1 DEF vars
  <2>2. NetInv'
    BY <1>0, <2>1 DEF net, NetInv, NetTypes, Queues, Streams
  <2>3. NetMoves
    BY <2>1 DEF net, NetMoves
  <2>4. ServerInv'
    BY <1>0, <2>1, <2>2, <2>3, ServerUndisturbed
  <2>5. ClientInv'
    BY <1>0, <2>1 DEF clientVars, ClientInv
  <2>. QED BY <1>1, <2>2, <2>4, <2>5 DEF ChatInv
<1>2. CASE serverStep /\ UNCHANGED clientVars
  <2>1. ClientInv'
    BY <1>0, <1>2 DEF clientVars, ClientInv
  <2>2. NetInv' /\ ServerInv' /\ Fits
    BY <1>0, <1>2, DeleteKeeps, ListenKeeps, OverrunKeeps, PollKeeps, AcceptKeeps, ScanKeeps,
       ReturnKeeps DEF serverStep, updateStep
  <2>. QED BY <2>1, <2>2 DEF ChatInv
<1>3. CASE (\E c \in Clients : clientStep(c)) /\ UNCHANGED serverVars
  <2>1. NetInv' /\ NetMoves /\ ClientInv'
    BY <1>0, <1>3, ClientKeeps
  <2>2. ServerInv' /\ Fits
    BY <1>0, <1>3, <2>1, ServerUndisturbed
  <2>. QED BY <2>1, <2>2 DEF ChatInv
<1>4. CASE foreign /\ UNCHANGED <<serverVars, clientVars>>
  <2>1. NetInv' /\ NetMoves
    BY <1>0, <1>4, ForeignKeeps
  <2>2. ServerInv' /\ Fits
    BY <1>0, <1>4, <2>1, ServerUndisturbed
  <2>3. ClientInv'
    BY <1>0, <1>4 DEF clientVars, ClientInv
  <2>. QED BY <2>1, <2>2, <2>3 DEF ChatInv
<1>. QED BY <1>1, <1>2, <1>3, <1>4 DEF Next

(* The invariant holds always (chat_server.c:72-301).                      *)
LEMMA ChatAlways == Spec => []ChatInv
<1>1. ChatInv /\ [Next]_vars => ChatInv'
  BY StepInv
<1>. QED BY <1>1, InitInv, PTL DEF Spec

(* Streams are kept apart and in order: an accepted connection has one     *)
(* peer, whose buffer is the end of what was read from this connection     *)
(* (chat_server.c:211-293).                                                *)
THEOREM StreamsKept == Spec => []StreamKept
<1>1. ChatInv => StreamKept
  <2> SUFFICES ASSUME ChatInv PROVE StreamKept
    OBVIOUS
  <2>1. NetInv /\ ServerInv /\ ClientInv
    BY DEF ChatInv
  <2>2. TypeOK
    <3>1. \A k \in Conns : IsSuffix(wire[k], sent[k])
      <4> SUFFICES ASSUME NEW k \in Conns PROVE IsSuffix(wire[k], sent[k])
        OBVIOUS
      <4>1. /\ sent[k] \in Seq(Bytes) /\ wire[k] \in Seq(Bytes) /\ Len(sent[k]) \in Nat
            /\ Upto(wire[k], sent[k], Len(sent[k]))
        BY <2>1, TakenIs DEF NetInv, Streams
      <4>2. IsSuffix(wire[k], SubSeq(sent[k], 1, Len(sent[k])))
        BY <4>1, UptoIsSuffix
      <4>3. SubSeq(sent[k], 1, Len(sent[k])) = sent[k]
        BY <4>1
      <4>. QED BY <4>2, <4>3
    <3>2. \A i \in 1..Len(peers) : peers[i].socket \in Listeners \union Conns
      BY <2>1, PeersAre DEF ServerInv
    <3>. QED BY <2>1, <3>1, <3>2 DEF TypeOK, NetInv, NetTypes, ServerInv, ServerTypes, ClientInv
  <2>3. ASSUME server = "live", NEW k \in Conns, NEW mine,
               mine = {i \in 1..Len(peers) : peers[i].socket = k}
        PROVE  /\ Cardinality(mine) = IF conn[k] = "accepted" THEN 1 ELSE 0
               /\ \A i \in mine : IsSuffix(peers[i].input, Received(k))
    <3>1. /\ \A i, j \in mine : i = j
          /\ conn[k] = "accepted" <=> mine # {}
      BY <2>1, <2>3 DEF ServerInv, Peered
    <3>2. Cardinality(mine) = IF conn[k] = "accepted" THEN 1 ELSE 0
      <4>1. CASE mine = {}
        BY <4>1, <3>1, FS_EmptySet
      <4>2. CASE mine # {}
        <5>1. PICK i : i \in mine
          BY <4>2
        <5>2. mine = {i}
          BY <5>1, <3>1
        <5>3. Cardinality({i}) = 1
          BY FS_Singleton
        <5>. QED BY <5>2, <5>3, <4>2, <3>1
      <4>. QED BY <4>1, <4>2
    <3>3. ASSUME NEW i \in mine PROVE IsSuffix(peers[i].input, Received(k))
      <4>1. i \in 1..Len(peers) /\ peers[i].socket = k
        BY <2>3
      <4>2. peers[i].input \in Seq(Bytes) /\ sent[k] \in Seq(Bytes) /\ Taken(k) \in Nat
        BY <2>1, <4>1, PeersAre, TakenIs DEF ServerInv
      <4>3. Upto(peers[i].input, sent[k], Taken(k))
        BY <2>1, <2>3, <4>1 DEF ServerInv, Buffers, Holds
      <4>4. IsSuffix(peers[i].input, SubSeq(sent[k], 1, Taken(k)))
        BY <4>2, <4>3, UptoIsSuffix
      <4>. QED BY <4>4 DEF Received, Taken
    <3>. QED BY <3>2, <3>3
  <2>. QED BY <2>2, <2>3 DEF StreamKept
<1>. QED BY <1>1, ChatAlways, PTL

(* The server blocks nowhere but in poll(), as long as it listens once     *)
(* (chat_server.c:214 and 241).                                            *)
THEOREM BlocksNever == Spec => []NeverBlocks
<1>1. ChatInv => NeverBlocks
  BY DEF ChatInv, ServerInv, Polled, NeverBlocks, Relistened
<1>. QED BY <1>1, ChatAlways, PTL

(* Whatever is read fits the buffer it is copied to (chat_server.c:244-    *)
(* 250).                                                                   *)
THEOREM ReadsFit == Spec => ReadFits
<1>1. ChatInv /\ [Next]_vars => [Fits]_vars
  BY StepInv
<1>2. [Fits]_vars =>
        [server' = "live" =>
            \A i \in 1..Len(peers) :
                peers[i].socket \in Conns =>
                    Len(peers[i].input) + Arrived(peers[i].socket) <= peers'[i].input_size]_vars
  BY DEF Fits
<1>. QED BY <1>1, <1>2, ChatAlways, PTL DEF Spec, ReadFits
=============================================================================
