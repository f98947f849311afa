------------------------- MODULE PacketStreamProofs -------------------------
(***************************************************************************)
(* Proofs about PacketStream for any number of sessions, packets and       *)
(* messages.  What we send: the packets written and those that still wait  *)
(* form one sequence, in which the nonces of the session go up by one      *)
(* behind the authentication packet, and what is left over from earlier    *)
(* sessions has lower nonces than that.  What we receive: the bytes in the *)
(* buffer, in the socket and on their way are together the packets that    *)
(* are not yet handled, without a gap, however they are divided.  What a   *)
(* message says: its fields begin where the widths before them add up to,  *)
(* for the writer and the reader of each class alike.                      *)
(***************************************************************************)
EXTENDS PacketStream, SequenceFacts, TLAPS

-----------------------------------------------------------------------------
(* Sequences of our packets.                                               *)

Packet == [key : Nat, nonce : Nat, kind : {"message", "ping", "answer", "auth"}]

(* Packets of a client without a session: the nonces go up to the counter  *)
(* n, the keys are the last session's or earlier.                          *)
Waiting(s, n, k) ==
    /\ \A i \in 1..Len(s) : s[i].nonce < n /\ s[i].key <= k
    /\ \A i, j \in 1..Len(s) : i < j => s[i].nonce < s[j].nonce

(* Packets of a session, whose first is the authentication.                *)
Running(s, n, k) ==
    /\ Len(s) > 0 /\ s[1].key = k
    /\ \A i \in 1..Len(s) : s[i].nonce < n /\ s[i].key <= k
    /\ \A i, j \in 2..Len(s) : i < j => s[i].nonce < s[j].nonce
    /\ \A i \in 2..Len(s) :
          IF s[i].key = k
          THEN /\ s[1].nonce < s[i].nonce
               /\ \E j \in 1..i - 1 : s[j].key = k /\ s[j].nonce = s[i].nonce - 1
          ELSE s[i].nonce < s[1].nonce
    /\ \E j \in 1..Len(s) : s[j].key = k /\ s[j].nonce = n - 1

LEMMA WaitingAppend ==
    ASSUME NEW s \in Seq(Packet), NEW n \in Nat, NEW k \in Nat, Waiting(s, n, k),
           NEW e \in Packet, e.nonce = n, e.key = k
    PROVE  Waiting(Append(s, e), n + 1, k)
<1> DEFINE t == Append(s, e)
<1>1. /\ t \in Seq(Packet) /\ Len(t) = Len(s) + 1 /\ Len(s) \in Nat
      /\ \A i \in 1..Len(s) : t[i] = s[i] /\ s[i] \in Packet
      /\ t[Len(s) + 1] = e
  BY AppendProperties, LenProperties, ElementOfSeq
<1>2. \A p \in Packet : p.nonce \in Nat /\ p.key \in Nat
  BY DEF Packet
<1> HIDE DEF t
<1>3. n \in Nat /\ k \in Nat /\ Len(s) \in Nat /\ Len(t) = Len(s) + 1
  BY <1>1
<1>4. \A i \in 1..Len(t) : i \in 1..Len(s) \/ i = Len(s) + 1
  BY <1>3
<1>5. \A i \in 1..Len(s) : t[i].nonce < n /\ t[i].key <= k /\ t[i].nonce \in Nat
  BY <1>1, <1>2 DEF Waiting
<1>6. t[Len(s) + 1].nonce = n /\ t[Len(s) + 1].key = k
  BY <1>1
<1>7. \A i \in 1..Len(t) : t[i].nonce < n + 1 /\ t[i].key <= k
  <2> TAKE i \in 1..Len(t)
  <2>1. CASE i \in 1..Len(s)
    BY <2>1, <1>3, <1>5
  <2>2. CASE i = Len(s) + 1
    BY <2>2, <1>3, <1>6
  <2> QED
    BY <2>1, <2>2, <1>4
<1>8. \A i, j \in 1..Len(t) : i < j => t[i].nonce < t[j].nonce
  <2> TAKE i, j \in 1..Len(t)
  <2> SUFFICES ASSUME i < j PROVE t[i].nonce < t[j].nonce
    OBVIOUS
  <2>1. i \in 1..Len(s)
    BY <1>3
  <2>2. CASE j \in 1..Len(s)
    BY <2>1, <2>2, <1>1 DEF Waiting
  <2>3. CASE j = Len(s) + 1
    BY <2>1, <2>3, <1>5, <1>6
  <2> QED
    BY <2>2, <2>3, <1>4
<1> QED
  BY <1>7, <1>8 DEF Waiting, t

LEMMA RunningAppend ==
    ASSUME NEW s \in Seq(Packet), NEW n \in Nat, NEW k \in Nat, Running(s, n, k),
           NEW e \in Packet, e.nonce = n, e.key = k
    PROVE  Running(Append(s, e), n + 1, k)
<1> DEFINE t == Append(s, e)
<1>1. /\ t \in Seq(Packet) /\ Len(t) = Len(s) + 1 /\ Len(s) \in Nat
      /\ \A i \in 1..Len(s) : t[i] = s[i] /\ s[i] \in Packet
      /\ t[Len(s) + 1] = e
  BY AppendProperties, LenProperties, ElementOfSeq
<1>2. \A p \in Packet : p.nonce \in Nat /\ p.key \in Nat
  BY DEF Packet
<1> HIDE DEF t
<1>3. Len(t) > 0 /\ t[1].key = k /\ t[1] = s[1]
  BY <1>1 DEF Running
<1>4. \A i \in 1..Len(s) : t[i].nonce < n /\ t[i].key <= k /\ t[i].nonce \in Nat
  BY <1>1, <1>2 DEF Running
<1>11. \A i \in 1..Len(t) : t[i].nonce < n + 1 /\ t[i].key <= k
  <2> TAKE i \in 1..Len(t)
  <2>1. CASE i \in 1..Len(s)
    BY <1>4, <2>1
  <2>2. CASE i = Len(s) + 1
    BY <1>1, <2>2
  <2> QED
    BY <1>1, <2>1, <2>2
<1>5. \A i, j \in 2..Len(t) : i < j => t[i].nonce < t[j].nonce
  <2> TAKE i, j \in 2..Len(t)
  <2>1. CASE j \in 2..Len(s)
    <3>1. i < j => i \in 2..Len(s)
      BY <2>1, <1>1
    <3>2. i < j => t[i] = s[i] /\ t[j] = s[j]
      BY <3>1, <2>1, <1>1
    <3> QED
      BY <3>1, <3>2, <2>1 DEF Running
  <2>2. CASE j = Len(s) + 1
    BY <1>1, <1>4, <2>2
  <2> QED
    BY <1>1, <2>1, <2>2
<1>6. \A i \in 2..Len(s) :
          IF t[i].key = k
          THEN /\ t[1].nonce < t[i].nonce
               /\ \E j \in 1..i - 1 : t[j].key = k /\ t[j].nonce = t[i].nonce - 1
          ELSE t[i].nonce < t[1].nonce
  <2> TAKE i \in 2..Len(s)
  <2>1. t[i] = s[i] /\ t[1] = s[1] /\ \A j \in 1..i - 1 : t[j] = s[j]
    BY <1>1
  <2> QED
    BY <2>1 DEF Running
<1>7. PICK j \in 1..Len(s) : s[j].key = k /\ s[j].nonce = n - 1
  BY DEF Running
<1>8. /\ t[1].nonce < e.nonce
      /\ j \in 1..(Len(s) + 1) - 1 /\ t[j].key = k /\ t[j].nonce = e.nonce - 1
  BY <1>1, <1>3, <1>7 DEF Running
<1>9. \A i \in 2..Len(t) :
          IF t[i].key = k
          THEN /\ t[1].nonce < t[i].nonce
               /\ \E l \in 1..i - 1 : t[l].key = k /\ t[l].nonce = t[i].nonce - 1
          ELSE t[i].nonce < t[1].nonce
  <2> TAKE i \in 2..Len(t)
  <2>1. CASE i \in 2..Len(s)
    BY <1>6, <2>1
  <2>2. CASE i = Len(s) + 1
    BY <1>1, <1>8, <2>2
  <2> QED
    BY <1>1, <2>1, <2>2
<1>10. \E l \in 1..Len(t) : t[l].key = k /\ t[l].nonce = (n + 1) - 1
  BY <1>1
<1> QED
  BY <1>3, <1>11, <1>5, <1>9, <1>10 DEF Running, t

(* The authentication packet is written before anything that waits. *)
LEMMA RunningStarts ==
    ASSUME NEW s \in Seq(Packet), NEW n \in Nat, NEW k \in Nat, NEW l \in Nat, k < l,
           Waiting(s, n, k), NEW e \in Packet, e.nonce = n, e.key = l
    PROVE  Running(<<e>> \o s, n + 1, l)
<1> DEFINE t == <<e>> \o s
<1>1. /\ Len(t) = Len(s) + 1 /\ Len(s) \in Nat /\ t[1] = e
      /\ \A i \in 2..Len(t) : t[i] = s[i - 1] /\ i - 1 \in 1..Len(s)
      /\ \A i \in 1..Len(s) : s[i] \in Packet
  <2>1. <<e>> \in Seq(Packet) /\ Len(<<e>>) = 1 /\ <<e>>[1] = e
    OBVIOUS
  <2>2. Len(t) = 1 + Len(s) /\ Len(s) \in Nat
        /\ \A i \in 1..1 + Len(s) : t[i] = IF i <= 1 THEN <<e>>[i] ELSE s[i - 1]
    BY <2>1, ConcatProperties, LenProperties
  <2>3. \A i \in 1..Len(s) : s[i] \in Packet
    BY ElementOfSeq
  <2> HIDE DEF t
  <2> QED
    BY <2>1, <2>2, <2>3
<1>2. \A p \in Packet : p.nonce \in Nat /\ p.key \in Nat
  BY DEF Packet
<1> HIDE DEF t
<1>3. \A i \in 2..Len(t) : t[i].nonce < n /\ t[i].key <= k /\ t[i].nonce \in Nat /\ t[i].key \in Nat
  BY <1>1, <1>2 DEF Waiting
<1>4. \A i, j \in 2..Len(t) : i < j => t[i].nonce < t[j].nonce
  <2> TAKE i, j \in 2..Len(t)
  <2>1. i < j => i - 1 < j - 1
    BY <1>1
  <2> QED
    BY <1>1, <2>1 DEF Waiting
<1>5. \A i \in 2..Len(t) : t[i].key # l /\ t[i].nonce < t[1].nonce
  BY <1>1, <1>3
<1>6. \A i \in 1..Len(t) : t[i].nonce < n + 1 /\ t[i].key <= l
  <2> TAKE i \in 1..Len(t)
  <2>1. CASE i = 1
    BY <1>1, <2>1
  <2>2. CASE i \in 2..Len(t)
    BY <1>3, <2>2
  <2> QED
    BY <1>1, <2>1, <2>2
<1>7. \E j \in 1..Len(t) : t[j].key = l /\ t[j].nonce = (n + 1) - 1
  BY <1>1
<1> QED
  BY <1>1, <1>4, <1>5, <1>6, <1>7 DEF Running, t

(* What is left over when the connection is lost. *)
LEMMA RunningEnds ==
    ASSUME NEW w \in Seq(Packet), NEW s \in Seq(Packet), NEW n \in Nat, NEW k \in Nat,
           w # <<>>, Running(w \o s, n, k)
    PROVE  Waiting(s, n, k)
<1> DEFINE t == w \o s
           c == Len(w)
<1>1. /\ c \in Nat /\ c >= 1 /\ Len(s) \in Nat /\ Len(t) = c + Len(s)
      /\ \A i \in 1..Len(s) : t[c + i] = s[i]
  <2>1. /\ Len(t) = c + Len(s) /\ c \in Nat /\ Len(s) \in Nat /\ c # 0
        /\ \A i \in 1..c + Len(s) : t[i] = IF i <= c THEN w[i] ELSE s[i - c]
    BY ConcatProperties, LenProperties, EmptySeq
  <2> HIDE DEF t, c
  <2>2. \A i \in 1..Len(s) : c + i \in 1..c + Len(s) /\ ~(c + i <= c) /\ (c + i) - c = i
    BY <2>1
  <2> QED
    BY <2>1, <2>2
<1> HIDE DEF t, c
<1>2. \A i \in 1..Len(s) : c + i \in 1..Len(t) /\ c + i \in 2..Len(t)
  BY <1>1
<1>3. \A i, j \in 1..Len(s) : i < j => c + i < c + j
  BY <1>1
<1> QED
  BY <1>1, <1>2, <1>3 DEF Running, Waiting, t

(* What the server sees of them: the packets that are written. *)
LEMMA RunningIsFollowed ==
    ASSUME NEW w \in Seq(Packet), NEW s \in Seq(Packet), NEW n \in Nat, NEW k \in Nat,
           w # <<>>, Running(w \o s, n, k)
    PROVE  LET fresh == {i \in DOMAIN w : w[i].key = k}
           IN  /\ 1 \in fresh
               /\ \A i, j \in fresh : i < j => w[i].nonce < w[j].nonce
               /\ \A i \in fresh \ {1} : \E j \in fresh : w[j].nonce = w[i].nonce - 1
               /\ \A i, j \in DOMAIN w : w[i].nonce = w[j].nonce => i = j
<1> DEFINE t == w \o s
           c == Len(w)
           fresh == {i \in DOMAIN w : w[i].key = k}
<1>1. /\ c \in Nat /\ c >= 1 /\ DOMAIN w = 1..c
      /\ Len(t) \in Nat /\ c <= Len(t)
      /\ \A i \in 1..c : t[i] = w[i] /\ w[i].nonce \in Nat
  <2>1. /\ Len(t) = c + Len(s) /\ c \in Nat /\ Len(s) \in Nat /\ c # 0 /\ DOMAIN w = 1..c
        /\ \A i \in 1..c + Len(s) : t[i] = IF i <= c THEN w[i] ELSE s[i - c]
    BY ConcatProperties, LenProperties, EmptySeq
  <2>2. \A i \in 1..c : w[i] \in Packet
    BY ElementOfSeq
  <2>3. \A p \in Packet : p.nonce \in Nat
    BY DEF Packet
  <2> HIDE DEF t, c
  <2> QED
    BY <2>1, <2>2, <2>3
<1> HIDE DEF t, c
<1>2. 1 \in fresh
  BY <1>1 DEF Running, t
<1>3. \A i \in 2..c : i \in fresh =>
          w[1].nonce < w[i].nonce /\ \E j \in fresh : w[j].nonce = w[i].nonce - 1
  <2> SUFFICES ASSUME NEW i \in 2..c, i \in fresh
               PROVE  w[1].nonce < w[i].nonce /\ \E j \in fresh : w[j].nonce = w[i].nonce - 1
    OBVIOUS
  <2>1. i \in 2..Len(t) /\ t[i] = w[i] /\ t[1] = w[1] /\ t[i].key = k
    BY <1>1
  <2>2. /\ t[1].nonce < t[i].nonce
        /\ \E j \in 1..i - 1 : t[j].key = k /\ t[j].nonce = t[i].nonce - 1
    BY <2>1 DEF Running, t
  <2>3. PICK j \in 1..i - 1 : t[j].key = k /\ t[j].nonce = t[i].nonce - 1
    BY <2>2
  <2>4. j \in fresh /\ w[j].nonce = w[i].nonce - 1
    BY <2>1, <2>3, <1>1
  <2> QED
    BY <2>1, <2>2, <2>4
<1>4. \A i, j \in 2..c : i < j => w[i].nonce < w[j].nonce
  <2> TAKE i, j \in 2..c
  <2>1. i \in 2..Len(t) /\ j \in 2..Len(t) /\ t[i] = w[i] /\ t[j] = w[j]
    BY <1>1
  <2> QED
    BY <2>1 DEF Running, t
<1>5. \A i \in 2..c : w[i].nonce # w[1].nonce
  <2> TAKE i \in 2..c
  <2>1. i \in 2..Len(t) /\ t[i] = w[i] /\ t[1] = w[1] /\ w[1].nonce \in Nat /\ w[i].nonce \in Nat
    BY <1>1
  <2>2. w[1].nonce < w[i].nonce \/ w[i].nonce < w[1].nonce
    BY <2>1 DEF Running, t
  <2> QED
    BY <2>1, <2>2
<1>6. \A i, j \in fresh : i < j => w[i].nonce < w[j].nonce
  <2> TAKE i, j \in fresh
  <2>1. CASE i = 1
    BY <2>1, <1>1, <1>3
  <2>2. CASE i # 1
    BY <2>2, <1>1, <1>4
  <2> QED
    BY <2>1, <2>2
<1>7. \A i, j \in DOMAIN w : w[i].nonce = w[j].nonce => i = j
  <2>1. \A i, j \in 1..c : i < j => w[i].nonce # w[j].nonce
    <3> TAKE i, j \in 1..c
    <3>1. CASE i = 1
      BY <3>1, <1>5, <1>1
    <3>2. CASE i # 1
      BY <3>2, <1>4, <1>1
    <3> QED
      BY <3>1, <3>2
  <2> QED
    BY <2>1, <1>1
<1>8. \A i \in fresh \ {1} : \E j \in fresh : w[j].nonce = w[i].nonce - 1
  BY <1>1, <1>3
<1> HIDE DEF fresh
<1> QED
  BY <1>2, <1>6, <1>7, <1>8 DEF fresh

-----------------------------------------------------------------------------
(* What is written can be followed. *)

SendTypes ==
    /\ session \in Nat /\ key \in 0..session
    /\ link \in {"down", "connecting", "handshake", "up"}
    /\ clientNonce \in Nat \ {0}
    /\ outgoing \in Seq(Packet) /\ wire \in Seq(Packet)

(* How far the connection is, and what has been written on it. *)
Phases ==
    /\ link \in {"down", "connecting"} => wire = <<>>
    /\ link = "connecting" => key < session
    /\ link \in {"handshake", "up"} => key = session /\ wire # <<>>

SendInv ==
    /\ SendTypes
    /\ Phases
    /\ wire = <<>> => Waiting(outgoing, clientNonce, key)
    /\ wire # <<>> => wire[1].kind = "auth" /\ Running(wire \o outgoing, clientNonce, key)

LEMMA SendInvMeansFollowed == SendInv => ServerCanFollow
<1> SUFFICES ASSUME SendInv PROVE ServerCanFollow
  OBVIOUS
<1>1. CASE wire = <<>>
  BY <1>1, EmptySeq DEF ServerCanFollow
<1>2. CASE wire # <<>>
  <2>1. key = session /\ session \in Nat /\ clientNonce \in Nat
        /\ wire \in Seq(Packet) /\ outgoing \in Seq(Packet)
        /\ Running(wire \o outgoing, clientNonce, session) /\ wire[1].kind = "auth"
    BY <1>2 DEF SendInv, SendTypes, Phases
  <2> QED
    BY <1>2, <2>1, RunningIsFollowed DEF ServerCanFollow
<1> QED
  BY <1>1, <1>2

LEMMA InitSends == Init => SendInv
<1> SUFFICES ASSUME Init PROVE SendInv
  OBVIOUS
<1>1. <<>> \in Seq(Packet) /\ Len(<<>>) = 0
  OBVIOUS
<1> QED
  BY <1>1 DEF Init, SendInv, SendTypes, Phases, Waiting

(* One packet more in the queue. *)
LEMMA EncryptingOne ==
    ASSUME SendInv, NEW kind \in {"message", "ping", "answer"}, EncryptAndSend(<<kind>>)
    PROVE  /\ outgoing' = Append(outgoing, Encrypted(kind, clientNonce))
           /\ clientNonce' = clientNonce + 1
           /\ Encrypted(kind, clientNonce) \in Packet
<1> DEFINE e == Encrypted(kind, clientNonce)
<1>1. clientNonce \in Nat /\ key \in Nat /\ outgoing \in Seq(Packet)
  BY DEF SendInv, SendTypes
<1>2. e \in Packet
  BY <1>1 DEF Packet, Encrypted
<1>3. DOMAIN <<kind>> = 1..1 /\ <<kind>>[1] = kind /\ Len(<<kind>>) = 1
  OBVIOUS
<1>4. [i \in DOMAIN <<kind>> |-> Encrypted(<<kind>>[i], clientNonce + i - 1)] = [i \in 1..1 |-> e]
  BY <1>1, <1>3
<1>5. [i \in 1..1 |-> e] = <<e>>
  OBVIOUS
<1>6. clientNonce' = clientNonce + 1 /\ outgoing' = outgoing \o <<e>>
  BY <1>3, <1>4, <1>5 DEF EncryptAndSend
<1>7. outgoing \o <<e>> = Append(outgoing, e)
  BY <1>1, <1>2, AppendIsConcat
<1> QED
  BY <1>2, <1>6, <1>7

LEMMA EncryptingKeeps ==
    ASSUME SendInv, NEW kind \in {"message", "ping", "answer"}, EncryptAndSend(<<kind>>),
           UNCHANGED <<session, link, key, wire>>
    PROVE  SendInv'
<1> DEFINE e == Encrypted(kind, clientNonce)
<1>1. /\ outgoing' = Append(outgoing, e) /\ clientNonce' = clientNonce + 1 /\ e \in Packet
  BY EncryptingOne
<1>2. e.nonce = clientNonce /\ e.key = key
  BY DEF Encrypted
<1>3. /\ clientNonce \in Nat /\ key \in Nat /\ outgoing \in Seq(Packet) /\ wire \in Seq(Packet)
  BY DEF SendInv, SendTypes
<1> HIDE DEF e
<1>4. outgoing' \in Seq(Packet) /\ SendTypes' /\ Phases'
  <2>1. outgoing' \in Seq(Packet)
    BY <1>1, <1>3, AppendProperties
  <2> QED
    BY <2>1, <1>1, <1>3 DEF SendInv, SendTypes, Phases
<1>5. ASSUME wire = <<>> PROVE Waiting(outgoing', clientNonce', key)
  <2>1. Waiting(outgoing, clientNonce, key)
    BY <1>5 DEF SendInv
  <2> QED
    BY <2>1, <1>1, <1>2, <1>3, WaitingAppend
<1>6. ASSUME wire # <<>> PROVE Running(wire \o outgoing', clientNonce', key)
  <2>1. Running(wire \o outgoing, clientNonce, key) /\ wire \o outgoing \in Seq(Packet)
    BY <1>3, <1>6, ConcatProperties DEF SendInv
  <2>2. wire \o Append(outgoing, e) = Append(wire \o outgoing, e)
    <3>1. Append(outgoing, e) = outgoing \o <<e>> /\ <<e>> \in Seq(Packet)
      BY <1>1, <1>3, AppendIsConcat
    <3>2. Append(wire \o outgoing, e) = (wire \o outgoing) \o <<e>>
      BY <1>1, <2>1, AppendIsConcat
    <3> QED
      BY <3>1, <3>2, <1>3, ConcatAssociative
  <2> QED
    BY <2>1, <2>2, <1>1, <1>2, <1>3, RunningAppend
<1> QED
  BY <1>4, <1>5, <1>6 DEF SendInv

sendVars == <<session, link, key, clientNonce, outgoing, wire>>

LEMMA SendStutters == SendInv /\ UNCHANGED sendVars => SendInv'
  BY DEF SendInv, SendTypes, Phases, sendVars

LEMMA AuthenticateSends == SendInv /\ Authenticate => SendInv'
<1> SUFFICES ASSUME SendInv, Authenticate PROVE SendInv'
  OBVIOUS
<1> DEFINE e == [key |-> session, nonce |-> clientNonce, kind |-> "auth"]
<1>1. /\ session \in Nat /\ key \in Nat /\ clientNonce \in Nat \ {0}
      /\ outgoing \in Seq(Packet) /\ wire = <<>> /\ key < session
      /\ Waiting(outgoing, clientNonce, key)
  BY DEF Authenticate, SendInv, SendTypes, Phases
<1>2. e \in Packet /\ e.key = session /\ e.nonce = clientNonce /\ e.kind = "auth"
  BY <1>1 DEF Packet
<1>3. /\ link' = "handshake" /\ key' = session /\ session' = session
      /\ clientNonce' = clientNonce + 1 /\ outgoing' = outgoing
      /\ wire' = Append(wire, e)
  BY DEF Authenticate
<1> HIDE DEF e
<1>4. wire' = <<e>>
  BY <1>1, <1>3
<1>5. <<e>> \in Seq(Packet) /\ <<e>> # <<>> /\ <<e>>[1] = e
  BY <1>2
<1>6. Running(<<e>> \o outgoing, clientNonce + 1, session)
  BY <1>1, <1>2, RunningStarts
<1> QED
  BY <1>1, <1>2, <1>3, <1>4, <1>5, <1>6 DEF SendInv, SendTypes, Phases

LEMMA OutgoingTimerSends == SendInv /\ OutgoingTimer => SendInv'
<1> SUFFICES ASSUME SendInv, OutgoingTimer PROVE SendInv'
  OBVIOUS
<1>1. CASE link # "up"
  BY <1>1, SendStutters DEF OutgoingTimer, sendVars
<1>2. CASE link = "up"
  <2>1. /\ wire' = wire \o outgoing /\ outgoing' = <<>>
        /\ UNCHANGED <<session, link, key, clientNonce>>
    BY <1>2 DEF OutgoingTimer
  <2>2. /\ wire \in Seq(Packet) /\ outgoing \in Seq(Packet) /\ wire # <<>>
        /\ Running(wire \o outgoing, clientNonce, key) /\ wire[1].kind = "auth"
    BY <1>2 DEF SendInv, SendTypes, Phases
  <2>3. wire' \in Seq(Packet) /\ wire' # <<>> /\ wire'[1] = wire[1]
    BY <2>1, <2>2, ConcatProperties, LenProperties, EmptySeq
  <2>4. wire' \o outgoing' = wire \o outgoing /\ outgoing' \in Seq(Packet)
    BY <2>1, <2>3, ConcatEmptySeq
  <2> QED
    BY <1>2, <2>1, <2>2, <2>3, <2>4 DEF SendInv, SendTypes, Phases
<1> QED
  BY <1>1, <1>2

LEMMA ConnectionLostSends == SendInv /\ ConnectionLost => SendInv'
<1> SUFFICES ASSUME SendInv, ConnectionLost PROVE SendInv'
  OBVIOUS
<1>1. /\ link' = "down" /\ wire' = <<>> /\ outgoing' = outgoing
      /\ UNCHANGED <<session, key, clientNonce>>
  BY DEF ConnectionLost, ours
<1>2. /\ wire \in Seq(Packet) /\ outgoing \in Seq(Packet)
      /\ clientNonce \in Nat /\ key \in Nat
  BY DEF SendInv, SendTypes
<1>3. Waiting(outgoing, clientNonce, key)
  BY <1>2, RunningEnds DEF SendInv
<1>4. <<>> \in Seq(Packet)
  OBVIOUS
<1> QED
  BY <1>1, <1>2, <1>3, <1>4 DEF SendInv, SendTypes, Phases

LEMMA ReadPacketSends == SendInv /\ ReadPacket => SendInv'
<1> SUFFICES ASSUME SendInv, ReadPacket PROVE SendInv'
  OBVIOUS
<1>1. UNCHANGED <<session, link, key>>
  BY DEF ReadPacket
<1>2. CASE Throw
  BY <1>1, <1>2, SendStutters DEF Throw, ours, sendVars
<1>3. ASSUME NEW packet, NEW outcomes, Dispatch(packet, outcomes) PROVE SendInv'
  <2>1. wire' = wire
    BY <1>3 DEF Dispatch
  <2>2. CASE packet.kind = "request"
    <3>1. EncryptAndSend(<<"answer">>)
      BY <1>3, <2>2 DEF Dispatch
    <3> QED
      BY <3>1, <2>1, <1>1, EncryptingKeeps
  <2>3. CASE packet.kind # "request"
    <3>1. UNCHANGED <<outgoing, clientNonce>>
      BY <1>3, <2>3 DEF Dispatch
    <3> QED
      BY <3>1, <2>1, <1>1, SendStutters DEF sendVars
  <2> QED
    BY <2>2, <2>3
<1>4. \/ Throw
      \/ \E packet, outcomes : Dispatch(packet, outcomes)
  BY DEF ReadPacket
<1> QED
  BY <1>2, <1>3, <1>4

LEMMA StepSends == SendInv /\ [Next]_vars => SendInv'
<1> SUFFICES ASSUME SendInv, [Next]_vars PROVE SendInv'
  OBVIOUS
<1>1. CASE Enqueue
  <2>1. EncryptAndSend(<<"message">>) /\ UNCHANGED <<session, link, key, wire>>
    BY <1>1 DEF Enqueue
  <2> QED
    BY <2>1, EncryptingKeeps
<1>2. CASE KeepAliveTimer
  <2>1. EncryptAndSend(<<"ping">>) /\ UNCHANGED <<session, link, key, wire>>
    BY <1>2 DEF KeepAliveTimer
  <2> QED
    BY <2>1, EncryptingKeeps
<1>3. CASE OutgoingTimer
  BY <1>3, OutgoingTimerSends
<1>4. CASE Connect
  <2>1. /\ link = "down" /\ link' = "connecting" /\ session' = session + 1
        /\ UNCHANGED <<key, clientNonce, outgoing, wire>>
    BY <1>4 DEF Connect, ours
  <2> QED
    BY <2>1 DEF SendInv, SendTypes, Phases
<1>5. CASE Authenticate
  BY <1>5, AuthenticateSends
<1>6. CASE HandshakeFinishes
  <2>1. /\ link = "handshake" /\ link' = "up"
        /\ UNCHANGED <<session, key, clientNonce, outgoing, wire>>
    BY <1>6 DEF HandshakeFinishes, ours
  <2> QED
    BY <2>1 DEF SendInv, SendTypes, Phases
<1>7. CASE ConnectionLost
  BY <1>7, ConnectionLostSends
<1>8. CASE ServerWrites
  BY <1>8, SendStutters DEF ServerWrites, ours, sendVars
<1>9. CASE Arrive
  BY <1>9, SendStutters DEF Arrive, ours, sendVars
<1>10. CASE OnReadyRead
  BY <1>10, SendStutters DEF OnReadyRead, ours, sendVars
<1>11. CASE ReadPacket
  BY <1>11, ReadPacketSends
<1>12. CASE UNCHANGED vars
  BY <1>12, SendStutters DEF vars, ours, sendVars
<1> QED
  BY <1>1, <1>2, <1>3, <1>4, <1>5, <1>6, <1>7, <1>8, <1>9, <1>10, <1>11, <1>12
  DEF Next, Due

LEMMA AlwaysSends == Spec => []SendInv
  BY InitSends, StepSends, PTL DEF Spec

(* What we write on a connection begins with the authentication packet,    *)
(* and the session's packets come with consecutive nonces, although nonces *)
(* are drawn when a packet is made and packets may have to wait over       *)
(* several sessions (ProtocolClient::outgoingMessagesTimerOnTimer,         *)
(* FullCryptoBox::encryptForServer).                                       *)
THEOREM ServerCanAlwaysFollow == Spec => []ServerCanFollow
  BY AlwaysSends, SendInvMeansFollowed, PTL

-----------------------------------------------------------------------------
(* Bytes of the server's packets.                                          *)

Byte == [session : Nat, nonce : Nat, at : 1..4, value : 0..2]

ServerPacket == [nonce : Nat, kind : Kinds]

ByteOf(s, kind, n, a) ==
    [session |-> s, nonce |-> n, at |-> a,
     value |-> IF a = 1 THEN BodySize(kind) ELSE 0]

PacketSize(p) == 2 + BodySize(p.kind)

(* The packets of a session, numbered as the server counts. *)
Numbered(ps) == \A n \in 1..Len(ps) : ps[n].nonce = n + 2

(* The bytes t are those of the packets ps without the first h of them, in *)
(* session s: each byte is one of a packet, the first byte begins packet   *)
(* h + 1, each is followed by the next one of its packet or the first of   *)
(* the next packet, and the last byte ends the last packet. *)
Stream(t, ps, s, h) ==
    /\ \A i \in 1..Len(t) :
          /\ t[i].nonce - 2 \in h + 1..Len(ps)
          /\ t[i].at \in 1..PacketSize(ps[t[i].nonce - 2])
          /\ t[i] = ByteOf(s, ps[t[i].nonce - 2].kind, t[i].nonce, t[i].at)
    /\ \A i, j \in 1..Len(t) : i < j => t[i].nonce <= t[j].nonce
    /\ h < Len(ps) =>
          /\ Len(t) > 0
          /\ t[1].nonce = h + 3 /\ t[1].at = 1
          /\ t[Len(t)].nonce = Len(ps) + 2 /\ t[Len(t)].at = PacketSize(ps[Len(ps)])
    /\ \A i \in 1..Len(t) - 1 :
          IF t[i].at < PacketSize(ps[t[i].nonce - 2])
          THEN t[i + 1].nonce = t[i].nonce /\ t[i + 1].at = t[i].at + 1
          ELSE t[i + 1].nonce = t[i].nonce + 1 /\ t[i + 1].at = 1

LEMMA SizesAreSmall ==
    ASSUME NEW p \in ServerPacket
    PROVE  BodySize(p.kind) \in {1, 2} /\ PacketSize(p) \in {3, 4}
  BY DEF ServerPacket, Kinds, BodySize, PacketSize

LEMMA BytesAreOfPacket ==
    ASSUME NEW kind \in Kinds, NEW n \in Nat, session \in Nat
    PROVE  /\ Bytes(kind, n) \in Seq(Byte)
           /\ Len(Bytes(kind, n)) = 2 + BodySize(kind)
           /\ \A i \in 1..2 + BodySize(kind) : Bytes(kind, n)[i] = ByteOf(session, kind, n, i)
<1>1. BodySize(kind) \in {1, 2}
  BY DEF Kinds, BodySize
<1>2. BodySize(kind) % 256 = BodySize(kind) /\ BodySize(kind) \div 256 = 0
  BY <1>1
<1>3. \A i \in 1..2 + BodySize(kind) : ByteOf(session, kind, n, i) \in Byte
  BY <1>1 DEF ByteOf, Byte
<1>4. Bytes(kind, n) = [i \in 1..2 + BodySize(kind) |-> ByteOf(session, kind, n, i)]
  BY <1>1, <1>2 DEF Bytes, ByteOf
<1>5. 2 + BodySize(kind) \in Nat
  BY <1>1
<1>6. Bytes(kind, n) \in [1..2 + BodySize(kind) -> Byte]
  BY <1>3, <1>4
<1> QED
  BY <1>4, <1>5, <1>6, LenOfFunction

(* The server writes a packet. *)
LEMMA StreamGrows ==
    ASSUME NEW t \in Seq(Byte), NEW ps \in Seq(ServerPacket), NEW s \in Nat,
           NEW h \in 0..Len(ps), Stream(t, ps, s, h),
           NEW p \in ServerPacket, p.nonce = Len(ps) + 3,
           NEW b \in Seq(Byte), Len(b) = PacketSize(p),
           \A i \in 1..PacketSize(p) : b[i] = ByteOf(s, p.kind, p.nonce, i)
    PROVE  Stream(t \o b, Append(ps, p), s, h)
<1> DEFINE qs == Append(ps, p)
           u == t \o b
           l == Len(t)
           z == PacketSize(p)
           m == Len(ps)
<1>1. /\ qs \in Seq(ServerPacket) /\ Len(qs) = m + 1 /\ m \in Nat
      /\ \A n \in 1..m : qs[n] = ps[n] /\ ps[n] \in ServerPacket
      /\ qs[m + 1] = p
  BY AppendProperties, LenProperties, ElementOfSeq
<1>2. /\ Len(u) = l + z /\ l \in Nat /\ z \in {3, 4}
      /\ \A i \in 1..l : u[i] = t[i]
      /\ \A i \in l + 1..l + z : u[i] = b[i - l] /\ i - l \in 1..z
  <2>1. Len(u) = l + z /\ l \in Nat /\ z \in {3, 4}
        /\ \A i \in 1..l + z : u[i] = IF i <= l THEN t[i] ELSE b[i - l]
    BY ConcatProperties, LenProperties, SizesAreSmall
  <2> HIDE DEF u, l, z
  <2>2. l \in Nat /\ z \in Nat
    BY <2>1
  <2>3. ASSUME NEW i \in 1..l PROVE u[i] = t[i]
    <3>1. i \in 1..l + z /\ i <= l
      BY <2>2
    <3> QED
      BY <2>1, <3>1
  <2>4. ASSUME NEW i \in l + 1..l + z PROVE u[i] = b[i - l] /\ i - l \in 1..z
    <3>1. i \in 1..l + z /\ ~(i <= l) /\ i - l \in 1..z
      BY <2>2
    <3> QED
      BY <2>1, <3>1
  <2> QED
    BY <2>1, <2>3, <2>4
<1>0. h \in 0..m /\ m \in Nat
  BY LenProperties
<1> HIDE DEF qs, u, l, z, m
<1>small. l \in Nat /\ z \in {3, 4} /\ h \in Nat /\ m \in Nat /\ h <= m
  <2>1. l \in Nat /\ z \in {3, 4}
    BY <1>2
  <2> QED
    BY <2>1, <1>0
<1>3. \A i \in 1..l :
         /\ t[i].nonce \in Nat /\ t[i].nonce - 2 \in h + 1..m
         /\ t[i].at \in 1..PacketSize(ps[t[i].nonce - 2])
         /\ t[i] = ByteOf(s, ps[t[i].nonce - 2].kind, t[i].nonce, t[i].at)
  <2>1. \A i \in 1..l : t[i] \in Byte
    BY ElementOfSeq DEF l
  <2>2. \A x \in Byte : x.nonce \in Nat
    BY DEF Byte
  <2> QED
    BY <2>1, <2>2 DEF Stream, l, m
<1>9. \A i \in 1..l : t[i].nonce - 2 \in 1..m /\ t[i].nonce - 2 \in h + 1..m + 1
  <2> TAKE i \in 1..l
  <2>1. t[i].nonce - 2 \in h + 1..m
    BY <1>3
  <2>2. ASSUME NEW x \in h + 1..m PROVE x \in 1..m /\ x \in h + 1..m + 1
    BY <1>small
  <2> QED
    BY <2>1, <2>2
<1>4. \A i \in 1..z : /\ b[i] = ByteOf(s, p.kind, p.nonce, i)
                      /\ b[i].nonce = m + 3 /\ b[i].at = i
  BY DEF ByteOf, z, m
<1>5. \A i \in 1..l + z :
         /\ u[i].nonce - 2 \in h + 1..m + 1
         /\ u[i].at \in 1..PacketSize(qs[u[i].nonce - 2])
         /\ u[i] = ByteOf(s, qs[u[i].nonce - 2].kind, u[i].nonce, u[i].at)
  <2> TAKE i \in 1..l + z
  <2>1. CASE i \in 1..l
    <3>1. u[i] = t[i] /\ t[i].nonce - 2 \in 1..m /\ t[i].nonce - 2 \in h + 1..m + 1
      BY <2>1, <1>2, <1>9
    <3>2. qs[t[i].nonce - 2] = ps[t[i].nonce - 2]
      BY <3>1, <1>1
    <3> QED
      BY <3>1, <3>2, <2>1, <1>3
  <2>2. CASE i \in l + 1..l + z
    <3>1. u[i] = b[i - l] /\ i - l \in 1..z
      BY <2>2, <1>2
    <3>2. /\ u[i] = ByteOf(s, p.kind, p.nonce, i - l)
          /\ u[i].nonce = m + 3 /\ u[i].at = i - l /\ p.nonce = m + 3
      BY <3>1, <1>4 DEF m
    <3>3. u[i].nonce - 2 = m + 1 /\ qs[u[i].nonce - 2] = p
      BY <3>2, <1>1
    <3>4. u[i].nonce - 2 \in h + 1..m + 1
      BY <3>3, <1>1 DEF m
    <3>5. PacketSize(p) = z
      BY DEF z
    <3> QED
      BY <3>1, <3>2, <3>3, <3>4, <3>5
  <2> QED
    BY <2>1, <2>2, <1>2
<1>6. \A i, j \in 1..l + z : i < j => u[i].nonce <= u[j].nonce
  <2> TAKE i, j \in 1..l + z
  <2>1. CASE j \in 1..l
    <3>1. i < j => i \in 1..l
      BY <2>1, <1>2
    <3>2. i < j => u[i] = t[i] /\ u[j] = t[j]
      BY <3>1, <2>1, <1>2
    <3> QED
      BY <3>1, <3>2, <2>1 DEF Stream, l
  <2>2. CASE j \in l + 1..l + z
    <3>1. u[j].nonce = m + 3
      <4>1. u[j] = b[j - l] /\ j - l \in 1..z
        BY <2>2, <1>2
      <4> QED
        BY <4>1, <1>4
    <3>2. u[i].nonce - 2 \in h + 1..m + 1
      BY <1>5
    <3>3. u[i].nonce \in Nat
      <4>1. CASE i \in 1..l
        BY <4>1, <1>2, <1>3
      <4>2. CASE i \in l + 1..l + z
        <5>1. u[i] = b[i - l] /\ i - l \in 1..z
          BY <4>2, <1>2
        <5>2. u[i].nonce = m + 3
          BY <5>1, <1>4
        <5> QED
          BY <5>2, <1>small
      <4> QED
        BY <4>1, <4>2, <1>2
    <3>4. ASSUME NEW x \in Nat, x - 2 \in h + 1..m + 1 PROVE x <= m + 3
      BY <1>small, <3>4
    <3> QED
      BY <3>1, <3>2, <3>3, <3>4
  <2> QED
    BY <2>1, <2>2, <1>2
<1>7. /\ l + z > 0
      /\ u[1].nonce = h + 3 /\ u[1].at = 1
      /\ u[l + z].nonce = m + 3 /\ u[l + z].at = z
  <2>1. CASE h < m
    <3>1. l > 0 /\ t[1].nonce = h + 3 /\ t[1].at = 1
      BY <2>1 DEF Stream, l, m
    <3>2. u[1] = t[1]
      BY <3>1, <1>2
    <3>3. u[l + z] = b[z]
      <4>1. l + z \in l + 1..l + z /\ (l + z) - l = z
        BY <1>small
      <4> QED
        BY <4>1, <1>2
    <3> QED
      BY <3>1, <3>2, <3>3, <1>2, <1>4
  <2>2. CASE h = m
    <3>1. l = 0
      <4>1. \A i \in 1..l : FALSE
        <5> TAKE i \in 1..l
        <5>1. t[i].nonce - 2 \in h + 1..m
          BY <1>3
        <5>2. ASSUME NEW x \in h + 1..m PROVE FALSE
          BY <2>2, <1>small
        <5> QED
          BY <5>1, <5>2
      <4> QED
        BY <4>1, <1>small
    <3>2. u[1] = b[1] /\ u[z] = b[z]
      BY <3>1, <1>2
    <3> QED
      BY <3>1, <3>2, <2>2, <1>2, <1>4
  <2> QED
    BY <2>1, <2>2, <1>0
<1>8. \A i \in 1..(l + z) - 1 :
          IF u[i].at < PacketSize(qs[u[i].nonce - 2])
          THEN u[i + 1].nonce = u[i].nonce /\ u[i + 1].at = u[i].at + 1
          ELSE u[i + 1].nonce = u[i].nonce + 1 /\ u[i + 1].at = 1
  <2> TAKE i \in 1..(l + z) - 1
  <2>1. CASE i \in 1..l - 1
    <3>1. /\ u[i] = t[i] /\ u[i + 1] = t[i + 1] /\ i \in 1..l
          /\ t[i].nonce - 2 \in 1..m
      <4>1. i \in 1..l /\ i + 1 \in 1..l
        BY <2>1, <1>small
      <4> QED
        BY <4>1, <1>2, <1>9
    <3>2. qs[t[i].nonce - 2] = ps[t[i].nonce - 2]
      BY <3>1, <1>1
    <3> QED
      BY <3>1, <3>2, <2>1 DEF Stream, l
  <2>2. CASE i = l /\ l > 0
    <3>1. h < m
      <4>0. l \in 1..l
        BY <2>2, <1>small
      <4>1. t[l].nonce - 2 \in h + 1..m
        BY <4>0, <1>3
      <4>2. ASSUME NEW x \in h + 1..m PROVE h < m
        BY <1>small
      <4> QED
        BY <4>1, <4>2
    <3>2. t[l].nonce = m + 2 /\ t[l].at = PacketSize(ps[m])
      BY <3>1 DEF Stream, l, m
    <3>3. u[i] = t[l] /\ u[i + 1] = b[1]
      <4>1. i + 1 \in l + 1..l + z /\ (i + 1) - l = 1 /\ i \in 1..l
        BY <2>2, <1>small
      <4>2. u[i] = t[i]
        BY <4>1, <1>2
      <4>3. u[i + 1] = b[(i + 1) - l]
        BY <4>1, <1>2
      <4> QED
        BY <4>1, <4>2, <4>3, <2>2
    <3>4. (m + 2) - 2 = m /\ m \in 1..m
      BY <3>1, <1>small
    <3>5. qs[u[i].nonce - 2] = ps[m] /\ ps[m] \in ServerPacket
      BY <3>2, <3>3, <3>4, <1>1
    <3>6. PacketSize(ps[m]) \in {3, 4}
      BY <3>5, SizesAreSmall
    <3>7. 1 \in 1..z
      BY <1>small
    <3>8. b[1].nonce = m + 3 /\ b[1].at = 1
      BY <3>7, <1>4
    <3>9. ~(u[i].at < PacketSize(qs[u[i].nonce - 2]))
      BY <3>2, <3>3, <3>5, <3>6
    <3>10. u[i + 1].nonce = u[i].nonce + 1
      <4>1. u[i].nonce = m + 2 /\ u[i + 1].nonce = m + 3
        BY <3>2, <3>3, <3>8
      <4>2. m + 3 = (m + 2) + 1
        BY <1>small
      <4> QED
        BY <4>1, <4>2
    <3> QED
      BY <3>3, <3>8, <3>9, <3>10
  <2>3. CASE i \in l + 1..(l + z) - 1
    <3>1. /\ u[i] = b[i - l] /\ u[i + 1] = b[(i - l) + 1]
          /\ i - l \in 1..z /\ (i - l) + 1 \in 1..z /\ i - l < z
      <4>1. i \in l + 1..l + z /\ i + 1 \in l + 1..l + z /\ (i + 1) - l = (i - l) + 1
            /\ i - l < z
        <5>1. i \in Int /\ l + 1 <= i /\ i <= (l + z) - 1 /\ l \in Nat /\ z \in Nat
          BY <2>3, <1>small
        <5> QED
          BY <5>1
      <4>2. u[i] = b[i - l] /\ i - l \in 1..z
        BY <4>1, <1>2
      <4>3. u[i + 1] = b[(i + 1) - l] /\ (i + 1) - l \in 1..z
        BY <4>1, <1>2
      <4> QED
        BY <4>1, <4>2, <4>3
    <3>2. /\ u[i].nonce = m + 3 /\ u[i].at = i - l
          /\ u[i + 1].nonce = m + 3 /\ u[i + 1].at = (i - l) + 1
      BY <3>1, <1>4
    <3>3. qs[u[i].nonce - 2] = p
      <4>1. (m + 3) - 2 = m + 1
        BY <1>1
      <4> QED
        BY <4>1, <3>2, <1>1
    <3> QED
      BY <3>1, <3>2, <3>3 DEF z
  <2> QED
    BY <2>1, <2>2, <2>3, <1>small
<1> QED
  <2>4. Len(u) = l + z
    BY <1>2
  <2>5. Len(qs) = m + 1 /\ qs[m + 1] = p
    BY <1>1
  <2>6. (m + 1) + 2 = m + 3
    BY <1>small
  <2>7. PacketSize(p) = z
    BY DEF z
  <2>1. Len(u) = l + z /\ Len(qs) = m + 1 /\ (m + 1) + 2 = m + 3 /\ qs[Len(qs)] = p /\ PacketSize(p) = z
    BY <2>4, <2>5, <2>6, <2>7
  <2> QED
    BY <2>1, <1>5, <1>6, <1>7, <1>8 DEF Stream, u, qs

(* The client takes the first packet out of its buffer b; r is what has    *)
(* not arrived there. *)
LEMMA FirstPacket ==
    ASSUME NEW b \in Seq(Byte), NEW r \in Seq(Byte), NEW ps \in Seq(ServerPacket), NEW s \in Nat,
           NEW h \in 0..Len(ps), Stream(b \o r, ps, s, h), Complete(b)
    PROVE  /\ h + 1 \in 1..Len(ps)
           /\ PacketLength(b) = PacketSize(ps[h + 1]) /\ PacketLength(b) <= Len(b)
           /\ \A i \in 1..PacketSize(ps[h + 1]) : b[i] = ByteOf(s, ps[h + 1].kind, h + 3, i)
<1> DEFINE t == b \o r
           m == Len(ps)
           p == ps[h + 1]
           z == PacketSize(p)
<1>0. h \in 0..m /\ m \in Nat
  BY LenProperties
<1>1. /\ Len(t) \in Nat /\ Len(b) \in Nat /\ Len(b) <= Len(t) /\ Len(b) >= 2
      /\ \A i \in 1..Len(b) : t[i] = b[i] /\ b[i] \in Byte
  <2>1. /\ Len(t) = Len(b) + Len(r) /\ Len(b) \in Nat /\ Len(r) \in Nat
        /\ \A i \in 1..Len(b) + Len(r) : t[i] = IF i <= Len(b) THEN b[i] ELSE r[i - Len(b)]
        /\ \A i \in 1..Len(b) : b[i] \in Byte
    BY ConcatProperties, LenProperties, ElementOfSeq
  <2>2. Len(b) >= 2
    BY DEF Complete
  <2> HIDE DEF t
  <2> QED
    BY <2>1, <2>2
<1> HIDE DEF t, m, p, z
<1>2. \A i \in 1..Len(b) :
         /\ t[i] = b[i]
         /\ t[i].nonce - 2 \in h + 1..m
         /\ t[i] = ByteOf(s, ps[t[i].nonce - 2].kind, t[i].nonce, t[i].at)
         /\ i < Len(t) =>
              IF t[i].at < PacketSize(ps[t[i].nonce - 2])
              THEN t[i + 1].nonce = t[i].nonce /\ t[i + 1].at = t[i].at + 1
              ELSE t[i + 1].nonce = t[i].nonce + 1 /\ t[i + 1].at = 1
  <2> TAKE i \in 1..Len(b)
  <2>1. i \in 1..Len(t) /\ (i < Len(t) => i \in 1..Len(t) - 1)
    BY <1>1
  <2> QED
    BY <2>1, <1>1 DEF Stream, t, m
<1>3. h < m
  <2>1. 1 \in 1..Len(b)
    BY <1>1
  <2>2. t[1].nonce - 2 \in h + 1..m
    BY <2>1, <1>2
  <2> QED
    BY <2>2, <1>0
<1>4. t[1].nonce = h + 3 /\ t[1].at = 1
  BY <1>3 DEF Stream, t, m
<1>5. h + 1 \in 1..m /\ (h + 3) - 2 = h + 1 /\ p \in ServerPacket
  <2>1. h + 1 \in 1..m /\ (h + 3) - 2 = h + 1
    BY <1>0, <1>3
  <2> QED
    BY <2>1, ElementOfSeq DEF m, p
<1>6. z \in {3, 4} /\ BodySize(p.kind) \in {1, 2} /\ z = 2 + BodySize(p.kind)
  BY <1>5, SizesAreSmall DEF z, PacketSize
<1>7. ASSUME NEW i \in 1..3, i < z, i < Len(b), t[i].nonce = h + 3, t[i].at = i
      PROVE  t[i + 1].nonce = h + 3 /\ t[i + 1].at = i + 1
  <2>1. i \in 1..Len(b) /\ i < Len(t)
    BY <1>1, <1>7
  <2>2. ps[t[i].nonce - 2] = p
    BY <1>5, <1>7 DEF p
  <2>3. t[i].at < PacketSize(ps[t[i].nonce - 2])
    BY <2>2, <1>7 DEF z
  <2> QED
    BY <2>1, <2>3, <1>2, <1>7
<1>8. ASSUME NEW i \in 1..Len(b), t[i].nonce = h + 3, t[i].at = i
      PROVE  b[i] = ByteOf(s, p.kind, h + 3, i)
  <2>1. ps[t[i].nonce - 2] = p
    BY <1>5, <1>8 DEF p
  <2> QED
    BY <2>1, <1>2, <1>8
<1>9. t[2].nonce = h + 3 /\ t[2].at = 2 /\ (2 < Len(b) => t[3].nonce = h + 3 /\ t[3].at = 3)
  <2>1. t[1 + 1].nonce = h + 3 /\ t[1 + 1].at = 1 + 1
    BY <1>1, <1>4, <1>6, <1>7
  <2>2. t[2].nonce = h + 3 /\ t[2].at = 2
    BY <2>1
  <2>3. 2 < Len(b) => t[2 + 1].nonce = h + 3 /\ t[2 + 1].at = 2 + 1
    BY <2>2, <1>6, <1>7
  <2> QED
    BY <2>2, <2>3
<1>10. PacketLength(b) = z
  <2>1. b[1] = ByteOf(s, p.kind, h + 3, 1) /\ b[2] = ByteOf(s, p.kind, h + 3, 2)
    <3>1. 1 \in 1..Len(b) /\ 2 \in 1..Len(b)
      BY <1>1
    <3> QED
      BY <3>1, <1>4, <1>8, <1>9
  <2>2. b[1].value = BodySize(p.kind) /\ b[2].value = 0
    BY <2>1 DEF ByteOf
  <2> QED
    BY <2>2, <1>6 DEF PacketLength
<1>11. z <= Len(b)
  BY <1>1, <1>10, <1>6 DEF Complete
<1>12. z = 4 => t[4].nonce = h + 3 /\ t[4].at = 4
  <2>1. z = 4 => 3 < z /\ 3 < Len(b) /\ t[3].nonce = h + 3 /\ t[3].at = 3
    BY <1>1, <1>9, <1>11
  <2>2. z = 4 => t[3 + 1].nonce = h + 3 /\ t[3 + 1].at = 3 + 1
    BY <2>1, <1>7
  <2> QED
    BY <2>2
<1>13. \A i \in 1..z : t[i].nonce = h + 3 /\ t[i].at = i
  <2>1. 2 < Len(b)
    BY <1>1, <1>6, <1>11
  <2>2. \A i \in 1..z : i = 1 \/ i = 2 \/ i = 3 \/ (i = 4 /\ z = 4)
    BY <1>6
  <2> QED
    BY <2>1, <2>2, <1>4, <1>9, <1>12
<1>14. \A i \in 1..z : b[i] = ByteOf(s, p.kind, h + 3, i)
  <2> TAKE i \in 1..z
  <2>1. i \in 1..Len(b)
    BY <1>1, <1>6, <1>11
  <2> QED
    BY <2>1, <1>8, <1>13
<1> QED
  BY <1>5, <1>10, <1>11, <1>14 DEF p, z, m

(* ... and what remains are the bytes of the others. *)
LEMMA StreamShrinks ==
    ASSUME NEW b \in Seq(Byte), NEW r \in Seq(Byte), NEW ps \in Seq(ServerPacket), NEW s \in Nat,
           NEW h \in 0..Len(ps), Stream(b \o r, ps, s, h), Complete(b)
    PROVE  /\ SubSeq(b, PacketLength(b) + 1, Len(b)) \in Seq(Byte)
           /\ Stream(SubSeq(b, PacketLength(b) + 1, Len(b)) \o r, ps, s, h + 1)
<1> DEFINE t == b \o r
           m == Len(ps)
           z == PacketLength(b)
           c == SubSeq(b, z + 1, Len(b))
           u == c \o r
<1>0. h \in 0..m /\ m \in Nat
  BY LenProperties
<1>1. /\ h + 1 \in 1..m /\ z = PacketSize(ps[h + 1]) /\ z <= Len(b) /\ z \in {3, 4}
      /\ \A i \in 1..z : b[i] = ByteOf(s, ps[h + 1].kind, h + 3, i)
  <2>1. /\ h + 1 \in 1..m /\ z = PacketSize(ps[h + 1]) /\ z <= Len(b)
        /\ \A i \in 1..PacketSize(ps[h + 1]) : b[i] = ByteOf(s, ps[h + 1].kind, h + 3, i)
    BY FirstPacket
  <2>2. ps[h + 1] \in ServerPacket
    BY <2>1, ElementOfSeq
  <2> HIDE DEF z, m
  <2> QED
    BY <2>1, <2>2, SizesAreSmall
<1>2. Len(b) \in Nat /\ Len(r) \in Nat /\ \A i \in 1..Len(b) : b[i] \in Byte
  BY LenProperties, ElementOfSeq
<1>3. /\ c \in Seq(Byte) /\ Len(c) = Len(b) - z
      /\ \A i \in 1..Len(b) - z : c[i] = b[z + i]
  <2>1. z + 1 \in Int /\ Len(b) \in Int /\ \A i \in z + 1..Len(b) : b[i] \in Byte
    <3> HIDE DEF z
    <3> QED
      BY <1>1, <1>2
  <2>2. /\ c \in Seq(Byte)
        /\ Len(c) = IF z + 1 <= Len(b) THEN Len(b) - (z + 1) + 1 ELSE 0
        /\ \A i \in 1..Len(b) - (z + 1) + 1 : c[i] = b[(z + 1) + i - 1]
    <3> HIDE DEF z
    <3> QED
      BY <2>1, SubSeqProperties
  <2> HIDE DEF c, z
  <2>3. Len(b) - (z + 1) + 1 = Len(b) - z /\ \A i \in 1..Len(b) - z : (z + 1) + i - 1 = z + i
    BY <1>1, <1>2
  <2>5. z \in Nat /\ z <= Len(b) /\ Len(b) \in Nat
    <3>1. Len(b) \in Nat
      BY <1>2
    <3>2. z \in {3, 4} /\ z <= Len(b)
      BY <1>1
    <3> QED
      BY <3>1, <3>2
  <2>6. Len(c) = IF z + 1 <= Len(b) THEN Len(b) - (z + 1) + 1 ELSE 0
    BY <2>2
  <2>4. Len(c) = Len(b) - z
    BY <2>5, <2>6
  <2> QED
    BY <2>2, <2>3, <2>4
<1> HIDE DEF z, c, m
<1>lengths. Len(b) = Len(c) + z /\ Len(b) \in Nat /\ Len(c) \in Nat /\ z \in Nat
  <2>1. Len(b) \in Nat
    BY <1>2
  <2>2. z \in Nat /\ z <= Len(b)
    BY <1>1
  <2>3. Len(c) = Len(b) - z
    BY <1>3
  <2> QED
    BY <2>1, <2>2, <2>3
<1>4. /\ Len(t) = Len(b) + Len(r)
      /\ \A i \in 1..Len(b) + Len(r) : t[i] = IF i <= Len(b) THEN b[i] ELSE r[i - Len(b)]
      /\ Len(u) = Len(c) + Len(r)
      /\ \A i \in 1..Len(c) + Len(r) : u[i] = IF i <= Len(c) THEN c[i] ELSE r[i - Len(c)]
  BY <1>3, ConcatProperties
<1> HIDE DEF t, u
<1>5. /\ Len(t) = Len(u) + z /\ Len(u) \in Nat /\ Len(t) \in Nat
      /\ \A i \in 1..Len(u) : u[i] = t[z + i] /\ z + i \in 1..Len(t)
      /\ \A i \in 1..z : t[i] = ByteOf(s, ps[h + 1].kind, h + 3, i)
  <2>1. Len(t) = Len(u) + z /\ Len(u) \in Nat /\ Len(t) \in Nat /\ Len(c) \in Nat
    BY <1>1, <1>2, <1>3, <1>4
  <2>2. \A i \in 1..Len(u) : u[i] = t[z + i] /\ z + i \in 1..Len(t)
    <3> TAKE i \in 1..Len(u)
    <3>0. /\ i \in Nat /\ 1 <= i /\ i <= Len(u) /\ z \in Nat
          /\ Len(t) = Len(u) + z /\ Len(u) \in Nat /\ Len(t) \in Nat
          /\ Len(b) + Len(r) = Len(t) /\ Len(c) + Len(r) = Len(u)
      <4>1. z \in Nat
        BY <1>1
      <4>2. i \in Nat /\ 1 <= i /\ i <= Len(u)
        BY <2>1
      <4> QED
        BY <4>1, <4>2, <2>1, <1>4
    <3>1. z + i \in 1..Len(t) /\ z + i \in 1..Len(b) + Len(r) /\ i \in 1..Len(c) + Len(r)
      BY <3>0
    <3>2. CASE i <= Len(c)
      <4>1. i \in 1..Len(b) - z /\ z + i <= Len(b)
        BY <1>lengths, <3>0, <3>2
      <4> QED
        BY <3>1, <3>2, <4>1, <1>3, <1>4
    <3>3. CASE ~(i <= Len(c))
      <4>1. ~(z + i <= Len(b)) /\ (z + i) - Len(b) = i - Len(c)
        BY <1>lengths, <3>0, <3>3
      <4> QED
        BY <3>1, <3>3, <4>1, <1>4
    <3> QED
      BY <3>2, <3>3
  <2>3. \A i \in 1..z : t[i] = b[i]
    <3> TAKE i \in 1..z
    <3>1. i \in 1..Len(b) + Len(r) /\ i <= Len(b)
      BY <1>1, <1>2
    <3> QED
      BY <3>1, <1>4
  <2> QED
    BY <2>1, <2>2, <2>3, <1>1
<1>places. Len(t) = Len(u) + z /\ Len(u) \in Nat /\ Len(t) \in Nat /\ z \in {3, 4}
  <2>1. Len(t) = Len(u) + z /\ Len(u) \in Nat /\ Len(t) \in Nat
    BY <1>5
  <2>2. z \in {3, 4}
    BY <1>1
  <2> QED
    BY <2>1, <2>2
<1>6. Stream(t, ps, s, h)
  BY DEF t
<1>7. z \in 1..Len(t) /\ t[z].nonce = h + 3 /\ t[z].at = z
  <2>1. z \in 1..z /\ z \in 1..Len(t)
    BY <1>places
  <2>2. t[z] = ByteOf(s, ps[h + 1].kind, h + 3, z)
    BY <2>1, <1>5
  <2> QED
    BY <2>1, <2>2 DEF ByteOf
<1>8. Len(u) > 0 => u[1].nonce = h + 4 /\ u[1].at = 1
  <2> SUFFICES ASSUME Len(u) > 0 PROVE u[1].nonce = h + 4 /\ u[1].at = 1
    OBVIOUS
  <2>5. z \in 1..Len(t) - 1 /\ 1 \in 1..Len(u)
    BY <1>places
  <2>1. z \in 1..Len(t) - 1 /\ u[1] = t[z + 1]
    BY <2>5, <1>5
  <2>2. (h + 3) - 2 = h + 1 /\ (h + 3) + 1 = h + 4
    BY <1>0
  <2>3. ~(t[z].at < PacketSize(ps[t[z].nonce - 2]))
    BY <2>2, <1>1, <1>7
  <2>4. t[z + 1].nonce = t[z].nonce + 1 /\ t[z + 1].at = 1
    BY <2>1, <2>3, <1>6 DEF Stream
  <2> QED
    BY <2>1, <2>2, <2>4, <1>7
<1>9. \A i \in 1..Len(u) :
         /\ u[i].nonce - 2 \in (h + 1) + 1..m
         /\ u[i].at \in 1..PacketSize(ps[u[i].nonce - 2])
         /\ u[i] = ByteOf(s, ps[u[i].nonce - 2].kind, u[i].nonce, u[i].at)
  <2> TAKE i \in 1..Len(u)
  <2>1. u[i] = t[z + i] /\ z + i \in 1..Len(t)
    BY <1>5
  <2>2. /\ u[i].nonce - 2 \in h + 1..m
        /\ u[i].at \in 1..PacketSize(ps[u[i].nonce - 2])
        /\ u[i] = ByteOf(s, ps[u[i].nonce - 2].kind, u[i].nonce, u[i].at)
    BY <2>1, <1>6 DEF Stream, m
  <2>3. h + 4 <= u[i].nonce
    <3>1. u[1].nonce = h + 4
      BY <1>5, <1>8
    <3>2. CASE i = 1
      BY <3>1, <3>2, <1>0
    <3>3. CASE i # 1
      <4>3. z + 1 \in 1..Len(t) /\ z + 1 < z + i /\ 1 \in 1..Len(u)
        BY <3>3, <1>places
      <4>1. z + 1 \in 1..Len(t) /\ z + 1 < z + i /\ u[1] = t[z + 1]
        BY <4>3, <1>5
      <4>2. t[z + 1].nonce <= t[z + i].nonce
        BY <4>1, <2>1, <1>6 DEF Stream
      <4> QED
        BY <3>1, <4>1, <4>2, <2>1
    <3> QED
      BY <3>2, <3>3
  <2>4. u[i].nonce \in Nat
    <3>1. t[z + i] \in Byte
      BY <2>1, ElementOfSeq, ConcatProperties DEF t
    <3> QED
      BY <3>1, <2>1 DEF Byte
  <2>5. ASSUME NEW x \in Nat, x - 2 \in h + 1..m, h + 4 <= x PROVE x - 2 \in (h + 1) + 1..m
    BY <1>0, <2>5
  <2> QED
    BY <2>2, <2>3, <2>4, <2>5
<1>10. \A i, j \in 1..Len(u) : i < j => u[i].nonce <= u[j].nonce
  <2> TAKE i, j \in 1..Len(u)
  <2>1. u[i] = t[z + i] /\ z + i \in 1..Len(t) /\ u[j] = t[z + j] /\ z + j \in 1..Len(t)
    BY <1>5
  <2>2. i < j => z + i < z + j
    BY <1>1
  <2> QED
    BY <2>1, <2>2, <1>6 DEF Stream
<1>11. h + 1 < m =>
         /\ Len(u) > 0
         /\ u[1].nonce = (h + 1) + 3 /\ u[1].at = 1
         /\ u[Len(u)].nonce = m + 2 /\ u[Len(u)].at = PacketSize(ps[m])
  <2> SUFFICES ASSUME h + 1 < m
               PROVE  /\ Len(u) > 0
                      /\ u[1].nonce = (h + 1) + 3 /\ u[1].at = 1
                      /\ u[Len(u)].nonce = m + 2 /\ u[Len(u)].at = PacketSize(ps[m])
    OBVIOUS
  <2>1. t[Len(t)].nonce = m + 2 /\ t[Len(t)].at = PacketSize(ps[m])
    <3>1. h < Len(ps)
      BY <1>0 DEF m
    <3> QED
      BY <3>1, <1>6 DEF Stream, m
  <2>2. Len(u) > 0
    <3>1. CASE Len(u) = 0
      <4>1. Len(t) = z
        BY <3>1, <1>1, <1>5
      <4>2. h + 3 = m + 2
        BY <4>1, <2>1, <1>7
      <4> QED
        BY <4>2, <1>0
    <3> QED
      BY <3>1, <1>5
  <2>3. u[Len(u)] = t[Len(t)]
    <3>1. Len(u) \in 1..Len(u) /\ z + Len(u) = Len(t)
      BY <2>2, <1>1, <1>5
    <3> QED
      BY <3>1, <1>5
  <2>4. (h + 1) + 3 = h + 4
    BY <1>0
  <2> QED
    BY <2>1, <2>2, <2>3, <2>4, <1>8
<1>12. \A i \in 1..Len(u) - 1 :
          IF u[i].at < PacketSize(ps[u[i].nonce - 2])
          THEN u[i + 1].nonce = u[i].nonce /\ u[i + 1].at = u[i].at + 1
          ELSE u[i + 1].nonce = u[i].nonce + 1 /\ u[i + 1].at = 1
  <2> TAKE i \in 1..Len(u) - 1
  <2>lengths. Len(t) = Len(u) + z /\ Len(u) \in Nat
    BY <1>5
  <2>0. /\ i \in Nat /\ 1 <= i /\ i + 1 <= Len(u) /\ z \in Nat
        /\ Len(t) = Len(u) + z /\ Len(u) \in Nat
    BY <2>lengths, <1>lengths
  <2>1. i \in 1..Len(u) /\ i + 1 \in 1..Len(u) /\ z + (i + 1) = (z + i) + 1
        /\ z + i \in 1..Len(t) - 1
    BY <2>0
  <2>2. u[i] = t[z + i] /\ u[i + 1] = t[(z + i) + 1]
    <3>1. u[i] = t[z + i] /\ u[i + 1] = t[z + (i + 1)]
      BY <2>1, <1>5
    <3> QED
      BY <3>1, <2>1
  <2>3. ASSUME NEW k \in 1..Len(t) - 1
        PROVE  IF t[k].at < PacketSize(ps[t[k].nonce - 2])
               THEN t[k + 1].nonce = t[k].nonce /\ t[k + 1].at = t[k].at + 1
               ELSE t[k + 1].nonce = t[k].nonce + 1 /\ t[k + 1].at = 1
    BY <1>6 DEF Stream
  <2>4. IF t[z + i].at < PacketSize(ps[t[z + i].nonce - 2])
        THEN t[(z + i) + 1].nonce = t[z + i].nonce /\ t[(z + i) + 1].at = t[z + i].at + 1
        ELSE t[(z + i) + 1].nonce = t[z + i].nonce + 1 /\ t[(z + i) + 1].at = 1
    BY <2>1, <2>3
  <2> QED
    BY <2>2, <2>4
<1>13. Stream(u, ps, s, h + 1)
  BY <1>9, <1>10, <1>11, <1>12 DEF Stream, m
<1> QED
  BY <1>3, <1>13 DEF u, c, z

-----------------------------------------------------------------------------
(* Payloads.  The parts of one begin where those before them end.          *)

LEMMA StartsAreSums ==
    ASSUME NEW w \in Seq(Nat)
    PROVE  PartialSums(Starts(w), w)
<1>1. PICK g : PartialSums(g, w)
  BY SumsExist
<1>2. Starts(w) = CHOOSE f : PartialSums(f, w)
  BY DEF Starts, PartialSums
<1> QED
  BY <1>1, <1>2, Zenon

-----------------------------------------------------------------------------
(* A payload of which the reader takes the fields that the writer wrote.   *)
FieldNames == DOMAIN Width

LEMMA WidthsArePositive == \A f \in FieldNames : Width[f] \in Nat /\ Width[f] # 0
  BY DEF FieldNames, Width

PartWidths(parts) == [i \in DOMAIN parts |-> parts[i][1]]

(* What stands at the beginning of a part can be taken from there.         *)
LEMMA MidOfPart ==
    ASSUME NEW S, NEW parts \in Seq((Nat \ {0}) \X S), NEW k \in DOMAIN parts
    PROVE  Mid(parts, Starts(PartWidths(parts))[k], parts[k][1]) = parts[k][2]
<1> DEFINE w == PartWidths(parts)
           f == Starts(w)
           here == {i \in DOMAIN parts : f[i] = f[k] /\ parts[i][1] = parts[k][1]}
<1>1. Len(parts) \in Nat /\ DOMAIN parts = 1..Len(parts)
  BY LenProperties
<1>2. \A i \in DOMAIN parts : parts[i] \in (Nat \ {0}) \X S
  BY ElementOfSeq, <1>1
<1>3. w \in [1..Len(parts) -> Nat] /\ \A i \in 1..Len(parts) : w[i] # 0
  BY <1>1, <1>2 DEF PartWidths
<1>4. w \in Seq(Nat) /\ Len(w) = Len(parts)
  BY <1>1, <1>3, LenOfFunction, Zenon
<1> HIDE DEF w
<1>5. PartialSums(f, w)
  BY <1>4, StartsAreSums
<1> HIDE DEF f
<1>6. \A i, j \in 1..Len(w) + 1 : i < j => f[i] < f[j]
  BY <1>3, <1>4, <1>5, SumsRise
<1>7. \A i \in 1..Len(w) + 1 : f[i] \in Nat
  BY <1>3, <1>4, <1>5, SumsRise
<1>8. ASSUME NEW i \in DOMAIN parts, f[i] = f[k] PROVE i = k
  <2>1. i \in 1..Len(w) + 1 /\ k \in 1..Len(w) + 1
    BY <1>1, <1>4
  <2>2. ~(f[i] < f[k]) /\ ~(f[k] < f[i])
    BY <1>7, <1>8, <2>1
  <2>3. ~(i < k) /\ ~(k < i)
    BY <1>6, <2>1, <2>2
  <2> QED
    BY <2>1, <2>3, <1>4, <1>1
<1>9. here = {k}
  BY <1>8
<1>10. Mid(parts, f[k], parts[k][1]) = IF here = {} THEN Garbage ELSE parts[CHOOSE i \in here : TRUE][2]
  BY Zenon DEF Mid, f, w, PartWidths
<1> HIDE DEF here
<1>11. (CHOOSE i \in here : TRUE) = k
  BY <1>9
<1> QED
  BY <1>9, <1>10, <1>11 DEF f, w

(* The usual layouts: no field twice, and nothing but the fields if only   *)
(* their size is accepted.                                                 *)
Plain(l, names) ==
    /\ names \in Seq(FieldNames)
    /\ \A i, j \in DOMAIN names : names[i] = names[j] => i = j
    /\ l.tail \in {"none", "text", "ids", "json"} /\ l.least \in Nat
    /\ (l.exact => l.tail = "none") /\ (l.tail = "none" => l.least = 0)
    /\ l = Layout(names, l.tail, l.least, l.exact, l.owner)

TailWidth(l) == IF l.tail = "ids" THEN IdWidth ELSE 1

(* What a sender has to write: a value for each field, and what stands     *)
(* behind them.                                                            *)
HasAll(l, fields, tail) ==
    /\ DOMAIN fields = {l.writes[i][1] : i \in DOMAIN l.writes}
    /\ fields = [f \in DOMAIN fields |-> fields[f]]
    /\ (l.tail = "none" => tail = <<>>)
    /\ Len(tail) * TailWidth(l) >= l.least

(* The parts it is written in: the fields, then the tail.                  *)
PartsAre(parts, c, names, T, fields, tail) ==
    LET n == Len(names)
        k == Len(tail)
    IN  /\ parts \in Seq((Nat \ {0}) \X (T \cup {fields[f] : f \in DOMAIN fields}))
        /\ n \in Nat /\ k \in Nat /\ Len(parts) = n + k
        /\ \A i \in 1..n : parts[i] = <<Width[names[i]], fields[names[i]]>>
        /\ \A i \in 1..k : parts[n + i] = <<c, tail[i]>>

Writing(l, names) == names \in Seq(FieldNames) /\ l.writes = Writes(names)

LEMMA PartsOfPayload ==
    ASSUME NEW class, NEW names, Writing(LayoutOf[class], names),
           NEW T, NEW tail \in Seq(T), NEW fields, HasAll(LayoutOf[class], fields, tail)
    PROVE  PartsAre(ToPacketPayload(class, fields, tail).parts, TailWidth(LayoutOf[class]),
                    names, T, fields, tail)
<1> DEFINE l == LayoutOf[class]
           n == Len(names)
           k == Len(tail)
           S == T \cup {fields[f] : f \in DOMAIN fields}
           E == (Nat \ {0}) \X S
           c == TailWidth(l)
           a == [i \in DOMAIN l.writes |-> <<l.writes[i][2], fields[l.writes[i][1]]>>]
           b == [i \in DOMAIN tail |-> <<c, tail[i]>>]
<1>1. ToPacketPayload(class, fields, tail).parts = a \o b
  BY Zenon DEF ToPacketPayload, TailWidth
<1>2. names \in Seq(FieldNames) /\ l.writes = Writes(names)
  BY DEF Writing
<1>3. n \in Nat /\ k \in Nat /\ DOMAIN names = 1..n /\ DOMAIN tail = 1..k
  BY <1>2, LenProperties
<1>4. DOMAIN l.writes = 1..n /\ \A i \in 1..n : l.writes[i] = <<names[i], Width[names[i]]>>
  BY <1>2, <1>3 DEF Writes
<1>5. c \in Nat \ {0}
  BY DEF TailWidth, IdWidth
<1>6. \A i \in 1..n : names[i] \in FieldNames /\ names[i] \in DOMAIN fields
  <2>1. DOMAIN fields = {l.writes[i][1] : i \in DOMAIN l.writes}
    BY DEF HasAll
  <2> HIDE DEF l
  <2> QED
    BY <1>2, <1>3, <1>4, <2>1, ElementOfSeq
<1>7. \A i \in 1..k : tail[i] \in T
  BY <1>3, ElementOfSeq
<1> HIDE DEF l, c, k, n
<1>8. a \in [1..n -> E] /\ \A i \in 1..n : a[i] = <<Width[names[i]], fields[names[i]]>>
  <2>1. \A i \in 1..n : a[i] = <<Width[names[i]], fields[names[i]]>> /\ a[i] \in E
    BY <1>4, <1>6, WidthsArePositive
  <2>2. DOMAIN a = 1..n
    BY <1>4
  <2>3. a = [i \in DOMAIN a |-> a[i]]
    OBVIOUS
  <2> HIDE DEF a, E
  <2> QED
    BY <2>1, <2>2, <2>3
<1>9. b \in [1..k -> E] /\ \A i \in 1..k : b[i] = <<c, tail[i]>>
  <2>1. \A i \in 1..k : b[i] = <<c, tail[i]>> /\ b[i] \in E
    BY <1>3, <1>5, <1>7
  <2>2. DOMAIN b = 1..k
    BY <1>3
  <2>3. b = [i \in DOMAIN b |-> b[i]]
    OBVIOUS
  <2> HIDE DEF b, E
  <2> QED
    BY <2>1, <2>2, <2>3
<1> HIDE DEF a, b, E
<1>10. a \in Seq(E) /\ Len(a) = n
  BY <1>3, <1>8, LenOfFunction, Zenon
<1>11. b \in Seq(E) /\ Len(b) = k
  BY <1>3, <1>9, LenOfFunction, Zenon
<1> DEFINE parts == a \o b
<1>12. /\ parts \in Seq(E) /\ Len(parts) = n + k
       /\ \A i \in 1..n + k : parts[i] = IF i <= n THEN a[i] ELSE b[i - n]
  BY <1>10, <1>11, ConcatProperties
<1> HIDE DEF parts
<1>13. ASSUME NEW i \in 1..n PROVE parts[i] = <<Width[names[i]], fields[names[i]]>>
  <2>1. i \in 1..n + k /\ i <= n
    BY <1>3
  <2> QED
    BY <2>1, <1>8, <1>12
<1>14. ASSUME NEW i \in 1..k PROVE parts[n + i] = <<c, tail[i]>>
  <2>1. n + i \in 1..n + k /\ ~(n + i <= n) /\ (n + i) - n = i
    BY <1>3
  <2>2. parts[n + i] = b[i]
    BY <2>1, <1>12
  <2> QED
    BY <2>2, <1>9
<1>15. ToPacketPayload(class, fields, tail).parts = parts
  BY <1>1 DEF parts
<1> QED
  BY <1>3, <1>12, <1>13, <1>14, <1>15 DEF l, c, k, n, E, PartsAre

(* Where the fields begin, for the writer and for the reader.              *)
BeginAt(at, put, read, widths, n, k) ==
    /\ \A i \in 1..n + 1 : put[i] = at[i] /\ read[i] = at[i]
    /\ \A i \in 1..n + k + 1 : at[i] \in Nat
    /\ \A i, j \in 1..n + k + 1 : i < j => at[i] < at[j]
    /\ \A i \in 1..n : at[i + 1] = at[i] + widths[i]

Alike(w, u, v, n) == \A i \in 1..n : w[i] # 0 /\ u[i] = w[i] /\ v[i] = w[i]

LEMMA SameBeginnings ==
    ASSUME NEW n \in Nat, NEW k \in Nat, NEW c \in Nat \ {0},
           NEW w \in Seq(Nat), Len(w) = n + k, NEW u \in Seq(Nat), Len(u) = n,
           NEW v \in Seq(Nat), Len(v) = n,
           Alike(w, u, v, n), EqualFrom(w, n, k, c)
    PROVE  /\ BeginAt(Starts(w), Starts(u), Starts(v), u, n, k)
           /\ Starts(w)[n + k + 1] = Starts(w)[n + 1] + k * c
<1>1. PICK at : at = Starts(w) /\ PartialSums(at, w)
  BY StartsAreSums
<1>2. PICK put : put = Starts(u) /\ PartialSums(put, u)
  BY StartsAreSums
<1>3. PICK read : read = Starts(v) /\ PartialSums(read, v)
  BY StartsAreSums
<1> USE DEF Alike
<1>4. \A i \in 1..Len(w) : w[i] # 0
  <2> USE DEF EqualFrom
  <2> SUFFICES ASSUME NEW i \in 1..n + k PROVE w[i] # 0
    OBVIOUS
  <2>1. CASE i <= n
    <3>1. i \in 1..n
      BY <2>1
    <3> QED
      BY <3>1
  <2>2. CASE ~(i <= n)
    <3>1. i - n \in 1..k /\ n + (i - n) = i
      BY <2>2
    <3> QED
      BY <3>1
  <2> QED
    BY <2>1, <2>2
<1>5. n <= Len(w) /\ n <= Len(u) /\ n <= Len(v)
  OBVIOUS
<1>6. ASSUME NEW i \in 1..n + 1 PROVE at[i] = put[i]
  <2>1. SameUpto(w, u, n)
    BY <1>5 DEF SameUpto
  <2> QED
    BY <1>1, <1>2, <1>5, <2>1, SumsAgree
<1>7. ASSUME NEW i \in 1..n + 1 PROVE at[i] = read[i]
  <2>1. SameUpto(w, v, n)
    BY <1>5 DEF SameUpto
  <2> QED
    BY <1>1, <1>3, <1>5, <2>1, SumsAgree
<1>8. /\ \A i \in 1..Len(w) + 1 : at[i] \in Nat
      /\ \A i, j \in 1..Len(w) + 1 : i < j => at[i] < at[j]
  BY <1>1, <1>4, SumsRise
<1>9. ASSUME NEW i \in 1..n PROVE at[i + 1] = at[i] + u[i]
  <2>1. i \in 1..Len(w)
    OBVIOUS
  <2>2. at[i + 1] = at[i] + w[i]
    BY <2>1, <1>1, SumsStep
  <2> QED
    BY <2>2
<1>10. at[n + k + 1] = at[n + 1] + k * c
  <2>1. n + 1 \in 1..Len(w) + 1 /\ c \in Nat
    OBVIOUS
  <2>2. at[n + 1] \in Nat
    BY <2>1, <1>8
  <2> QED
    BY <1>1, <2>1, <2>2, SumsOfEqual
<1>11. BeginAt(at, put, read, u, n, k)
  BY <1>6, <1>7, <1>8, <1>9 DEF BeginAt
<1> QED
  BY <1>1, <1>2, <1>3, <1>10, <1>11

FieldsAre(l, parts, names, k) ==
    LET n == Len(names)
        at == Starts(PartWidths(parts))
    IN  /\ BeginAt(at, Starts([i \in DOMAIN l.writes |-> l.writes[i][2]]),
                   Starts([i \in DOMAIN l.reads |-> l.reads[i][3]]),
                   [i \in 1..n |-> Width[names[i]]], n, k)
        /\ Size(parts) = at[n + 1] + k * TailWidth(l)

LEMMA FieldsBegin ==
    ASSUME NEW l, NEW names, Plain(l, names), NEW parts, NEW T, NEW fields, NEW tail,
           PartsAre(parts, TailWidth(l), names, T, fields, tail)
    PROVE  FieldsAre(l, parts, names, Len(tail))
<1> DEFINE n == Len(names)
           k == Len(tail)
           c == TailWidth(l)
           w == PartWidths(parts)
           u == [i \in DOMAIN l.writes |-> l.writes[i][2]]
           v == [i \in DOMAIN l.reads |-> l.reads[i][3]]
           S == T \cup {fields[f] : f \in DOMAIN fields}
<1>1. /\ parts \in Seq((Nat \ {0}) \X S)
      /\ n \in Nat /\ k \in Nat /\ Len(parts) = n + k
      /\ \A i \in 1..n : parts[i] = <<Width[names[i]], fields[names[i]]>>
      /\ \A i \in 1..k : parts[n + i] = <<c, tail[i]>>
  BY Zenon DEF PartsAre
<1>2. names \in Seq(FieldNames) /\ l.writes = Writes(names) /\ l.reads = Reads(names)
  BY DEF Plain, Layout
<1>3. DOMAIN names = 1..n /\ \A i \in 1..n : Width[names[i]] \in Nat /\ Width[names[i]] # 0
  BY <1>2, LenProperties, ElementOfSeq, WidthsArePositive
<1>4. u = [i \in 1..n |-> Width[names[i]]] /\ v = [i \in 1..n |-> Width[names[i]]]
  <2>1. u = [i \in 1..n |-> Width[names[i]]]
    BY <1>2 DEF Writes
  <2>2. v = [i \in 1..n |-> Width[names[i]]]
    BY <1>2 DEF Reads
  <2> QED
    BY <2>1, <2>2
<1>5. c \in Nat \ {0}
  BY DEF TailWidth, IdWidth
<1> HIDE DEF k, c, n
<1>6. DOMAIN parts = 1..n + k /\ w = [i \in 1..n + k |-> parts[i][1]]
  <2>1. DOMAIN parts = 1..n + k
    BY <1>1, LenProperties
  <2> QED
    BY <2>1 DEF PartWidths
<1> HIDE DEF w, u, v
<1>7. ASSUME NEW i \in 1..n PROVE w[i] = Width[names[i]]
  <2>1. i \in 1..n + k
    BY <1>1
  <2> QED
    BY <2>1, <1>1, <1>6
<1>8. ASSUME NEW i \in 1..k PROVE w[n + i] = c
  <2>1. n + i \in 1..n + k
    BY <1>1
  <2>2. w[n + i] = parts[n + i][1]
    BY <2>1, <1>6
  <2>3. parts[n + i] = <<c, tail[i]>>
    BY <1>1
  <2> QED
    BY <2>2, <2>3
<1>9. w \in Seq(Nat) /\ Len(w) = n + k
  <2>1. \A i \in DOMAIN parts : parts[i] \in (Nat \ {0}) \X S
    BY <1>1, LenProperties, ElementOfSeq
  <2> HIDE DEF S
  <2>2. w \in [1..n + k -> Nat] /\ n + k \in Nat
    BY <1>1, <1>6, <2>1
  <2> QED
    BY <2>2, LenOfFunction, Zenon
<1>10. u \in Seq(Nat) /\ Len(u) = n /\ v \in Seq(Nat) /\ Len(v) = n
  <2>1. u \in [1..n -> Nat] /\ v \in [1..n -> Nat] /\ n \in Nat
    BY <1>1, <1>3, <1>4
  <2> QED
    BY <2>1, LenOfFunction, Zenon
<1>11. Alike(w, u, v, n) /\ EqualFrom(w, n, k, c)
  BY <1>3, <1>4, <1>7, <1>8, <1>9 DEF Alike, EqualFrom
<1>12. /\ BeginAt(Starts(w), Starts(u), Starts(v), u, n, k)
       /\ Starts(w)[n + k + 1] = Starts(w)[n + 1] + k * c
  BY <1>1, <1>5, <1>9, <1>10, <1>11, SameBeginnings
<1>13. Size(parts) = Starts(w)[n + k + 1]
  BY <1>1 DEF Size, w, PartWidths
<1>14. u = [i \in 1..n |-> Width[names[i]]]
  BY <1>4
<1> QED
  BY <1>12, <1>13, <1>14, Zenon DEF FieldsAre, n, k, c, w, u, v

(* What the reader makes of a payload, knowing its layout.                 *)
ReadBy(l, payload) ==
    LET start == Starts([i \in DOMAIN l.reads |-> l.reads[i][3]])
        Field(f) == LET i == CHOOSE j \in DOMAIN l.reads : l.reads[j][1] = f
                    IN  Mid(payload.parts, start[i], l.reads[i][2])
    IN  [class  |-> payload.signature,
         fields |-> [f \in {l.reads[i][1] : i \in DOMAIN l.reads} |-> Field(f)],
         tail   |-> [i \in 1 .. Len(payload.parts) - Len(l.writes) |->
                        payload.parts[Len(l.writes) + i][2]]]

LEMMA ReadingIsByLayout ==
    ASSUME NEW payload
    PROVE  FromPacketPayload(payload) = ReadBy(LayoutOf[payload.signature], payload)
  BY Zenon DEF FromPacketPayload, ReadBy

(* What was written in such a layout is accepted and read as it was meant. *)
LEMMA PlainIsReadAsWritten ==
    ASSUME NEW class, NEW names, Plain(LayoutOf[class], names),
           NEW T, NEW tail \in Seq(T), NEW fields, HasAll(LayoutOf[class], fields, tail)
    PROVE  LET payload == ToPacketPayload(class, fields, tail)
           IN  /\ ~Refused(payload)
               /\ FromPacketPayload(payload) = [class |-> class, fields |-> fields, tail |-> tail]
<1> DEFINE l == LayoutOf[class]
           payload == ToPacketPayload(class, fields, tail)
           parts == payload.parts
           n == Len(names)
           k == Len(tail)
           c == TailWidth(l)
           at == Starts(PartWidths(parts))
           put == Starts([i \in DOMAIN l.writes |-> l.writes[i][2]])
           read == Starts([i \in DOMAIN l.reads |-> l.reads[i][3]])
           S == T \cup {fields[f] : f \in DOMAIN fields}
<1>1. /\ parts \in Seq((Nat \ {0}) \X S)
      /\ n \in Nat /\ k \in Nat /\ Len(parts) = n + k
      /\ \A i \in 1..n : parts[i] = <<Width[names[i]], fields[names[i]]>>
      /\ \A i \in 1..k : parts[n + i] = <<c, tail[i]>>
  <2>1. PartsAre(parts, c, names, T, fields, tail)
    <3>1. Writing(l, names)
      BY DEF Plain, Layout, Writing
    <3> QED
      BY <3>1, PartsOfPayload
  <2> QED
    BY <2>1, Zenon DEF PartsAre
<1>2. /\ \A i \in 1..n + 1 : put[i] = at[i] /\ read[i] = at[i]
      /\ \A i \in 1..n + k + 1 : at[i] \in Nat
      /\ \A i, j \in 1..n + k + 1 : i < j => at[i] < at[j]
      /\ \A i \in 1..n : at[i + 1] = at[i] + Width[names[i]]
      /\ Size(parts) = at[n + 1] + k * c
  <2>1. PartsAre(parts, c, names, T, fields, tail)
    <3>1. Writing(l, names)
      BY DEF Plain, Layout, Writing
    <3> QED
      BY <3>1, PartsOfPayload
  <2>2. FieldsAre(l, parts, names, k)
    <3> HIDE DEF l, parts
    <3> QED
      BY <2>1, FieldsBegin DEF c, k, l
  <2>3. /\ BeginAt(at, put, read, [i \in 1..n |-> Width[names[i]]], n, k)
        /\ Size(parts) = at[n + 1] + k * c
    BY <2>2, Zenon DEF FieldsAre
  <2> HIDE DEF at, put, read, n, k, c, parts
  <2> QED
    BY <2>3 DEF BeginAt
<1>3. payload.signature = class
  BY DEF ToPacketPayload
<1>4. /\ names \in Seq(FieldNames) /\ l.writes = Writes(names) /\ l.reads = Reads(names)
      /\ \A i, j \in DOMAIN names : names[i] = names[j] => i = j
      /\ l.least \in Nat /\ (l.exact => l.tail = "none") /\ (l.tail = "none" => l.least = 0)
  BY DEF Plain, Layout
<1>5. /\ DOMAIN fields = {l.writes[i][1] : i \in DOMAIN l.writes}
      /\ fields = [f \in DOMAIN fields |-> fields[f]]
      /\ (l.tail = "none" => tail = <<>>) /\ k * c >= l.least
  BY DEF HasAll
<1>6. /\ DOMAIN l.writes = 1..n /\ DOMAIN l.reads = 1..n /\ Len(l.writes) = n
      /\ \A i \in 1..n : l.writes[i] = <<names[i], Width[names[i]]>>
      /\ \A i \in 1..n : l.reads[i] = <<names[i], Width[names[i]], Width[names[i]]>>
  <2>1. DOMAIN names = 1..n
    BY <1>4, LenProperties
  <2>2. /\ DOMAIN l.writes = 1..n /\ DOMAIN l.reads = 1..n
        /\ \A i \in 1..n : l.writes[i] = <<names[i], Width[names[i]]>>
        /\ \A i \in 1..n : l.reads[i] = <<names[i], Width[names[i]], Width[names[i]]>>
    BY <1>4 DEF Writes, Reads
  <2>3. Len(l.writes) = n
    <3> DEFINE R == {l.writes[i] : i \in 1..n}
    <3>1. l.writes \in [1..n -> R]
      <4>1. l.writes = [i \in DOMAIN l.writes |-> l.writes[i]]
        BY <1>4 DEF Writes
      <4> HIDE DEF l, n
      <4> QED
        BY <4>1, <2>2
    <3> HIDE DEF R
    <3> QED
      BY <3>1, <1>1, LenOfFunction, Zenon
  <2> QED
    BY <2>2, <2>3
<1>7. c \in Nat \ {0}
  BY DEF TailWidth, IdWidth
<1>8. \A i \in 1..n : Width[names[i]] \in Nat /\ Width[names[i]] # 0
  BY <1>4, LenProperties, ElementOfSeq, WidthsArePositive
<1>9. l.tail = "ids" => c = IdWidth
  BY DEF TailWidth
<1> HIDE DEF l, parts, n, k, c, at, put, read
<1>10. at[n + 1] \in Nat /\ put[n + 1] = at[n + 1] /\ k * c \in Nat
  <2>1. n + 1 \in 1..n + 1 /\ n + 1 \in 1..n + k + 1
    BY <1>1
  <2>2. k * c \in Nat
    BY <1>1, <1>7
  <2> QED
    BY <2>1, <2>2, <1>2
<1>11. ~Refused(payload)
  <2>1. VerifyPayload(l, parts)
    <3> DEFINE fixed == put[n + 1]
    <3>1. Size(parts) = fixed + k * c
      BY <1>2, <1>10
    <3>2. Size(parts) >= fixed + l.least
      BY <3>1, <1>4, <1>5, <1>10
    <3>3. ASSUME l.exact PROVE Size(parts) = fixed
      <4>1. tail = <<>>
        BY <1>4, <1>5, <3>3
      <4>2. k = 0
        BY <4>1 DEF k
      <4>3. 0 * c = 0
        BY <1>7
      <4> QED
        BY <4>2, <4>3, <3>1, <1>10
    <3>4. ASSUME l.tail = "ids" PROVE (Size(parts) - fixed) % IdWidth = 0
      <4>1. c = 8 /\ IdWidth = 8
        BY <1>9, <3>4 DEF IdWidth
      <4>2. Size(parts) - fixed = k * 8
        BY <4>1, <3>1, <1>10, <1>1
      <4>3. (k * 8) % 8 = 0
        BY <1>1
      <4> QED
        BY <4>1, <4>2, <4>3
    <3>5. fixed = Starts([i \in DOMAIN l.writes |-> l.writes[i][2]])[Len(l.writes) + 1]
      BY <1>6 DEF put
    <3> HIDE DEF fixed
    <3> QED
      BY <3>2, <3>3, <3>4, <3>5, Zenon DEF VerifyPayload
  <2>2. ~PastTheEnd(l, parts)
    <3>1. ASSUME NEW i \in 1..n PROVE ~(read[i] + Width[names[i]] > Size(parts))
      <4>1. i \in 1..n + 1 /\ i + 1 \in 1..n + k + 1 /\ n + 1 \in 1..n + k + 1 /\ i \in 1..n + k + 1
        BY <1>1
      <4>2. read[i] + Width[names[i]] = at[i + 1] /\ at[i + 1] \in Nat
        BY <4>1, <1>2
      <4>3. i + 1 = n + 1 \/ i + 1 < n + 1
        BY <1>1
      <4>4. at[i + 1] <= at[n + 1]
        <5>1. CASE i + 1 = n + 1
          BY <5>1, <1>10
        <5>2. CASE i + 1 < n + 1
          <6>1. at[i + 1] < at[n + 1]
            BY <5>2, <4>1, <1>2
          <6> QED
            BY <6>1, <4>2, <1>10
        <5> QED
          BY <5>1, <5>2, <4>3
      <4> QED
        BY <4>2, <4>4, <1>2, <1>10
    <3>2. \A i \in DOMAIN l.reads : ~(read[i] + l.reads[i][2] > Size(parts))
      BY <3>1, <1>6
    <3> QED
      BY <3>2, Zenon DEF PastTheEnd, read
  <2> QED
    BY <2>1, <2>2, <1>3 DEF Refused, l, parts
<1>12. ASSUME NEW i \in 1..n
       PROVE  Mid(parts, read[i], l.reads[i][2]) = fields[names[i]]
  <2>1. i \in DOMAIN parts
    BY <1>1, LenProperties
  <2>2. Mid(parts, at[i], parts[i][1]) = parts[i][2]
    BY <2>1, <1>1, MidOfPart DEF at
  <2>3. parts[i] = <<Width[names[i]], fields[names[i]]>> /\ l.reads[i][2] = Width[names[i]]
    BY <1>1, <1>6
  <2>4. read[i] = at[i]
    BY <1>1, <1>2
  <2> QED
    BY <2>2, <2>3, <2>4
<1> DEFINE Place(f) == CHOOSE j \in DOMAIN l.reads : l.reads[j][1] = f
           Field(f) == Mid(parts, read[Place(f)], l.reads[Place(f)][2])
           known == {l.reads[i][1] : i \in DOMAIN l.reads}
<1>13. known = DOMAIN fields
  BY <1>5, <1>6
<1>14. ASSUME NEW f \in known PROVE Field(f) = fields[f]
  <2>1. PICK j \in 1..n : f = names[j]
    BY <1>6, <1>14
  <2>2. \A i \in 1..n : l.reads[i][1] = names[i]
    BY <1>6
  <2>3. \A i \in 1..n : names[i] = names[j] => i = j
    BY <1>4, LenProperties DEF n
  <2>4. Place(f) = j
    <3>1. \A i \in DOMAIN l.reads : l.reads[i][1] = f <=> i = j
      BY <1>6, <2>1, <2>2, <2>3
    <3> QED
      BY <3>1, <2>1, <1>6
  <2> HIDE DEF Place
  <2> QED
    BY <2>1, <2>4, <1>12
<1>15. [f \in known |-> Field(f)] = fields
  <2> HIDE DEF Field, known
  <2>1. [f \in known |-> Field(f)] = [f \in known |-> fields[f]]
    BY <1>14
  <2> QED
    BY <2>1, <1>5, <1>13
<1>16. [i \in 1 .. Len(parts) - Len(l.writes) |-> parts[Len(l.writes) + i][2]] = tail
  <2>1. Len(parts) - Len(l.writes) = k
    BY <1>1, <1>6
  <2>2. \A i \in 1..k : parts[n + i][2] = tail[i]
    BY <1>1
  <2>3. tail = [i \in 1..k |-> tail[i]]
    <3>1. tail \in [1..k -> T]
      BY LenProperties DEF k
    <3> QED
      BY <3>1
  <2> QED
    BY <2>1, <2>2, <2>3, <1>6
<1>17. FromPacketPayload(payload) = [class |-> class, fields |-> fields, tail |-> tail]
  <2>1. FromPacketPayload(payload)
          = [class  |-> class,
             fields |-> [f \in known |-> Field(f)],
             tail   |-> [i \in 1 .. Len(parts) - Len(l.writes) |-> parts[Len(l.writes) + i][2]]]
    <3>1. FromPacketPayload(payload) = ReadBy(l, payload)
      BY <1>3, ReadingIsByLayout DEF l
    <3>2. ReadBy(l, payload)
            = [class  |-> payload.signature,
               fields |-> [f \in known |-> Field(f)],
               tail   |-> [i \in 1 .. Len(parts) - Len(l.writes) |-> parts[Len(l.writes) + i][2]]]
      BY Zenon DEF ReadBy, parts, read
    <3> HIDE DEF Field, known, payload
    <3> QED
      BY <3>1, <3>2, <1>3
  <2> HIDE DEF Field, known
  <2> QED
    BY <2>1, <1>15, <1>16
<1> QED
  BY <1>11, <1>17

LEMMA LayoutIsPlain ==
    ASSUME NEW names \in Seq(FieldNames), \A i, j \in DOMAIN names : names[i] = names[j] => i = j,
           NEW tail \in {"none", "text", "ids", "json"}, NEW least \in Nat, NEW exact \in BOOLEAN, NEW owner,
           exact => tail = "none", tail = "none" => least = 0
    PROVE  Plain(Layout(names, tail, least, exact, owner), names)
<1> DEFINE l == Layout(names, tail, least, exact, owner)
<1>1. l.tail = tail /\ l.least = least /\ l.owner = owner
  BY DEF Layout
<1>2. l.exact = exact
  BY DEF Layout
<1>3. l = Layout(names, l.tail, l.least, l.exact, l.owner)
  BY <1>1, <1>2, Zenon
<1>4. l.exact => l.tail = "none"
  BY <1>1, <1>2, Zenon
<1> HIDE DEF l
<1> QED
  BY <1>1, <1>3, <1>4 DEF Plain, l

(* All classes have such a layout but one.                                 *)
LEMMA LayoutsArePlain ==
    ASSUME NEW class \in DOMAIN LayoutOf, class # "GroupSetPhoto"
    PROVE  \E names : Plain(LayoutOf[class], names)
<1> USE DEF Fixed, IdWidth
<1>1. CASE class = "ContactText"
  <2> DEFINE names == <<>>
  <2>1. LayoutOf[class] = Layout(names, "text", 1, FALSE, "none")
    BY <1>1 DEF LayoutOf, ContactText
  <2>2. names \in Seq(FieldNames) /\ \A i, j \in DOMAIN names : names[i] = names[j] => i = j
    BY DEF FieldNames, Width
  <2> HIDE DEF names
  <2>3. Plain(Layout(names, "text", 1, FALSE, "none"), names)
    BY <2>2, LayoutIsPlain
  <2> QED
    BY <2>1, <2>3
<1>2. CASE class = "ContactLocation"
  <2> DEFINE names == <<>>
  <2>1. LayoutOf[class] = Layout(names, "text", 1, FALSE, "none")
    BY <1>2 DEF LayoutOf, ContactLocation
  <2>2. names \in Seq(FieldNames) /\ \A i, j \in DOMAIN names : names[i] = names[j] => i = j
    BY DEF FieldNames, Width
  <2> HIDE DEF names
  <2>3. Plain(Layout(names, "text", 1, FALSE, "none"), names)
    BY <2>2, LayoutIsPlain
  <2> QED
    BY <2>1, <2>3
<1>3. CASE class = "Receipt"
  <2> DEFINE names == <<"type">>
  <2>1. LayoutOf[class] = Layout(names, "ids", IdWidth, FALSE, "none")
    BY <1>3 DEF LayoutOf, Receipt
  <2>2. names \in Seq(FieldNames) /\ \A i, j \in DOMAIN names : names[i] = names[j] => i = j
    BY DEF FieldNames, Width
  <2> HIDE DEF names
  <2>3. Plain(Layout(names, "ids", IdWidth, FALSE, "none"), names)
    BY <2>2, LayoutIsPlain
  <2> QED
    BY <2>1, <2>3
<1>4. CASE class = "UserTyping"
  <2> DEFINE names == <<"type">>
  <2>1. LayoutOf[class] = Layout(names, "none", 0, TRUE, "none")
    BY <1>4 DEF LayoutOf, UserTyping
  <2>2. names \in Seq(FieldNames) /\ \A i, j \in DOMAIN names : names[i] = names[j] => i = j
    BY DEF FieldNames, Width
  <2> HIDE DEF names
  <2>3. Plain(Layout(names, "none", 0, TRUE, "none"), names)
    BY <2>2, LayoutIsPlain
  <2> QED
    BY <2>1, <2>3
<1>5. CASE class = "ContactImage"
  <2> DEFINE names == <<"blob", "size", "nonce">>
  <2>1. LayoutOf[class] = Layout(names, "none", 0, TRUE, "none")
    BY <1>5 DEF LayoutOf, ContactImage
  <2>2. names \in Seq(FieldNames) /\ \A i, j \in DOMAIN names : names[i] = names[j] => i = j
    BY DEF FieldNames, Width
  <2> HIDE DEF names
  <2>3. Plain(Layout(names, "none", 0, TRUE, "none"), names)
    BY <2>2, LayoutIsPlain
  <2> QED
    BY <2>1, <2>3
<1>6. CASE class = "ContactAudio"
  <2> DEFINE names == <<"seconds", "blob", "size", "key">>
  <2>1. LayoutOf[class] = Layout(names, "none", 0, TRUE, "none")
    BY <1>6 DEF LayoutOf, ContactAudio
  <2>2. names \in Seq(FieldNames) /\ \A i, j \in DOMAIN names : names[i] = names[j] => i = j
    BY DEF FieldNames, Width
  <2> HIDE DEF names
  <2>3. Plain(Layout(names, "none", 0, TRUE, "none"), names)
    BY <2>2, LayoutIsPlain
  <2> QED
    BY <2>1, <2>3
<1>7. CASE class = "ContactVideo"
  <2> DEFINE names == <<"seconds", "blob", "size", "cover", "coverSize", "key">>
  <2>1. LayoutOf[class] = Layout(names, "none", 0, TRUE, "none")
    BY <1>7 DEF LayoutOf, ContactVideo
  <2>2. names \in Seq(FieldNames) /\ \A i, j \in DOMAIN names : names[i] = names[j] => i = j
    BY DEF FieldNames, Width
  <2> HIDE DEF names
  <2>3. Plain(Layout(names, "none", 0, TRUE, "none"), names)
    BY <2>2, LayoutIsPlain
  <2> QED
    BY <2>1, <2>3
<1>8. CASE class = "ContactFile"
  <2> DEFINE names == <<>>
  <2>1. LayoutOf[class] = Layout(names, "json", 1, FALSE, "none")
    BY <1>8 DEF LayoutOf, ContactFile
  <2>2. names \in Seq(FieldNames) /\ \A i, j \in DOMAIN names : names[i] = names[j] => i = j
    BY DEF FieldNames, Width
  <2> HIDE DEF names
  <2>3. Plain(Layout(names, "json", 1, FALSE, "none"), names)
    BY <2>2, LayoutIsPlain
  <2> QED
    BY <2>1, <2>3
<1>9. CASE class = "GroupText"
  <2> DEFINE names == <<"owner", "group">>
  <2>1. LayoutOf[class] = Layout(names, "text", 1, FALSE, "payload")
    BY <1>9 DEF LayoutOf, GroupText
  <2>2. names \in Seq(FieldNames) /\ \A i, j \in DOMAIN names : names[i] = names[j] => i = j
    BY DEF FieldNames, Width
  <2> HIDE DEF names
  <2>3. Plain(Layout(names, "text", 1, FALSE, "payload"), names)
    BY <2>2, LayoutIsPlain
  <2> QED
    BY <2>1, <2>3
<1>10. CASE class = "GroupLocation"
  <2> DEFINE names == <<"owner", "group">>
  <2>1. LayoutOf[class] = Layout(names, "text", 1, FALSE, "payload")
    BY <1>10 DEF LayoutOf, GroupLocation
  <2>2. names \in Seq(FieldNames) /\ \A i, j \in DOMAIN names : names[i] = names[j] => i = j
    BY DEF FieldNames, Width
  <2> HIDE DEF names
  <2>3. Plain(Layout(names, "text", 1, FALSE, "payload"), names)
    BY <2>2, LayoutIsPlain
  <2> QED
    BY <2>1, <2>3
<1>11. CASE class = "GroupImage"
  <2> DEFINE names == <<"owner", "group", "blob", "size", "key">>
  <2>1. LayoutOf[class] = Layout(names, "none", 0, TRUE, "payload")
    BY <1>11 DEF LayoutOf, GroupImage
  <2>2. names \in Seq(FieldNames) /\ \A i, j \in DOMAIN names : names[i] = names[j] => i = j
    BY DEF FieldNames, Width
  <2> HIDE DEF names
  <2>3. Plain(Layout(names, "none", 0, TRUE, "payload"), names)
    BY <2>2, LayoutIsPlain
  <2> QED
    BY <2>1, <2>3
<1>12. CASE class = "GroupAudio"
  <2> DEFINE names == <<"owner", "group", "seconds", "blob", "size", "key">>
  <2>1. LayoutOf[class] = Layout(names, "none", 0, TRUE, "payload")
    BY <1>12 DEF LayoutOf, GroupAudio
  <2>2. names \in Seq(FieldNames) /\ \A i, j \in DOMAIN names : names[i] = names[j] => i = j
    BY DEF FieldNames, Width
  <2> HIDE DEF names
  <2>3. Plain(Layout(names, "none", 0, TRUE, "payload"), names)
    BY <2>2, LayoutIsPlain
  <2> QED
    BY <2>1, <2>3
<1>13. CASE class = "GroupVideo"
  <2> DEFINE names == <<"owner", "group", "seconds", "blob", "size", "cover", "coverSize", "key">>
  <2>1. LayoutOf[class] = Layout(names, "none", 0, TRUE, "payload")
    BY <1>13 DEF LayoutOf, GroupVideo
  <2>2. names \in Seq(FieldNames) /\ \A i, j \in DOMAIN names : names[i] = names[j] => i = j
    BY DEF FieldNames, Width
  <2> HIDE DEF names
  <2>3. Plain(Layout(names, "none", 0, TRUE, "payload"), names)
    BY <2>2, LayoutIsPlain
  <2> QED
    BY <2>1, <2>3
<1>14. CASE class = "GroupFile"
  <2> DEFINE names == <<"owner", "group">>
  <2>1. LayoutOf[class] = Layout(names, "json", 1, FALSE, "payload")
    BY <1>14 DEF LayoutOf, GroupFile
  <2>2. names \in Seq(FieldNames) /\ \A i, j \in DOMAIN names : names[i] = names[j] => i = j
    BY DEF FieldNames, Width
  <2> HIDE DEF names
  <2>3. Plain(Layout(names, "json", 1, FALSE, "payload"), names)
    BY <2>2, LayoutIsPlain
  <2> QED
    BY <2>1, <2>3
<1>15. CASE class = "GroupLeave"
  <2> DEFINE names == <<"owner", "group">>
  <2>1. LayoutOf[class] = Layout(names, "none", 0, FALSE, "payload")
    BY <1>15 DEF LayoutOf, GroupLeave
  <2>2. names \in Seq(FieldNames) /\ \A i, j \in DOMAIN names : names[i] = names[j] => i = j
    BY DEF FieldNames, Width
  <2> HIDE DEF names
  <2>3. Plain(Layout(names, "none", 0, FALSE, "payload"), names)
    BY <2>2, LayoutIsPlain
  <2> QED
    BY <2>1, <2>3
<1>16. CASE class = "GroupCreation"
  <2> DEFINE names == <<"group">>
  <2>1. LayoutOf[class] = Layout(names, "ids", 0, FALSE, "sender")
    BY <1>16 DEF LayoutOf, GroupCreation
  <2>2. names \in Seq(FieldNames) /\ \A i, j \in DOMAIN names : names[i] = names[j] => i = j
    BY DEF FieldNames, Width
  <2> HIDE DEF names
  <2>3. Plain(Layout(names, "ids", 0, FALSE, "sender"), names)
    BY <2>2, LayoutIsPlain
  <2> QED
    BY <2>1, <2>3
<1>17. CASE class = "GroupSetTitle"
  <2> DEFINE names == <<"group">>
  <2>1. LayoutOf[class] = Layout(names, "text", 0, FALSE, "sender")
    BY <1>17 DEF LayoutOf, GroupSetTitle
  <2>2. names \in Seq(FieldNames) /\ \A i, j \in DOMAIN names : names[i] = names[j] => i = j
    BY DEF FieldNames, Width
  <2> HIDE DEF names
  <2>3. Plain(Layout(names, "text", 0, FALSE, "sender"), names)
    BY <2>2, LayoutIsPlain
  <2> QED
    BY <2>1, <2>3
<1>18. CASE class = "GroupSync"
  <2> DEFINE names == <<"group">>
  <2>1. LayoutOf[class] = Layout(names, "none", 0, TRUE, "receiver")
    BY <1>18 DEF LayoutOf, GroupSync
  <2>2. names \in Seq(FieldNames) /\ \A i, j \in DOMAIN names : names[i] = names[j] => i = j
    BY DEF FieldNames, Width
  <2> HIDE DEF names
  <2>3. Plain(Layout(names, "none", 0, TRUE, "receiver"), names)
    BY <2>2, LayoutIsPlain
  <2> QED
    BY <2>1, <2>3
<1> QED
  BY <1>1, <1>2, <1>3, <1>4, <1>5, <1>6, <1>7, <1>8, <1>9, <1>10, <1>11, <1>12, <1>13, <1>14, <1>15, <1>16, <1>17, <1>18 DEF LayoutOf

(* A group's photo is not accepted: its reader moves on too far after the  *)
(* group and looks for the key behind the end of the payload.              *)
LEMMA PhotosAreRefused ==
    ASSUME NEW T, NEW tail \in Seq(T), NEW fields, HasAll(LayoutOf["GroupSetPhoto"], fields, tail)
    PROVE  Refused(ToPacketPayload("GroupSetPhoto", fields, tail))
<1> DEFINE class == "GroupSetPhoto"
           l == LayoutOf[class]
           names == <<"group", "blob", "size", "key">>
           payload == ToPacketPayload(class, fields, tail)
           parts == payload.parts
           w == PartWidths(parts)
           r == [i \in DOMAIN l.reads |-> l.reads[i][3]]
           S == T \cup {fields[f] : f \in DOMAIN fields}
<1>1. l = GroupSetPhoto
  BY DEF LayoutOf
<1>2. /\ l.writes = Writes(names) /\ l.tail = "none"
      /\ l.reads = [Reads(names) EXCEPT ![1] = <<"group", Width.group, Width.owner + Width.group>>]
  BY <1>1 DEF GroupSetPhoto, Fixed, Layout
<1>3. names \in Seq(FieldNames) /\ Len(names) = 4
  BY DEF FieldNames, Width
<1>4. /\ names[1] = "group" /\ names[2] = "blob" /\ names[3] = "size" /\ names[4] = "key"
      /\ Width["group"] = 8 /\ Width["blob"] = 16 /\ Width["size"] = 4 /\ Width["key"] = 32
      /\ Width.owner + Width.group = 16
  BY DEF Width
<1> HIDE DEF l, names
<1>5. tail = <<>> /\ Len(tail) = 0
  BY <1>2 DEF HasAll, l
<1>6. PartsAre(parts, TailWidth(l), names, T, fields, tail)
  BY <1>2, <1>3, PartsOfPayload DEF Writing, l
<1>7. /\ parts \in Seq((Nat \ {0}) \X S) /\ Len(parts) = 4
      /\ \A i \in 1..4 : parts[i] = <<Width[names[i]], fields[names[i]]>>
  BY <1>3, <1>5, <1>6 DEF PartsAre
<1>8. payload.signature = class
  BY DEF ToPacketPayload
<1> HIDE DEF parts, payload
<1>9. w \in Seq(Nat) /\ Len(w) = 4 /\ w[1] = 8 /\ w[2] = 16 /\ w[3] = 4 /\ w[4] = 32
  <2>1. DOMAIN parts = 1..4
    BY <1>7, LenProperties
  <2>2. w = [i \in 1..4 |-> parts[i][1]]
    BY <2>1 DEF PartWidths
  <2>3. \A i \in 1..4 : w[i] = Width[names[i]]
    BY <2>2, <1>7
  <2>4. w[1] = 8 /\ w[2] = 16 /\ w[3] = 4 /\ w[4] = 32
    BY <2>3, <1>4
  <2> HIDE DEF w
  <2>5. \A i \in 1..4 : w[i] \in Nat
    <3>1. \A i \in 1..4 : i = 1 \/ i = 2 \/ i = 3 \/ i = 4
      OBVIOUS
    <3> QED
      BY <3>1, <2>4
  <2>6. w \in [1..4 -> Nat] /\ 4 \in Nat
    BY <2>2, <2>5
  <2>7. w \in Seq(Nat) /\ Len(w) = 4
    BY <2>6, LenOfFunction, Zenon
  <2> QED
    BY <2>4, <2>7
<1>10. /\ DOMAIN l.reads = 1..4 /\ l.reads[1][3] = 16 /\ l.reads[2][3] = 16 /\ l.reads[3][3] = 4
       /\ l.reads[4][3] = 32 /\ l.reads[4][2] = 32
  <2>1. /\ Reads(names) = [i \in 1..4 |-> <<names[i], Width[names[i]], Width[names[i]]>>]
    BY <1>3 DEF Reads
  <2>2. /\ DOMAIN l.reads = 1..4 /\ l.reads[1] = <<"group", Width.group, Width.owner + Width.group>>
        /\ l.reads[2] = <<names[2], Width[names[2]], Width[names[2]]>>
        /\ l.reads[3] = <<names[3], Width[names[3]], Width[names[3]]>>
        /\ l.reads[4] = <<names[4], Width[names[4]], Width[names[4]]>>
    BY <1>2, <2>1
  <2> QED
    BY <2>2, <1>4
<1>11. r \in Seq(Nat) /\ Len(r) = 4 /\ r[1] = 16 /\ r[2] = 16 /\ r[3] = 4 /\ r[4] = 32
  <2>1. r = [i \in 1..4 |-> l.reads[i][3]]
    BY <1>10
  <2>2. r[1] = 16 /\ r[2] = 16 /\ r[3] = 4 /\ r[4] = 32
    BY <1>10
  <2> HIDE DEF r
  <2>3. \A i \in 1..4 : r[i] \in Nat
    <3>1. \A i \in 1..4 : i = 1 \/ i = 2 \/ i = 3 \/ i = 4
      OBVIOUS
    <3> QED
      BY <3>1, <2>2
  <2>4. r \in [1..4 -> Nat] /\ 4 \in Nat
    BY <2>1, <2>3
  <2>5. r \in Seq(Nat) /\ Len(r) = 4
    BY <2>4, LenOfFunction, Zenon
  <2> QED
    BY <2>2, <2>5
<1> HIDE DEF w, r
<1>12. ASSUME NEW v \in Seq(Nat), Len(v) = 4
       PROVE  /\ Starts(v)[4] = v[1] + v[2] + v[3]
              /\ Starts(v)[5] = v[1] + v[2] + v[3] + v[4]
  <2>1. PICK f : f = Starts(v) /\ PartialSums(f, v)
    BY <1>12, StartsAreSums
  <2>2. f[1] = 0 /\ \A i \in 1..4 : f[i + 1] = f[i] + v[i]
    BY <1>12, <2>1, SumsStep
  <2>3. v[1] \in Nat /\ v[2] \in Nat /\ v[3] \in Nat /\ v[4] \in Nat
    <3>1. v \in [1..4 -> Nat]
      BY <1>12, LenProperties
    <3> QED
      BY <3>1
  <2>4. f[2] = v[1] /\ f[3] = f[2] + v[2] /\ f[4] = f[3] + v[3] /\ f[5] = f[4] + v[4]
    <3>1. f[1 + 1] = f[1] + v[1] /\ f[2 + 1] = f[2] + v[2] /\ f[3 + 1] = f[3] + v[3]
          /\ f[4 + 1] = f[4] + v[4]
      BY <2>2
    <3> QED
      BY <2>2, <2>3, <3>1
  <2> QED
    BY <2>1, <2>3, <2>4
<1>13. Size(parts) = 60
  <2>1. Size(parts) = Starts(w)[5]
    BY <1>7 DEF Size, w, PartWidths
  <2>2. w[1] + w[2] + w[3] + w[4] = 60
    BY <1>9
  <2>3. Starts(w)[5] = w[1] + w[2] + w[3] + w[4]
    BY <1>9, <1>12
  <2> QED
    BY <2>1, <2>2, <2>3
<1>14. Starts(r)[4] = 36
  <2>1. Starts(r)[4] = r[1] + r[2] + r[3]
    BY <1>11, <1>12
  <2> QED
    BY <2>1, <1>11
<1>15. PastTheEnd(l, parts)
  <2>1. 4 \in DOMAIN l.reads /\ Starts(r)[4] + l.reads[4][2] > Size(parts)
    BY <1>10, <1>13, <1>14
  <2>2. \E i \in DOMAIN l.reads : Starts(r)[i] + l.reads[i][2] > Size(parts)
    BY <2>1
  <2> QED
    BY <2>2, Zenon DEF PastTheEnd, r
<1> QED
  BY <1>8, <1>15 DEF Refused, l, parts, payload

-----------------------------------------------------------------------------
(* What a client may have written always opens, and its flags are known.   *)

(* The widths of the parts of a packet before the box.                     *)
HeaderWidths == <<4, 8, 8, 8, 4, 1, 3, 32, 24>>

LEMMA HeaderStarts ==
    LET at == Starts(HeaderWidths)
    IN  /\ at[1] = 0 /\ at[2] = 4 /\ at[3] = 12 /\ at[4] = 20 /\ at[5] = 28
        /\ at[6] = 32 /\ at[7] = 33 /\ at[8] = 36 /\ at[9] = 68 /\ at[10] = 92
<1> DEFINE w == HeaderWidths
           at == Starts(w)
<1>1. /\ w[1] = 4 /\ w[2] = 8 /\ w[3] = 8 /\ w[4] = 8 /\ w[5] = 4
      /\ w[6] = 1 /\ w[7] = 3 /\ w[8] = 32 /\ w[9] = 24
  BY DEF HeaderWidths
<1>2. w \in Seq(Nat) /\ Len(w) = 9
  BY DEF HeaderWidths
<1> HIDE DEF w
<1>3. PartialSums(at, w)
  BY <1>2, StartsAreSums
<1> HIDE DEF at
<1>4. at[1] = 0 /\ \A i \in 1..9 : at[i + 1] = at[i] + w[i]
  <2>1. at[1] = 0 /\ \A i \in 1..Len(w) : at[i + 1] = at[i] + w[i]
    BY <1>2, <1>3, SumsStep
  <2> QED
    BY <1>2, <2>1
<1>5. /\ at[2] = at[1] + w[1] /\ at[3] = at[2] + w[2] /\ at[4] = at[3] + w[3]
      /\ at[5] = at[4] + w[4] /\ at[6] = at[5] + w[5]
  <2>1. /\ at[1 + 1] = at[1] + w[1] /\ at[2 + 1] = at[2] + w[2] /\ at[3 + 1] = at[3] + w[3]
        /\ at[4 + 1] = at[4] + w[4] /\ at[5 + 1] = at[5] + w[5]
    BY <1>4
  <2> QED
    BY <2>1
<1>6. /\ at[7] = at[6] + w[6] /\ at[8] = at[7] + w[7] /\ at[9] = at[8] + w[8]
      /\ at[10] = at[9] + w[9]
  <2>1. /\ at[6 + 1] = at[6] + w[6] /\ at[7 + 1] = at[7] + w[7] /\ at[8 + 1] = at[8] + w[8]
        /\ at[9 + 1] = at[9] + w[9]
    BY <1>4
  <2> QED
    BY <2>1
<1>7. at[2] = 4 /\ at[3] = 12 /\ at[4] = 20 /\ at[5] = 28 /\ at[6] = 32
  BY <1>1, <1>4, <1>5
<1>8. at[7] = 33 /\ at[8] = 36 /\ at[9] = 68 /\ at[10] = 92
  BY <1>1, <1>6, <1>7
<1> QED
  BY <1>4, <1>7, <1>8 DEF at, w

(* The parts of a packet before the box.                                   *)
HeaderParts(message, flags, nonce) ==
    << <<4, 1>>, <<8, message.from>>, <<8, message.to>>, <<8, message.id>>, <<4, message.time>>,
       <<1, GetFlags(flags)>>, <<3, 0>>, <<32, message.pushFrom>>, <<24, nonce>> >>

LEMMA PartsOfPacket ==
    ASSUME NEW message, NEW held, NEW drawn
    PROVE  ToPacket(message, held, drawn).parts
             = HeaderParts(message, CopyOf(FlagsOf(message.class), held), 700)
<1> DEFINE flags == CopyOf(FlagsOf(message.class), held)
           a == << <<4, 1>> >>
           b == Header(message, flags)
           c == << <<24, 700>> >>
           d == HeaderParts(message, flags, 700)
           S == {d[i] : i \in 1..9}
<1>1. ToPacket(message, held, drawn).parts = (a \o b) \o c
  BY DEF ToPacket
<1> HIDE DEF flags
<1>2. /\ d[1] = <<4, 1>> /\ d[9] = <<24, 700>>
      /\ Len(b) = 7 /\ DOMAIN b = 1..7
      /\ b[1] = d[2] /\ b[2] = d[3] /\ b[3] = d[4] /\ b[4] = d[5] /\ b[5] = d[6]
      /\ b[6] = d[7] /\ b[7] = d[8]
  BY DEF HeaderParts, Header
<1>3. b \in [1..7 -> S]
  <2>1. b = [i \in 1..7 |-> b[i]]
    BY DEF Header
  <2>2. \A i \in 1..7 : b[i] \in S
    <3> HIDE DEF b, d
    <3>1. \A i \in 1..9 : d[i] \in S
      OBVIOUS
    <3> HIDE DEF S
    <3> QED
      BY <3>1, <1>2
  <2> HIDE DEF b, S
  <2> QED
    BY <2>1, <2>2
<1>4. d = [i \in 1..9 |-> d[i]]
  BY DEF HeaderParts
<1> HIDE DEF b, d
<1>5. a \in [1..1 -> S] /\ c \in [1..1 -> S] /\ a[1] = d[1] /\ c[1] = d[9]
  <2>1. d[1] \in S /\ d[9] \in S
    OBVIOUS
  <2>2. a = [i \in 1..1 |-> d[1]] /\ c = [i \in 1..1 |-> d[9]]
    BY <1>2
  <2> HIDE DEF S, a, c
  <2> QED
    BY <2>1, <2>2
<1> HIDE DEF a, c, S
<1> DEFINE ab == a \o b
           e == ab \o c
<1>13. /\ a \in Seq(S) /\ Len(a) = 1 /\ b \in Seq(S) /\ Len(b) = 7
       /\ c \in Seq(S) /\ Len(c) = 1
  <2>1. 1 \in Nat /\ 7 \in Nat
    OBVIOUS
  <2>2. a \in Seq(S) /\ Len(a) = 1
    BY <2>1, <1>5, LenOfFunction, ZenonT(30)
  <2>3. b \in Seq(S) /\ Len(b) = 7
    BY <2>1, <1>3, LenOfFunction, ZenonT(30)
  <2>4. c \in Seq(S) /\ Len(c) = 1
    BY <2>1, <1>5, LenOfFunction, ZenonT(30)
  <2> QED
    BY <2>2, <2>3, <2>4
<1>6. /\ ab \in Seq(S) /\ Len(ab) = 8 /\ ab[1] = a[1]
      /\ \A i \in 1..7 : ab[1 + i] = b[i]
  <2>1. /\ ab \in Seq(S) /\ Len(ab) = Len(a) + Len(b)
        /\ \A i \in 1..Len(a) + Len(b) : ab[i] = IF i <= Len(a) THEN a[i] ELSE b[i - Len(a)]
    BY <1>13, ConcatProperties
  <2> HIDE DEF ab
  <2>2. \A i \in 1..8 : ab[i] = IF i <= 1 THEN a[i] ELSE b[i - 1]
    BY <2>1, <1>13
  <2> QED
    BY <2>1, <2>2, <1>13
<1> HIDE DEF ab
<1>7. /\ e \in [1..9 -> S] /\ e[9] = c[1]
      /\ \A i \in 1..8 : e[i] = ab[i]
  <2>1. /\ e \in Seq(S) /\ Len(e) = Len(ab) + Len(c)
        /\ \A i \in 1..Len(ab) + Len(c) : e[i] = IF i <= Len(ab) THEN ab[i] ELSE c[i - Len(ab)]
    BY <1>6, <1>13, ConcatProperties
  <2> HIDE DEF e
  <2>2. \A i \in 1..9 : e[i] = IF i <= 8 THEN ab[i] ELSE c[i - 8]
    BY <2>1, <1>6, <1>13
  <2>3. e \in [1..Len(e) -> S]
    BY <2>1, LenProperties
  <2>4. Len(e) = 9
    BY <2>1, <1>6, <1>13
  <2> QED
    BY <2>2, <2>3, <2>4
<1> HIDE DEF e
<1>8. /\ ab[2] = b[1] /\ ab[3] = b[2] /\ ab[4] = b[3] /\ ab[5] = b[4] /\ ab[6] = b[5]
      /\ ab[7] = b[6] /\ ab[8] = b[7]
  <2>1. ab[1 + 1] = b[1] /\ ab[1 + 2] = b[2] /\ ab[1 + 3] = b[3] /\ ab[1 + 4] = b[4]
    BY <1>6
  <2>2. ab[1 + 5] = b[5] /\ ab[1 + 6] = b[6] /\ ab[1 + 7] = b[7]
    BY <1>6
  <2> QED
    BY <2>1, <2>2
<1>9. \A i \in 1..9 : i = 1 \/ i = 2 \/ i = 3 \/ i = 4 \/ i = 5 \/ i = 6 \/ i = 7 \/ i = 8 \/ i = 9
  OBVIOUS
<1>10. /\ e[1] = d[1] /\ e[2] = d[2] /\ e[3] = d[3] /\ e[4] = d[4] /\ e[5] = d[5]
       /\ e[6] = d[6] /\ e[7] = d[7] /\ e[8] = d[8] /\ e[9] = d[9]
  <2>1. /\ e[1] = ab[1] /\ e[2] = ab[2] /\ e[3] = ab[3] /\ e[4] = ab[4] /\ e[5] = ab[5]
        /\ e[6] = ab[6] /\ e[7] = ab[7] /\ e[8] = ab[8]
    BY <1>7
  <2> QED
    BY <2>1, <1>2, <1>5, <1>6, <1>7, <1>8
<1>11. \A i \in 1..9 : e[i] = d[i]
  BY <1>9, <1>10
<1>12. e = d
  BY <1>4, <1>7, <1>11
<1> QED
  BY <1>1, <1>12 DEF flags, d, e, ab

LEMMA HeaderPositions ==
    ASSUME NEW message, NEW flags, NEW nonce
    PROVE  LET parts == HeaderParts(message, flags, nonce)
           IN  /\ Size(parts) = 92
               /\ Mid(parts, 4, 8) = message.from /\ Mid(parts, 12, 8) = message.to
               /\ Mid(parts, 20, 8) = message.id /\ Mid(parts, 28, 4) = message.time
               /\ Mid(parts, 32, 1) = GetFlags(flags) /\ Mid(parts, 36, 32) = message.pushFrom
               /\ Mid(parts, 68, 24) = nonce
<1> DEFINE parts == HeaderParts(message, flags, nonce)
           S == Starts(HeaderWidths)
<1>1. DOMAIN parts = 1..9 /\ Len(parts) = 9
  BY DEF HeaderParts
<1>2. \A i \in 1..9 : parts[i][1] = HeaderWidths[i]
  BY DEF HeaderParts, HeaderWidths
<1>3. [i \in DOMAIN parts |-> parts[i][1]] = HeaderWidths
  <2> HIDE DEF parts
  <2>1. [i \in DOMAIN parts |-> parts[i][1]] = [i \in 1..9 |-> HeaderWidths[i]]
    BY <1>1, <1>2
  <2>2. HeaderWidths = [i \in 1..9 |-> HeaderWidths[i]]
    BY DEF HeaderWidths
  <2> QED
    BY <2>1, <2>2
<1>4. /\ parts[2][2] = message.from /\ parts[3][2] = message.to /\ parts[4][2] = message.id
      /\ parts[5][2] = message.time /\ parts[6][2] = GetFlags(flags)
      /\ parts[8][2] = message.pushFrom /\ parts[9][2] = nonce
  BY DEF HeaderParts
<1>5. /\ S[1] = 0 /\ S[2] = 4 /\ S[3] = 12 /\ S[4] = 20 /\ S[5] = 28
      /\ S[6] = 32 /\ S[7] = 33 /\ S[8] = 36 /\ S[9] = 68 /\ S[10] = 92
  BY HeaderStarts
<1> HIDE DEF parts, S
<1>6. Size(parts) = 92
  BY <1>1, <1>3, <1>5 DEF Size, S
<1>7. ASSUME NEW k \in 1..9, NEW at, NEW width, S[k] = at, parts[k][1] = width,
             \A i \in 1..9 : S[i] = at => i = k
      PROVE  Mid(parts, at, width) = parts[k][2]
  <2> DEFINE here == {i \in DOMAIN parts : S[i] = at /\ parts[i][1] = width}
  <2>1. here = {k}
    BY <1>1, <1>7
  <2>2. Mid(parts, at, width) = IF here = {} THEN Garbage ELSE parts[CHOOSE i \in here : TRUE][2]
    <3> DEFINE w == [i \in DOMAIN parts |-> parts[i][1]]
               spot == {i \in DOMAIN parts : Starts(w)[i] = at /\ parts[i][1] = width}
    <3>1. Mid(parts, at, width) = IF spot = {} THEN Garbage ELSE parts[CHOOSE i \in spot : TRUE][2]
      BY Zenon DEF Mid
    <3>2. w = HeaderWidths
      BY <1>3
    <3> HIDE DEF w
    <3>3. spot = here
      BY <3>2 DEF S
    <3> HIDE DEF spot, here
    <3> QED
      BY <3>1, <3>3
  <2> HIDE DEF here
  <2>3. (CHOOSE i \in here : TRUE) = k
    BY <2>1
  <2> QED
    BY <2>1, <2>2, <2>3
<1>8. Mid(parts, 4, 8) = parts[2][2]
  BY <1>2, <1>5, <1>7 DEF HeaderWidths
<1>9. Mid(parts, 32, 1) = parts[6][2]
  BY <1>2, <1>5, <1>7 DEF HeaderWidths
<1>10. Mid(parts, 68, 24) = parts[9][2]
  BY <1>2, <1>5, <1>7 DEF HeaderWidths
<1>11. Mid(parts, 12, 8) = parts[3][2]
  BY <1>2, <1>5, <1>7 DEF HeaderWidths
<1>12. Mid(parts, 20, 8) = parts[4][2]
  BY <1>2, <1>5, <1>7 DEF HeaderWidths
<1>13. Mid(parts, 28, 4) = parts[5][2]
  BY <1>2, <1>5, <1>7 DEF HeaderWidths
<1>14. Mid(parts, 36, 32) = parts[8][2]
  BY <1>2, <1>5, <1>7 DEF HeaderWidths
<1> QED
  BY <1>4, <1>6, <1>8, <1>9, <1>10, <1>11, <1>12, <1>13, <1>14 DEF parts

(* The flags the factory gives, each of them.                              *)
LEMMA FlagsOfAll == ASSUME NEW class PROVE FlagsOf(class) \in [FlagNames -> BOOLEAN]
<1>1. \A s : Only(s) \in [FlagNames -> BOOLEAN]
  BY DEF Only
<1> QED
  BY <1>1, Zenon DEF FlagsOf, TypingStatusMessageFlags, ReceiptMessageFlags, GroupControlMessageFlags,
        GroupTextMessageFlags, ContactMessageFlags

LEMMA FlagsAreKnown ==
    ASSUME NEW class, NEW held \in BOOLEAN
    PROVE  ~FlagsRefused(GetFlags(CopyOf(FlagsOf(class), held)))
<1> DEFINE flags == CopyOf(FlagsOf(class), held)
<1>1. FlagsOf(class) \in [FlagNames -> BOOLEAN]
  BY FlagsOfAll
<1>2. flags \in [FlagNames -> BOOLEAN]
  BY <1>1 DEF CopyOf
<1>3. /\ "pushMessage" \in FlagNames /\ "noQueuing" \in FlagNames /\ "noAckExpected" \in FlagNames
      /\ "alreadyDelivered" \in FlagNames /\ "groupMessage" \in FlagNames
      /\ "callMessage" \in FlagNames /\ "noDeliveryReceipt" \in FlagNames
  BY DEF FlagNames, Bit
<1> DEFINE b(f) == IF flags[f] THEN Bit[f] ELSE 0
           b1 == b("pushMessage")
           b2 == b("noQueuing")
           b3 == b("noAckExpected")
           b4 == b("alreadyDelivered")
           b5 == b("groupMessage")
           b6 == b("callMessage")
           b7 == b("noDeliveryReceipt")
<1>4. GetFlags(flags) = b1 + b2 + b3 + b4 + b5 + b6 + b7
  BY DEF GetFlags
<1> HIDE DEF flags
<1>5. /\ b1 \in {0, 1} /\ b2 \in {0, 2} /\ b3 \in {0, 4} /\ b4 \in {0, 8} /\ b5 \in {0, 16}
      /\ b6 \in {0, 32} /\ b7 \in {0, 128}
  BY <1>2, <1>3 DEF Bit
<1> HIDE DEF b1, b2, b3, b4, b5, b6, b7
<1> DEFINE n == b1 + b2 + b3 + b4 + b5 + b6
<1>6. n \in 0..63
  BY <1>5
<1> HIDE DEF n
<1>7. GetFlags(flags) = n + b7
  BY <1>4, <1>5 DEF n
<1>8. (n + b7) \div 64 \in {0, 2}
  BY <1>5, <1>6
<1>9. 0 % 2 = 0 /\ 2 % 2 = 0
  OBVIOUS
<1>10. ~Has(n + b7, 64)
  BY <1>8, <1>9 DEF Has
<1> QED
  BY <1>7, <1>10 DEF FlagsRefused, UnknownBit, flags

(* The byte of the flags tells each of them.                               *)
LEMMA FlagsAreReadAsWritten ==
    ASSUME NEW flags \in [FlagNames -> BOOLEAN]
    PROVE  FlagsFrom(GetFlags(flags)) = flags
<1> DEFINE x(f) == IF flags[f] THEN 1 ELSE 0
           x1 == x("pushMessage")
           x2 == x("noQueuing")
           x3 == x("noAckExpected")
           x4 == x("alreadyDelivered")
           x5 == x("groupMessage")
           x6 == x("callMessage")
           x7 == x("noDeliveryReceipt")
           n == GetFlags(flags)
<1>1. /\ Bit["pushMessage"] = 1 /\ Bit["noQueuing"] = 2 /\ Bit["noAckExpected"] = 4
      /\ Bit["alreadyDelivered"] = 8 /\ Bit["groupMessage"] = 16 /\ Bit["callMessage"] = 32
      /\ Bit["noDeliveryReceipt"] = 128
  BY DEF Bit
<1>2. FlagNames = {"pushMessage", "noQueuing", "noAckExpected", "alreadyDelivered", "groupMessage",
                   "callMessage", "noDeliveryReceipt"}
  BY DEF FlagNames, Bit
<1>3. \A f \in FlagNames : x(f) \in {0, 1} /\ (x(f) = 1 <=> flags[f])
  OBVIOUS
<1>4. /\ x1 \in {0, 1} /\ x2 \in {0, 1} /\ x3 \in {0, 1} /\ x4 \in {0, 1} /\ x5 \in {0, 1}
      /\ x6 \in {0, 1} /\ x7 \in {0, 1}
  BY <1>2, <1>3
<1>5. n = x1 + 2 * x2 + 4 * x3 + 8 * x4 + 16 * x5 + 32 * x6 + 128 * x7
  <2> DEFINE b(f) == IF flags[f] THEN Bit[f] ELSE 0
  <2>1. n = b("pushMessage") + b("noQueuing") + b("noAckExpected") + b("alreadyDelivered")
              + b("groupMessage") + b("callMessage") + b("noDeliveryReceipt")
    BY DEF GetFlags
  <2>2. b("pushMessage") = x1 /\ b("noQueuing") = 2 * x2 /\ b("noAckExpected") = 4 * x3
    BY <1>1
  <2>3. b("alreadyDelivered") = 8 * x4 /\ b("groupMessage") = 16 * x5
    BY <1>1
  <2>4. b("callMessage") = 32 * x6 /\ b("noDeliveryReceipt") = 128 * x7
    BY <1>1
  <2> HIDE DEF b, n, x1, x2, x3, x4, x5, x6, x7
  <2> QED
    BY <2>1, <2>2, <2>3, <2>4
<1> HIDE DEF n, x1, x2, x3, x4, x5, x6, x7
<1>6. \A q \in Nat : /\ (2 * q + 0) % 2 = 0 /\ (2 * q + 1) % 2 = 1
  OBVIOUS
<1>7. Has(n, 1) <=> x1 = 1
  <2>1. PICK q \in Nat : q = x2 + 2 * x3 + 4 * x4 + 8 * x5 + 16 * x6 + 64 * x7
    BY <1>4
  <2>2. n \div 1 = 2 * q + x1
    BY <1>4, <1>5, <2>1
  <2> QED
    BY <1>4, <1>6, <2>2 DEF Has
<1>8. Has(n, 2) <=> x2 = 1
  <2>1. PICK q \in Nat : q = x3 + 2 * x4 + 4 * x5 + 8 * x6 + 32 * x7
    BY <1>4
  <2>2. n \div 2 = 2 * q + x2
    BY <1>4, <1>5, <2>1
  <2> QED
    BY <1>4, <1>6, <2>2 DEF Has
<1>9. Has(n, 4) <=> x3 = 1
  <2>1. PICK q \in Nat : q = x4 + 2 * x5 + 4 * x6 + 16 * x7
    BY <1>4
  <2>2. n \div 4 = 2 * q + x3
    BY <1>4, <1>5, <2>1
  <2> QED
    BY <1>4, <1>6, <2>2 DEF Has
<1>10. Has(n, 8) <=> x4 = 1
  <2>1. PICK q \in Nat : q = x5 + 2 * x6 + 8 * x7
    BY <1>4
  <2>2. n \div 8 = 2 * q + x4
    BY <1>4, <1>5, <2>1
  <2> QED
    BY <1>4, <1>6, <2>2 DEF Has
<1>11. Has(n, 16) <=> x5 = 1
  <2>1. PICK q \in Nat : q = x6 + 4 * x7
    BY <1>4
  <2>2. n \div 16 = 2 * q + x5
    BY <1>4, <1>5, <2>1
  <2> QED
    BY <1>4, <1>6, <2>2 DEF Has
<1>12. Has(n, 32) <=> x6 = 1
  <2>1. PICK q \in Nat : q = 2 * x7
    BY <1>4
  <2>2. n \div 32 = 2 * q + x6
    BY <1>4, <1>5, <2>1
  <2> QED
    BY <1>4, <1>6, <2>2 DEF Has
<1>13. Has(n, 128) <=> x7 = 1
  <2>1. n \div 128 = 2 * 0 + x7 /\ 0 \in Nat
    BY <1>4, <1>5
  <2> QED
    BY <1>4, <1>6, <2>1 DEF Has
<1>14. ASSUME NEW f \in FlagNames PROVE Has(n, Bit[f]) = flags[f]
  <2>1. Has(n, Bit[f]) <=> x(f) = 1
    BY <1>1, <1>2, <1>7, <1>8, <1>9, <1>10, <1>11, <1>12, <1>13
       DEF x1, x2, x3, x4, x5, x6, x7
  <2>2. Has(n, Bit[f]) <=> flags[f]
    BY <1>3, <2>1
  <2>3. Has(n, Bit[f]) \in BOOLEAN /\ flags[f] \in BOOLEAN
    BY DEF Has
  <2> QED
    BY <2>2, <2>3
<1>15. flags = [f \in FlagNames |-> flags[f]]
  OBVIOUS
<1> QED
  BY <1>14, <1>15, Zenon DEF FlagsFrom, n

(* The padding is taken off again.                                         *)
LEMMA PaddingComesOff ==
    ASSUME NEW E, NEW parts \in Seq(E), NEW drawn \in 0..255
    PROVE  DecodePkcs7(EncodePkcs7(parts, drawn)) = parts
<1> DEFINE c == PaddingCount(drawn)
           P == E \cup {<<1, c>>}
           pad == [i \in 1..c |-> <<1, c>>]
           all == parts \o pad
           n == Len(parts)
<1>1. c \in Nat /\ c >= 1
  BY DEF PaddingCount
<1>2. EncodePkcs7(parts, drawn) = all
  BY DEF EncodePkcs7
<1> HIDE DEF c
<1>3. pad \in Seq(P) /\ Len(pad) = c
  <2>1. pad \in [1..c -> P]
    OBVIOUS
  <2> HIDE DEF pad, P
  <2> QED
    BY <1>1, <2>1, LenOfFunction, Zenon
<1>4. pad[c] = <<1, c>>
  BY <1>1
<1>5. parts \in Seq(P) /\ n \in Nat
  BY LenProperties, SeqOfElements, ElementOfSeq
<1> HIDE DEF P, pad, n
<1>6. /\ all \in Seq(P) /\ Len(all) = n + c
      /\ \A i \in 1..n + c : all[i] = IF i <= n THEN parts[i] ELSE pad[i - n]
  BY <1>3, <1>5, ConcatProperties DEF n
<1> HIDE DEF all
<1>7. all[n + c] = <<1, c>>
  <2>1. n + c \in 1..n + c /\ ~(n + c <= n) /\ (n + c) - n = c
    BY <1>1, <1>5
  <2> QED
    BY <2>1, <1>4, <1>6
<1>8. DecodePkcs7(all) = SubSeq(all, 1, n)
  <2>1. Len(all) - all[Len(all)][2] = n
    BY <1>1, <1>5, <1>6, <1>7
  <2> QED
    BY <2>1 DEF DecodePkcs7
<1>9. SubSeq(all, 1, n) = parts
  <2>1. 1 \in 1..Len(all) + 1 /\ n \in 0..Len(all)
    BY <1>1, <1>5, <1>6
  <2>2. /\ SubSeq(all, 1, n) \in Seq(P) /\ Len(SubSeq(all, 1, n)) = n
        /\ \A i \in 1..n : SubSeq(all, 1, n)[i] = all[i]
    BY <2>1, <1>5, <1>6, SubSeqProperties
  <2>3. \A i \in 1..n : SubSeq(all, 1, n)[i] = parts[i]
    BY <2>2, <1>1, <1>5, <1>6
  <2> QED
    BY <2>2, <2>3, <1>5, SeqEqual DEF n
<1> QED
  BY <1>2, <1>8, <1>9

(* A message and what is read of its packet differ in that flag at most.   *)
MessageWith(from, to, id, time, flags, pushFrom, class, fields, tail, owner) ==
    [header |-> [from |-> from, to |-> to, id |-> id, time |-> time, flags |-> flags,
                 pushFrom |-> pushFrom],
     class |-> class, fields |-> fields, tail |-> tail, owner |-> owner]

LEMMA OnlyTheReceiptDiffers ==
    ASSUME NEW from, NEW to, NEW id, NEW time, NEW pushFrom, NEW class, NEW fields, NEW tail,
           NEW owner, NEW flags \in [FlagNames -> BOOLEAN], NEW held
    PROVE  SameButForReceipt(
              MessageWith(from, to, id, time, CopyOf(flags, held), pushFrom, class, fields, tail, owner),
              MessageWith(from, to, id, time, flags, pushFrom, class, fields, tail, owner))
<1> DEFINE other == CopyOf(flags, held)
           a == MessageWith(from, to, id, time, other, pushFrom, class, fields, tail, owner)
           b == MessageWith(from, to, id, time, flags, pushFrom, class, fields, tail, owner)
           plain == [flags EXCEPT !.noDeliveryReceipt = FALSE]
           c == MessageWith(from, to, id, time, plain, pushFrom, class, fields, tail, owner)
<1>1. [other EXCEPT !.noDeliveryReceipt = FALSE] = plain
  BY DEF CopyOf
<1> HIDE DEF other, plain
<1>2. ASSUME NEW g
      PROVE  LET x == MessageWith(from, to, id, time, g, pushFrom, class, fields, tail, owner)
             IN  [x EXCEPT !.header.flags.noDeliveryReceipt = FALSE]
                   = MessageWith(from, to, id, time, [g EXCEPT !.noDeliveryReceipt = FALSE], pushFrom,
                                 class, fields, tail, owner)
  <2> DEFINE x == MessageWith(from, to, id, time, g, pushFrom, class, fields, tail, owner)
             y == [g EXCEPT !.noDeliveryReceipt = FALSE]
             h == [from |-> from, to |-> to, id |-> id, time |-> time, flags |-> y,
                   pushFrom |-> pushFrom]
  <2>1. x.header.flags = g
    BY DEF MessageWith
  <2>2. [x.header EXCEPT !.flags = y] = h
    <3> HIDE DEF y
    <3> QED
      BY DEF MessageWith
  <2>3. [x EXCEPT !.header = h] = MessageWith(from, to, id, time, y, pushFrom, class, fields, tail, owner)
    <3> HIDE DEF y
    <3> QED
      BY DEF MessageWith
  <2>4. [x EXCEPT !.header.flags.noDeliveryReceipt = FALSE]
          = [x EXCEPT !.header = [x.header EXCEPT !.flags =
                                    [x.header.flags EXCEPT !.noDeliveryReceipt = FALSE]]]
    OBVIOUS
  <2> HIDE DEF x, h
  <2> QED
    BY <2>1, <2>2, <2>3, <2>4 DEF x
<1>3. [b EXCEPT !.header.flags.noDeliveryReceipt = FALSE] = c
  BY <1>2 DEF plain
<1>4. [a EXCEPT !.header.flags.noDeliveryReceipt = FALSE] = c
  BY <1>1, <1>2
<1> HIDE DEF a, b, c
<1> QED
  BY <1>3, <1>4, Zenon DEF SameButForReceipt, a, b, other

(* What the assumption says of one message.                                *)
OwnerOf(m) == LET by == LayoutOf[m.class].owner
              IN  CASE by = "payload"  -> m.fields.owner
                    [] by = "sender"   -> m.from
                    [] by = "receiver" -> m.to
                    [] OTHER           -> 0

LEMMA MessageIsComplete ==
    ASSUME NEW class \in DOMAIN Messages
    PROVE  LET m == Messages[class]
           IN  /\ class \in DOMAIN LayoutOf /\ m.class = class
               /\ HasAll(LayoutOf[class], m.fields, m.tail)
               /\ m.tail \in Seq(Nat) /\ m.owner = OwnerOf(m)
<1> DEFINE m == Messages[class]
           l == LayoutOf[class]
           names == {l.writes[i][1] : i \in DOMAIN l.writes}
<1>1. /\ class \in DOMAIN LayoutOf /\ m.class = class
      /\ m.fields \in [names -> Nat]
      /\ m.tail \in Seq(Nat)
      /\ (l.tail = "none" => m.tail = <<>>)
      /\ Len(m.tail) * (IF l.tail = "ids" THEN IdWidth ELSE 1) >= l.least
  BY Zenon, MessagesAssumption
<1>2. m.owner = CASE l.owner = "payload"  -> m.fields.owner
                  [] l.owner = "sender"   -> m.from
                  [] l.owner = "receiver" -> m.to
                  [] OTHER                -> 0
  BY Zenon, MessagesAssumption
<1>3. HasAll(l, m.fields, m.tail)
  <2> HIDE DEF m, l, names
  <2>1. DOMAIN m.fields = names /\ m.fields = [f \in DOMAIN m.fields |-> m.fields[f]]
    BY <1>1
  <2> QED
    BY <2>1, <1>1 DEF HasAll, TailWidth, names
<1>4. m.owner = OwnerOf(m)
  <2>1. l = LayoutOf[m.class]
    BY <1>1
  <2> HIDE DEF m, l
  <2> QED
    BY <1>2, <2>1, Zenon DEF OwnerOf
<1> QED
  BY <1>1, <1>3, <1>4

(* What may become of a message: it comes out as it was meant, but for a   *)
(* group's photo, which is dropped; no exception is thrown.                *)
OpenedOutcomes ==
    {m \in [outcome : {"as meant", "dropped", "misread"}, class : {"any"} \cup DOMAIN Messages] :
        \/ m.outcome = "as meant" /\ m.class = "any"
        \/ m.outcome = "dropped" /\ m.class = "GroupSetPhoto"}

(* The header and the box of a packet are as they were written.            *)
PartsInOrder(message, E) ==
    ToPacketPayload(message.class, message.fields, message.tail).parts \in Seq(E)

WrittenAs(packet, message, held) ==
    /\ ~HeaderRefused(packet) /\ Opens(packet, message.to)
    /\ Payload(packet) = ToPacketPayload(message.class, message.fields, message.tail)
    /\ ReadHeader(packet) = [from |-> message.from, to |-> message.to, id |-> message.id,
                             time |-> message.time,
                             flags |-> CopyOf(FlagsOf(message.class), held),
                             pushFrom |-> message.pushFrom]

LEMMA PacketIsAsWritten ==
    ASSUME NEW message, NEW held \in BOOLEAN, NEW drawn \in 0..255,
           NEW E, PartsInOrder(message, E)
    PROVE  WrittenAs(ToPacket(message, held, drawn), message, held)
<1> DEFINE packet == ToPacket(message, held, drawn)
           flags  == CopyOf(FlagsOf(message.class), held)
           payload == ToPacketPayload(message.class, message.fields, message.tail)
<1>1. packet.parts = HeaderParts(message, flags, 700)
  BY PartsOfPacket
<1>2. packet.box.between = {message.from, message.to} /\ packet.box.nonce = 700
  BY DEF ToPacket
<1>3. packet.box.signature = payload.signature /\ packet.box.parts = EncodePkcs7(payload.parts, drawn)
  BY DEF ToPacket
<1>0. payload.parts \in Seq(E)
  BY Zenon DEF PartsInOrder
<1>4. payload = [signature |-> payload.signature, parts |-> payload.parts]
  BY DEF ToPacketPayload
<1>5. flags \in [FlagNames -> BOOLEAN]
  <2>1. FlagsOf(message.class) \in [FlagNames -> BOOLEAN]
    BY FlagsOfAll
  <2> QED
    BY <2>1 DEF CopyOf
<1>6. ~FlagsRefused(GetFlags(flags))
  BY FlagsAreKnown
<1>7. FlagsFrom(GetFlags(flags)) = flags
  BY <1>5, FlagsAreReadAsWritten
<1>8. DecodePkcs7(EncodePkcs7(payload.parts, drawn)) = payload.parts
  BY <1>0, PaddingComesOff
<1> HIDE DEF packet, flags, payload
<1>9. /\ Size(packet.parts) = 92
      /\ Mid(packet.parts, 4, 8) = message.from /\ Mid(packet.parts, 12, 8) = message.to
      /\ Mid(packet.parts, 20, 8) = message.id /\ Mid(packet.parts, 28, 4) = message.time
      /\ Mid(packet.parts, 32, 1) = GetFlags(flags) /\ Mid(packet.parts, 36, 32) = message.pushFrom
      /\ Mid(packet.parts, 68, 24) = 700
  BY <1>1, HeaderPositions
<1>10. /\ HeaderStart + 0 = 4 /\ HeaderStart + 8 = 12 /\ HeaderStart + 16 = 20
       /\ HeaderStart + 24 = 28 /\ HeaderStart + 28 = 32 /\ HeaderStart + 32 = 36
       /\ NonceStart = 68 /\ PayloadStart = 92
  BY DEF HeaderStart, NonceStart, PayloadStart
<1>11. ~HeaderRefused(packet)
  BY <1>6, <1>9, <1>10 DEF HeaderRefused
<1>12. ReadHeader(packet) = [from |-> message.from, to |-> message.to, id |-> message.id,
                             time |-> message.time, flags |-> flags, pushFrom |-> message.pushFrom]
  BY <1>7, <1>9, <1>10 DEF ReadHeader
<1>13. Opens(packet, message.to)
  <2>1. ReadHeader(packet).from = message.from
    BY <1>12
  <2> QED
    BY <2>1, <1>2, <1>9, <1>10 DEF Opens
<1>14. Payload(packet) = payload
  BY <1>3, <1>4, <1>8 DEF Payload
<1> QED
  BY <1>11, <1>12, <1>13, <1>14 DEF WrittenAs, packet, flags, payload

LEMMA PartsAreASequence ==
    ASSUME NEW parts, NEW c, NEW names, NEW T, NEW fields, NEW tail,
           PartsAre(parts, c, names, T, fields, tail)
    PROVE  parts \in Seq((Nat \ {0}) \X (T \cup {fields[f] : f \in DOMAIN fields}))
  BY Zenon DEF PartsAre

LEMMA PhotoIsWritten == Writing(LayoutOf["GroupSetPhoto"], <<"group", "blob", "size", "key">>)
<1> DEFINE names == <<"group", "blob", "size", "key">>
<1>1. LayoutOf["GroupSetPhoto"].writes = Writes(names)
  BY DEF LayoutOf, GroupSetPhoto, Fixed, Layout
<1>2. names \in Seq(FieldNames)
  BY DEF FieldNames, Width
<1> QED
  BY <1>1, <1>2, Zenon DEF Writing

LEMMA PlainIsWritten ==
    ASSUME NEW l, NEW names, Plain(l, names)
    PROVE  Writing(l, names)
<1>1. names \in Seq(FieldNames) /\ l = Layout(names, l.tail, l.least, l.exact, l.owner)
  BY Zenon DEF Plain
<1>2. Layout(names, l.tail, l.least, l.exact, l.owner).writes = Writes(names)
  BY DEF Layout
<1> QED
  BY <1>1, <1>2, Zenon DEF Writing

LEMMA MessagesOpen ==
    ASSUME NEW m \in Outcomes
    PROVE  m \in OpenedOutcomes
<1>1. PICK content \in Contents :
         m = [outcome |-> Outcome(content),
              class |-> IF Outcome(content) = "as meant" THEN "any" ELSE content.class]
  BY DEF Outcomes
<1> DEFINE class == content.class
           message == Messages[class]
           packet  == Envelope(content)
           payload == ToPacketPayload(class, message.fields, message.tail)
           header  == ReadHeader(packet)
<1>2. class \in DOMAIN Messages /\ content.held \in BOOLEAN /\ content.drawn \in 0..255
  BY DrawnAssumption DEF Contents
<1>3. /\ class \in DOMAIN LayoutOf /\ message.class = class
      /\ HasAll(LayoutOf[class], message.fields, message.tail)
      /\ message.tail \in Seq(Nat) /\ message.owner = OwnerOf(message)
  <2>1. class \in DOMAIN Messages
    BY <1>2
  <2> HIDE DEF class
  <2> QED
    BY <2>1, MessageIsComplete
<1> HIDE DEF class, message
<1>4. PICK names : /\ Writing(LayoutOf[class], names)
                   /\ class # "GroupSetPhoto" => Plain(LayoutOf[class], names)
  <2>1. CASE class = "GroupSetPhoto"
    BY <2>1, PhotoIsWritten
  <2>2. CASE class # "GroupSetPhoto"
    <3>1. PICK names : Plain(LayoutOf[class], names)
      BY <2>2, <1>3, LayoutsArePlain
    <3>2. Writing(LayoutOf[class], names)
      BY <3>1, PlainIsWritten
    <3> QED
      BY <3>1, <3>2
  <2> QED
    BY <2>1, <2>2
<1>5. PICK E : payload.parts \in Seq(E)
  <2>1. PartsAre(payload.parts, TailWidth(LayoutOf[class]), names, Nat, message.fields, message.tail)
    BY <1>3, <1>4, PartsOfPayload
  <2> HIDE DEF payload
  <2> QED
    BY <2>1, PartsAreASequence
<1>6. /\ packet = ToPacket(message, content.held, content.drawn)
      /\ Messages[content.class] = message /\ content.class = class
  BY DEF Envelope, message, class
<1>7. /\ ~HeaderRefused(packet) /\ Opens(packet, message.to)
      /\ Payload(packet) = payload
      /\ header = [from |-> message.from, to |-> message.to, id |-> message.id,
                   time |-> message.time,
                   flags |-> CopyOf(FlagsOf(class), content.held),
                   pushFrom |-> message.pushFrom]
  <2>1. ToPacketPayload(message.class, message.fields, message.tail).parts \in Seq(E)
    BY <1>3, <1>5
  <2> HIDE DEF packet, header
  <2>2. /\ ~HeaderRefused(packet) /\ Opens(packet, message.to)
        /\ Payload(packet) = ToPacketPayload(message.class, message.fields, message.tail)
        /\ ReadHeader(packet) = [from |-> message.from, to |-> message.to, id |-> message.id,
                                 time |-> message.time,
                                 flags |-> CopyOf(FlagsOf(message.class), content.held),
                                 pushFrom |-> message.pushFrom]
    <3> HIDE DEF message
    <3>1. WrittenAs(ToPacket(message, content.held, content.drawn), message, content.held)
      <4>1. PartsInOrder(message, E)
        BY <2>1, Zenon DEF PartsInOrder
      <4> QED
        BY <4>1, <1>2, PacketIsAsWritten, Zenon
    <3>2. WrittenAs(packet, message, content.held)
      BY <3>1, <1>6
    <3> QED
      BY <3>2, Zenon DEF WrittenAs
  <2> QED
    BY <2>2, <1>3 DEF header
<1> HIDE DEF packet, payload, header
<1>8. CASE class = "GroupSetPhoto"
  <2>1. Refused(payload)
    BY <1>3, <1>8, PhotosAreRefused DEF payload
  <2>2. Outcome(content) = "dropped"
    <3>1. ~HeaderRefused(Envelope(content)) /\ Opens(Envelope(content), message.to)
          /\ Refused(Payload(Envelope(content)))
      BY <2>1, <1>7 DEF packet
    <3> QED
      BY <3>1, <1>6 DEF Outcome
  <2>3. m = [outcome |-> "dropped", class |-> "GroupSetPhoto"]
    BY <2>2, <1>1, <1>6, <1>8
  <2>4. "GroupSetPhoto" \in {"any"} \cup DOMAIN Messages
    BY <1>2, <1>8 DEF class
  <2> QED
    BY <2>3, <2>4 DEF OpenedOutcomes
<1>9. CASE class # "GroupSetPhoto"
  <2>1. /\ ~Refused(payload)
        /\ FromPacketPayload(payload)
             = [class |-> class, fields |-> message.fields, tail |-> message.tail]
    BY <1>3, <1>4, <1>9, PlainIsReadAsWritten DEF payload
  <2> DEFINE read == FromPacketPayload(payload)
             a == ReadMessage(packet)
             b == Meant(message)
             flags == FlagsOf(class)
  <2>2. Owner(header, read) = message.owner
    <3>1. read.class = class /\ read.fields = message.fields /\ class = message.class
      BY <2>1, <1>3
    <3>2. header.from = message.from /\ header.to = message.to
      BY <1>7
    <3> HIDE DEF read
    <3> QED
      BY <3>1, <3>2, <1>3, Zenon DEF Owner, OwnerOf
  <2>3. a = [header |-> header, class |-> read.class, fields |-> read.fields, tail |-> read.tail,
             owner |-> Owner(header, read)]
    BY <1>7, Zenon DEF ReadMessage, header
  <2>4. a = MessageWith(message.from, message.to, message.id, message.time,
                        CopyOf(flags, content.held), message.pushFrom, class, message.fields,
                        message.tail, message.owner)
    <3>1. read.class = class /\ read.fields = message.fields /\ read.tail = message.tail
      BY <2>1
    <3> HIDE DEF read, a
    <3> QED
      BY <3>1, <2>2, <2>3, <1>7 DEF MessageWith
  <2>5. b = MessageWith(message.from, message.to, message.id, message.time, flags,
                        message.pushFrom, class, message.fields, message.tail, message.owner)
    BY <1>3 DEF Meant, MessageWith
  <2> HIDE DEF read, a, b
  <2>6. SameButForReceipt(a, b)
    BY <2>4, <2>5, FlagsOfAll, OnlyTheReceiptDiffers
  <2>7. Outcome(content) = "as meant"
    <3>1. /\ ~HeaderRefused(Envelope(content)) /\ Opens(Envelope(content), message.to)
          /\ ~Refused(Payload(Envelope(content)))
          /\ SameButForReceipt(ReadMessage(Envelope(content)), Meant(message))
      BY <2>1, <2>6, <1>7 DEF packet, a, b
    <3> QED
      BY <3>1, <1>6 DEF Outcome
  <2>8. m = [outcome |-> "as meant", class |-> "any"]
    BY <2>7, <1>1
  <2> QED
    BY <2>8 DEF OpenedOutcomes
<1> QED
  BY <1>8, <1>9

-----------------------------------------------------------------------------
(* What is received: the invariant.                                        *)

ReceiveTypes ==
    /\ session \in Nat
    /\ link \in {"down", "connecting", "handshake", "up"}
    /\ written \in Seq(ServerPacket) /\ handled \in Seq(ServerPacket)
    /\ transit \in Seq(Byte) /\ socket \in Seq(Byte) /\ buffer \in Seq(Byte)
    /\ reading \in BOOLEAN /\ ~quit

(* The packets handled are the first ones written, and all bytes there are *)
(* those of the others; bytes of an earlier session may be left over until *)
(* the next one is made.                                                   *)
ReceiveInv ==
    /\ ReceiveTypes
    /\ Numbered(written)
    /\ Len(handled) <= Len(written) /\ \A i \in 1..Len(handled) : handled[i] = written[i]
    /\ link \in {"down", "connecting"} =>
          written = <<>> /\ handled = <<>> /\ transit = <<>> /\ ~reading
    /\ link = "connecting" => socket = <<>>
    /\ link = "handshake" =>
          /\ handled = <<>> /\ ~reading /\ serverNonce = 2
          /\ Stream(socket \o transit, written, session, 0)
    /\ link = "up" =>
          /\ serverNonce = Len(handled) + 3
          /\ Stream(buffer \o (socket \o transit), written, session, Len(handled))
    /\ reading => Complete(buffer)

receiveVars == <<session, link, serverNonce, incoming, quit>>

LEMMA ReceiveStutters == ReceiveInv /\ UNCHANGED receiveVars => ReceiveInv'
<1> SUFFICES ASSUME ReceiveInv, UNCHANGED receiveVars PROVE ReceiveInv'
  OBVIOUS
<1>1. UNCHANGED <<session, link, serverNonce, written, transit, socket, buffer, reading, handled, quit>>
  BY DEF receiveVars, incoming
<1>2. ReceiveTypes'
  BY <1>1 DEF ReceiveInv, ReceiveTypes
<1>3. Numbered(written') /\ (Complete(buffer) => Complete(buffer'))
  BY <1>1 DEF ReceiveInv
<1> QED
  BY <1>1, <1>2, <1>3 DEF ReceiveInv

LEMMA BytesAssociate ==
    \A x, y, w \in Seq(Byte) : (x \o y) \o w = x \o (y \o w)
  BY ConcatAssociative

LEMMA NothingIsAStream == \A s : Stream(<<>>, <<>>, s, 0)
<1>1. Len(<<>>) = 0
  OBVIOUS
<1> QED
  BY <1>1 DEF Stream

LEMMA InitReceives == Init => ReceiveInv
<1> SUFFICES ASSUME Init PROVE ReceiveInv
  OBVIOUS
<1>1. /\ <<>> \in Seq(ServerPacket) /\ <<>> \in Seq(Byte) /\ Len(<<>>) = 0
  OBVIOUS
<1>2. /\ session = 0 /\ link = "down" /\ written = <<>> /\ transit = <<>> /\ socket = <<>>
      /\ buffer = <<>> /\ handled = <<>> /\ reading = FALSE /\ quit = FALSE
  BY DEF Init
<1>3. ReceiveTypes
  BY <1>1, <1>2 DEF ReceiveTypes
<1>4. Numbered(written) /\ Len(handled) <= Len(written)
      /\ \A i \in 1..Len(handled) : handled[i] = written[i]
  BY <1>1, <1>2 DEF Numbered
<1> QED
  BY <1>2, <1>3, <1>4 DEF ReceiveInv

LEMMA ConnectReceives == ReceiveInv /\ Connect => ReceiveInv'
<1> SUFFICES ASSUME ReceiveInv, Connect PROVE ReceiveInv'
  OBVIOUS
<1>1. /\ link = "down" /\ link' = "connecting" /\ session' = session + 1 /\ socket' = <<>>
      /\ UNCHANGED <<serverNonce, written, transit, buffer, reading, handled, quit>>
  BY DEF Connect
<1>2. socket' \in Seq(Byte)
  BY <1>1
<1> QED
  BY <1>1, <1>2 DEF ReceiveInv, ReceiveTypes, Numbered

LEMMA AuthenticateReceives == ReceiveInv /\ Authenticate => ReceiveInv'
<1> SUFFICES ASSUME ReceiveInv, Authenticate PROVE ReceiveInv'
  OBVIOUS
<1>1. /\ link = "connecting" /\ link' = "handshake" /\ serverNonce' = 2
      /\ UNCHANGED <<session, written, transit, socket, buffer, reading, handled, quit>>
  BY DEF Authenticate, incoming
<1>2. written = <<>> /\ handled = <<>> /\ transit = <<>> /\ socket = <<>> /\ ~reading
  BY <1>1 DEF ReceiveInv
<1>3. <<>> \o <<>> = <<>>
  BY ConcatEmptySeq, EmptySeq
<1>4. Stream(socket' \o transit', written', session', 0)
  BY <1>1, <1>2, <1>3, NothingIsAStream
<1> QED
  BY <1>1, <1>2, <1>4 DEF ReceiveInv, ReceiveTypes, Numbered

LEMMA HandshakeReceives == ReceiveInv /\ HandshakeFinishes => ReceiveInv'
<1> SUFFICES ASSUME ReceiveInv, HandshakeFinishes PROVE ReceiveInv'
  OBVIOUS
<1>1. /\ link = "handshake" /\ link' = "up" /\ serverNonce' = serverNonce + 1 /\ buffer' = <<>>
      /\ UNCHANGED <<session, written, transit, socket, reading, handled, quit>>
  BY DEF HandshakeFinishes
<1>2. /\ handled = <<>> /\ ~reading /\ serverNonce = 2
      /\ Stream(socket \o transit, written, session, 0)
      /\ socket \in Seq(Byte) /\ transit \in Seq(Byte)
  BY <1>1 DEF ReceiveInv, ReceiveTypes
<1>3. <<>> \o (socket \o transit) = socket \o transit /\ <<>> \in Seq(Byte)
  BY <1>2, ConcatProperties, ConcatEmptySeq
<1>4. Len(handled) = 0
  BY <1>2
<1>5. Stream(buffer' \o (socket' \o transit'), written', session', Len(handled'))
  BY <1>1, <1>2, <1>3, <1>4
<1>6. serverNonce' = Len(handled') + 3
  BY <1>1, <1>2, <1>4
<1> QED
  BY <1>1, <1>2, <1>3, <1>5, <1>6 DEF ReceiveInv, ReceiveTypes, Numbered

LEMMA ConnectionLostReceives == ReceiveInv /\ ConnectionLost => ReceiveInv'
<1> SUFFICES ASSUME ReceiveInv, ConnectionLost PROVE ReceiveInv'
  OBVIOUS
<1>1. /\ ~reading /\ link' = "down" /\ transit' = <<>> /\ written' = <<>> /\ handled' = <<>>
      /\ UNCHANGED <<session, serverNonce, socket, buffer, reading, quit>>
  BY DEF ConnectionLost
<1>2. \A S : <<>> \in Seq(S)
  OBVIOUS
<1>3. Len(<<>>) = 0
  OBVIOUS
<1> QED
  BY <1>1, <1>2, <1>3 DEF ReceiveInv, ReceiveTypes, Numbered

LEMMA ServerWritesReceives == ReceiveInv /\ ServerWrites => ReceiveInv'
<1> SUFFICES ASSUME ReceiveInv, ServerWrites PROVE ReceiveInv'
  OBVIOUS
<1>1. PICK kind \in Kinds :
         /\ written' = Append(written, [nonce |-> Len(written) + 3, kind |-> kind])
         /\ transit' = transit \o Bytes(kind, Len(written) + 3)
  BY DEF ServerWrites
<1>2. /\ link \in {"handshake", "up"}
      /\ UNCHANGED <<session, link, serverNonce, socket, buffer, reading, handled, quit>>
  BY DEF ServerWrites
<1>3. /\ session \in Nat /\ written \in Seq(ServerPacket) /\ handled \in Seq(ServerPacket)
      /\ transit \in Seq(Byte) /\ socket \in Seq(Byte) /\ buffer \in Seq(Byte)
      /\ Len(handled) <= Len(written) /\ Len(written) \in Nat /\ Len(handled) \in Nat
  BY LenProperties DEF ReceiveInv, ReceiveTypes
<1> DEFINE p == [nonce |-> Len(written) + 3, kind |-> kind]
           b == Bytes(kind, Len(written) + 3)
<1>4. p \in ServerPacket /\ p.nonce = Len(written) + 3 /\ p.kind = kind
  BY <1>3 DEF ServerPacket
<1>5. /\ b \in Seq(Byte) /\ Len(b) = PacketSize(p)
      /\ \A i \in 1..PacketSize(p) : b[i] = ByteOf(session, p.kind, p.nonce, i)
  <2>1. Len(written) + 3 \in Nat
    BY <1>3
  <2> QED
    BY <2>1, <1>3, <1>4, BytesAreOfPacket DEF PacketSize
<1>6. written' = Append(written, p) /\ transit' = transit \o b
  BY <1>1
<1> HIDE DEF p, b
<1>7. /\ written' \in Seq(ServerPacket) /\ Len(written') = Len(written) + 1
      /\ \A i \in 1..Len(written) : written'[i] = written[i]
      /\ written'[Len(written) + 1] = p
  BY <1>3, <1>4, <1>6, AppendProperties
<1>8. transit' \in Seq(Byte) /\ socket \o transit \in Seq(Byte)
      /\ socket \o transit' = (socket \o transit) \o b
      /\ buffer \o (socket \o transit) \in Seq(Byte)
      /\ buffer \o ((socket \o transit) \o b) = (buffer \o (socket \o transit)) \o b
  <2>1. transit' \in Seq(Byte) /\ socket \o transit \in Seq(Byte)
    BY <1>3, <1>5, <1>6, ConcatProperties
  <2>2. socket \o (transit \o b) = (socket \o transit) \o b
    BY <1>3, <1>5, BytesAssociate, ZenonT(30)
  <2>3. buffer \o (socket \o transit) \in Seq(Byte)
    BY <2>1, <1>3, ConcatProperties
  <2>5. buffer \o ((socket \o transit) \o b) = (buffer \o (socket \o transit)) \o b
    BY <2>1, <1>3, <1>5, BytesAssociate, ZenonT(30)
  <2> QED
    BY <2>1, <2>2, <2>3, <2>5, <1>6
<1>9. Numbered(written')
  <2> SUFFICES ASSUME NEW n \in 1..Len(written) + 1 PROVE written'[n].nonce = n + 2
    BY <1>7 DEF Numbered
  <2>1. CASE n = Len(written) + 1
    <3>1. (Len(written) + 1) + 2 = Len(written) + 3
      BY <1>3
    <3> QED
      BY <2>1, <3>1, <1>4, <1>7
  <2>2. CASE n # Len(written) + 1
    <3>1. n \in 1..Len(written)
      BY <2>2, <1>3
    <3>2. written[n].nonce = n + 2
      BY <3>1 DEF ReceiveInv, Numbered
    <3> QED
      BY <3>1, <3>2, <1>7
  <2> QED
    BY <2>1, <2>2
<1>10. ASSUME NEW t \in Seq(Byte), NEW h \in 0..Len(written), Stream(t, written, session, h)
       PROVE  Stream(t \o b, written', session, h)
  BY <1>3, <1>4, <1>5, <1>6, <1>10, StreamGrows
<1>11. ASSUME link = "handshake" PROVE Stream(socket' \o transit', written', session', 0)
  <2>1. Stream(socket \o transit, written, session, 0) /\ 0 \in 0..Len(written)
    BY <1>3, <1>11 DEF ReceiveInv
  <2>2. Stream((socket \o transit) \o b, written', session, 0)
    BY <2>1, <1>8, <1>10
  <2> QED
    BY <2>2, <1>2, <1>8
<1>12. ASSUME link = "up"
       PROVE  Stream(buffer' \o (socket' \o transit'), written', session', Len(handled'))
  <2>1. /\ Stream(buffer \o (socket \o transit), written, session, Len(handled))
        /\ Len(handled) \in 0..Len(written)
    BY <1>3, <1>12 DEF ReceiveInv
  <2>2. Stream((buffer \o (socket \o transit)) \o b, written', session, Len(handled))
    BY <2>1, <1>8, <1>10
  <2> QED
    BY <2>2, <1>2, <1>8
<1>13. Len(handled') <= Len(written') /\ \A i \in 1..Len(handled') : handled'[i] = written'[i]
  <2>1. \A i \in 1..Len(handled) : i \in 1..Len(written) /\ handled[i] = written[i]
    BY <1>3 DEF ReceiveInv
  <2> QED
    BY <2>1, <1>2, <1>3, <1>7
<1>14. ReceiveTypes'
  BY <1>2, <1>7, <1>8 DEF ReceiveInv, ReceiveTypes
<1>15. reading' => Complete(buffer')
  BY <1>2 DEF ReceiveInv, Complete, PacketLength
<1> QED
  BY <1>2, <1>9, <1>11, <1>12, <1>13, <1>14, <1>15 DEF ReceiveInv

LEMMA ArriveReceives == ReceiveInv /\ Arrive => ReceiveInv'
<1> SUFFICES ASSUME ReceiveInv, Arrive PROVE ReceiveInv'
  OBVIOUS
<1>1. PICK n \in 1..Len(transit) :
         /\ socket' = socket \o SubSeq(transit, 1, n)
         /\ transit' = SubSeq(transit, n + 1, Len(transit))
  BY DEF Arrive
<1>2. /\ link \in {"handshake", "up"} /\ ~reading
      /\ UNCHANGED <<session, link, serverNonce, written, buffer, reading, handled, quit>>
  BY DEF Arrive
<1>3. /\ transit \in Seq(Byte) /\ socket \in Seq(Byte) /\ Len(transit) \in Nat
      /\ \A i \in 1..Len(transit) : transit[i] \in Byte
  BY LenProperties, ElementOfSeq DEF ReceiveInv, ReceiveTypes
<1> DEFINE a == SubSeq(transit, 1, n)
           c == SubSeq(transit, n + 1, Len(transit))
<1>4. a \in Seq(Byte)
  <2>1. \A i \in 1..n : transit[i] \in Byte
    BY <1>3
  <2> QED
    BY <2>1, SubSeqProperties
<1>5. c \in Seq(Byte)
  <2>1. \A i \in n + 1..Len(transit) : transit[i] \in Byte
    BY <1>3
  <2>2. n + 1 \in Int /\ Len(transit) \in Int
    BY <1>3
  <2> QED
    BY <2>1, <2>2, SubSeqProperties
<1>6. a \o c = transit
  <2>1. 1 \in 1..Len(transit) + 1 /\ n \in 1 - 1..Len(transit) /\ Len(transit) \in n..Len(transit)
    BY <1>3
  <2>2. a \o c = SubSeq(transit, 1, Len(transit))
    BY <2>1, <1>3, ConcatAdjacentSubSeq
  <2> QED
    BY <2>2, <1>3, SubSeqFull
<1> HIDE DEF a, c
<1>7. socket' = socket \o a /\ transit' = c
  BY <1>1 DEF a, c
<1>8. socket' \in Seq(Byte) /\ transit' \in Seq(Byte)
  BY <1>3, <1>4, <1>5, <1>7, ConcatProperties
<1>9. socket' \o transit' = socket \o transit
  <2>1. (socket \o a) \o c = socket \o (a \o c)
    BY <1>3, <1>4, <1>5, BytesAssociate, ZenonT(30)
  <2> QED
    BY <2>1, <1>6, <1>7
<1> QED
  BY <1>2, <1>8, <1>9 DEF ReceiveInv, ReceiveTypes, Numbered

LEMMA OnReadyReadReceives == ReceiveInv /\ OnReadyRead => ReceiveInv'
<1> SUFFICES ASSUME ReceiveInv, OnReadyRead PROVE ReceiveInv'
  OBVIOUS
<1>1. CASE link # "up"
  BY <1>1, ReceiveStutters DEF OnReadyRead, receiveVars, incoming
<1>2. CASE link = "up"
  <2>1. /\ buffer' = buffer \o socket /\ socket' = <<>> /\ reading' = Complete(buffer')
        /\ UNCHANGED <<session, link, serverNonce, written, transit, handled, quit>>
    BY <1>2 DEF OnReadyRead
  <2>2. /\ transit \in Seq(Byte) /\ socket \in Seq(Byte) /\ buffer \in Seq(Byte)
    BY DEF ReceiveInv, ReceiveTypes
  <2>3. buffer' \in Seq(Byte) /\ socket' \in Seq(Byte)
    BY <2>1, <2>2, ConcatProperties
  <2>4. <<>> \o transit = transit
    BY <2>2, ConcatEmptySeq
  <2>5. buffer' \o (socket' \o transit') = buffer \o (socket \o transit)
    <3>1. (buffer \o socket) \o transit = buffer \o (socket \o transit)
      BY <2>2, BytesAssociate, ZenonT(30)
    <3> QED
      BY <3>1, <2>1, <2>4
  <2>6. reading' \in BOOLEAN
    BY <2>1 DEF Complete
  <2>7. Stream(buffer' \o (socket' \o transit'), written', session', Len(handled'))
    BY <2>1, <2>5, <1>2 DEF ReceiveInv
  <2> QED
    BY <1>2, <2>1, <2>2, <2>3, <2>6, <2>7 DEF ReceiveInv, ReceiveTypes, Numbered
<1> QED
  BY <1>1, <1>2

(* The packet read is the one the server's counter stands at. *)
LEMMA ReadsTheNext ==
    ASSUME ReceiveInv, key = session, reading, link = "up"
    PROVE  LET n == Len(handled) + 1
           IN  /\ serverNonce - 2 = n /\ n \in 1..Len(written)
               /\ written[n] \in ServerPacket /\ PacketLength(buffer) = PacketSize(written[n])
               /\ Decrypts(SubSeq(buffer, 3, PacketLength(buffer)), serverNonce)
<1> DEFINE n == Len(handled) + 1
           z == PacketSize(written[n])
           p == written[n]
<1>1. /\ session \in Nat /\ written \in Seq(ServerPacket) /\ handled \in Seq(ServerPacket)
      /\ transit \in Seq(Byte) /\ socket \in Seq(Byte) /\ buffer \in Seq(Byte)
      /\ Len(handled) <= Len(written) /\ Len(written) \in Nat /\ Len(handled) \in Nat
      /\ serverNonce = Len(handled) + 3
      /\ Stream(buffer \o (socket \o transit), written, session, Len(handled))
      /\ Complete(buffer)
  BY LenProperties DEF ReceiveInv, ReceiveTypes
<1>2. socket \o transit \in Seq(Byte) /\ Len(handled) \in 0..Len(written)
  BY <1>1, ConcatProperties
<1>3. /\ n \in 1..Len(written)
      /\ PacketLength(buffer) = z /\ z <= Len(buffer)
      /\ \A i \in 1..z : buffer[i] = ByteOf(session, p.kind, Len(handled) + 3, i)
  <2>1. ASSUME NEW r \in Seq(Byte), NEW h \in 0..Len(written), Stream(buffer \o r, written, session, h)
        PROVE  /\ h + 1 \in 1..Len(written)
               /\ PacketLength(buffer) = PacketSize(written[h + 1])
               /\ PacketLength(buffer) <= Len(buffer)
               /\ \A i \in 1..PacketSize(written[h + 1]) :
                     buffer[i] = ByteOf(session, written[h + 1].kind, h + 3, i)
    BY <2>1, <1>1, FirstPacket
  <2>2. /\ n \in 1..Len(written)
        /\ PacketLength(buffer) = PacketSize(written[n])
        /\ PacketLength(buffer) <= Len(buffer)
        /\ \A i \in 1..PacketSize(written[n]) :
              buffer[i] = ByteOf(session, written[n].kind, Len(handled) + 3, i)
    BY <2>1, <1>1, <1>2
  <2> QED
    BY <2>2
<1>4. /\ p \in ServerPacket /\ p.kind \in Kinds /\ p.nonce \in Nat
  <2>1. p \in ServerPacket
    BY <1>1, <1>3, ElementOfSeq
  <2> QED
    BY <2>1 DEF ServerPacket
<1>5. p.nonce = Len(handled) + 3 /\ serverNonce - 2 = n
  <2>1. p.nonce = n + 2
    BY <1>3 DEF ReceiveInv, Numbered
  <2>2. n + 2 = Len(handled) + 3 /\ (Len(handled) + 3) - 2 = n
    BY <1>1
  <2> QED
    BY <2>1, <2>2, <1>1
<1>6. z = 2 + BodySize(p.kind) /\ BodySize(p.kind) \in {1, 2}
  BY <1>4, SizesAreSmall DEF PacketSize
<1> DEFINE b == Bytes(p.kind, p.nonce)
           x == SubSeq(buffer, 3, z)
           y == SubSeq(b, 3, z)
<1>7. /\ b \in Seq(Byte) /\ Len(b) = z
      /\ \A i \in 1..z : b[i] = ByteOf(session, p.kind, p.nonce, i)
  BY <1>1, <1>4, BytesAreOfPacket DEF PacketSize
<1> HIDE DEF b, z, p, n
<1>8. z \in Nat /\ 3 <= z /\ z \in Int /\ 3 \in Int /\ Len(buffer) \in Nat
  BY <1>1, <1>6, LenProperties
<1>9. /\ x \in Seq(Byte) /\ Len(x) = z - 3 + 1
      /\ \A i \in 1..z - 3 + 1 : x[i] = buffer[3 + i - 1]
  <2>1. \A i \in 3..z : buffer[i] \in Byte
    <3> TAKE i \in 3..z
    <3>1. i \in 1..Len(buffer)
      BY <1>3, <1>8
    <3> QED
      BY <3>1, <1>1, ElementOfSeq
  <2> QED
    BY <2>1, <1>8, SubSeqProperties
<1>10. /\ y \in Seq(Byte) /\ Len(y) = z - 3 + 1
       /\ \A i \in 1..z - 3 + 1 : y[i] = b[3 + i - 1]
  <2>1. \A i \in 3..z : b[i] \in Byte
    <3> TAKE i \in 3..z
    <3>1. i \in 1..Len(b)
      BY <1>7, <1>8
    <3> QED
      BY <3>1, <1>7, ElementOfSeq
  <2> QED
    BY <2>1, <1>8, SubSeqProperties
<1> HIDE DEF x, y
<1>11. \A i \in 1..z - 3 + 1 : x[i] = y[i]
  <2> TAKE i \in 1..z - 3 + 1
  <2>1. 3 + i - 1 \in 1..z
    BY <1>8
  <2>2. buffer[3 + i - 1] = b[3 + i - 1]
    BY <2>1, <1>3, <1>5, <1>7
  <2> QED
    BY <2>2, <1>9, <1>10
<1>12. x = y
  BY <1>9, <1>10, <1>11, SeqEqual
<1>13. IsOf(x, p)
  BY <1>6, <1>12 DEF IsOf, y, b
<1>14. Decrypts(x, serverNonce)
  <2>1. n \in DOMAIN written
    BY <1>1, <1>3, LenProperties
  <2>2. written[n].nonce = serverNonce /\ IsOf(x, written[n])
    BY <1>1, <1>5, <1>13 DEF p
  <2> QED
    BY <2>1, <2>2 DEF Decrypts
<1> QED
  BY <1>3, <1>4, <1>5, <1>14 DEF n, z, p, x

(* So it is opened and dispatched.                                         *)
LEMMA ReadPacketDispatches ==
    ASSUME ReceiveInv, key = session, reading, link = "up", ReadPacket
    PROVE  \E packet, outcomes :
              /\ packet = written[Len(handled) + 1] /\ Dispatch(packet, outcomes)
              /\ \A m \in outcomes : m \in Outcomes
<1> DEFINE packet == written[serverNonce - 2]
           body == SubSeq(buffer, 3, PacketLength(buffer))
<1>1. packet = written[Len(handled) + 1] /\ Decrypts(body, serverNonce)
  BY ReadsTheNext
<1>2. \/ Dispatch(packet, {})
      \/ \E m \in Outcomes : IF m.outcome = "throws" THEN Throw ELSE Dispatch(packet, {m})
  BY <1>1 DEF ReadPacket
<1> HIDE DEF packet
<1>3. CASE Dispatch(packet, {})
  BY <1>1, <1>3
<1>4. ASSUME NEW m \in Outcomes, IF m.outcome = "throws" THEN Throw ELSE Dispatch(packet, {m})
      PROVE  Dispatch(packet, {m})
  <2>1. m.outcome # "throws"
    BY MessagesOpen DEF OpenedOutcomes
  <2> QED
    BY <2>1, <1>4
<1>5. ASSUME NEW m \in Outcomes, Dispatch(packet, {m})
      PROVE  \E p, outcomes : /\ p = written[Len(handled) + 1] /\ Dispatch(p, outcomes)
                              /\ \A o \in outcomes : o \in Outcomes
  <2>1. \A o \in {m} : o \in Outcomes
    OBVIOUS
  <2> QED
    BY <2>1, <1>1, <1>5
<1> QED
  BY <1>2, <1>3, <1>4, <1>5

LEMMA ReadPacketReceives == ReceiveInv /\ key = session /\ link = "up" /\ ReadPacket => ReceiveInv'
<1> SUFFICES ASSUME ReceiveInv, key = session, link = "up", ReadPacket PROVE ReceiveInv'
  OBVIOUS
<1> DEFINE h == Len(handled)
           r == socket \o transit
           c == SubSeq(buffer, PacketLength(buffer) + 1, Len(buffer))
<1>1. /\ reading /\ buffer' = c
      /\ UNCHANGED <<session, link, written, transit, socket>>
  BY DEF ReadPacket
<1>2. PICK packet, outcomes : packet = written[h + 1] /\ Dispatch(packet, outcomes)
  BY <1>1, ReadPacketDispatches
<1>3. /\ handled' = Append(handled, written[h + 1]) /\ serverNonce' = serverNonce + 1
      /\ reading' = Complete(buffer') /\ quit' = quit
  BY <1>2 DEF Dispatch
<1>4. /\ session \in Nat /\ written \in Seq(ServerPacket) /\ handled \in Seq(ServerPacket)
      /\ transit \in Seq(Byte) /\ socket \in Seq(Byte) /\ buffer \in Seq(Byte)
      /\ h <= Len(written) /\ Len(written) \in Nat /\ h \in Nat
      /\ serverNonce = h + 3 /\ Stream(buffer \o r, written, session, h) /\ Complete(buffer)
  BY <1>1, LenProperties DEF ReceiveInv, ReceiveTypes
<1>5. r \in Seq(Byte) /\ h \in 0..Len(written)
  BY <1>4, ConcatProperties
<1>6. h + 1 \in 1..Len(written) /\ written[h + 1] \in ServerPacket
  BY <1>1, ReadsTheNext
<1> HIDE DEF h, r
<1>7. c \in Seq(Byte) /\ Stream(c \o r, written, session, h + 1)
  BY <1>4, <1>5, StreamShrinks
<1> HIDE DEF c
<1>8. /\ handled' \in Seq(ServerPacket) /\ Len(handled') = h + 1
      /\ \A i \in 1..h : handled'[i] = handled[i]
      /\ handled'[h + 1] = written[h + 1]
  BY <1>3, <1>4, <1>6, AppendProperties DEF h
<1>9. Stream(buffer' \o (socket' \o transit'), written', session', Len(handled'))
  BY <1>1, <1>7, <1>8 DEF r
<1>10. \A i \in 1..Len(handled') : handled'[i] = written'[i]
  <2>1. \A i \in 1..h : handled[i] = written[i]
    BY DEF ReceiveInv, h
  <2>2. \A i \in 1..h + 1 : i \in 1..h \/ i = h + 1
    BY <1>4
  <2> QED
    BY <2>1, <2>2, <1>1, <1>8
<1>11. Len(handled') <= Len(written') /\ serverNonce' = Len(handled') + 3
  BY <1>1, <1>3, <1>4, <1>6, <1>8
<1>12. reading' \in BOOLEAN
  BY <1>3 DEF Complete
<1>13. ReceiveTypes'
  BY <1>1, <1>3, <1>4, <1>7, <1>8, <1>12 DEF ReceiveInv, ReceiveTypes
<1>14. Numbered(written')
  BY <1>1 DEF ReceiveInv, Numbered
<1> QED
  BY <1>1, <1>3, <1>9, <1>10, <1>11, <1>13, <1>14 DEF ReceiveInv

LEMMA StepReceives == SendInv /\ ReceiveInv /\ [Next]_vars => ReceiveInv'
<1> SUFFICES ASSUME SendInv, ReceiveInv, [Next]_vars PROVE ReceiveInv'
  OBVIOUS
<1>1. CASE Enqueue
  BY <1>1, ReceiveStutters DEF Enqueue, receiveVars
<1>2. CASE KeepAliveTimer
  BY <1>2, ReceiveStutters DEF KeepAliveTimer, receiveVars
<1>3. CASE OutgoingTimer
  BY <1>3, ReceiveStutters DEF OutgoingTimer, receiveVars
<1>4. CASE Connect
  BY <1>4, ConnectReceives
<1>5. CASE Authenticate
  BY <1>5, AuthenticateReceives
<1>6. CASE HandshakeFinishes
  BY <1>6, HandshakeReceives
<1>7. CASE ConnectionLost
  BY <1>7, ConnectionLostReceives
<1>8. CASE ServerWrites
  BY <1>8, ServerWritesReceives
<1>9. CASE Arrive
  BY <1>9, ArriveReceives
<1>10. CASE OnReadyRead
  BY <1>10, OnReadyReadReceives
<1>11. CASE ReadPacket
  <2>1. link = "up"
    BY <1>11 DEF ReadPacket, ReceiveInv, ReceiveTypes
  <2>2. key = session
    BY <2>1 DEF SendInv, Phases
  <2> QED
    BY <2>1, <2>2, <1>11, ReadPacketReceives
<1>12. CASE UNCHANGED vars
  BY <1>12, ReceiveStutters DEF vars, receiveVars
<1> QED
  BY <1>1, <1>2, <1>3, <1>4, <1>5, <1>6, <1>7, <1>8, <1>9, <1>10, <1>11, <1>12
  DEF Next, Due

LEMMA AlwaysReceives == Spec => []ReceiveInv
  BY InitReceives, StepReceives, AlwaysSends, PTL DEF Spec

-----------------------------------------------------------------------------
(* What remains of the types.                                              *)

Counters ==
    /\ session <= MaxSessions
    /\ serverNonce \in Nat \ {0} /\ Len(written) <= MaxPackets
    /\ received \subseteq OpenedOutcomes
    /\ wake \in BOOLEAN /\ sender \in BOOLEAN
    /\ keepAlive = (link = "up")
    /\ pings \in 0..1 /\ enqueued \in 0..MaxEnqueued

LEMMA InitCounts == Init => Counters
<1> SUFFICES ASSUME Init PROVE Counters
  OBVIOUS
<1>1. Len(<<>>) = 0
  OBVIOUS
<1> QED
  <2>1. /\ session = 0 /\ serverNonce = 1 /\ written = <<>> /\ received = {}
        /\ wake = FALSE /\ sender = FALSE /\ keepAlive = FALSE /\ link = "down"
        /\ pings = 0 /\ enqueued = 0
    BY DEF Init
  <2>2. session <= MaxSessions /\ Len(written) <= MaxPackets /\ enqueued \in 0..MaxEnqueued
    BY <2>1, <1>1, BoundsAssumption
  <2>3. keepAlive = (link = "up")
    BY <2>1
  <2>4. wake \in BOOLEAN /\ sender \in BOOLEAN
    BY <2>1, Zenon
  <2>5. serverNonce \in Nat \ {0} /\ pings \in 0..1 /\ received \subseteq OpenedOutcomes
    BY <2>1
  <2> QED
    BY <2>2, <2>3, <2>4, <2>5 DEF Counters

(* What leaves the receiving part alone but for a message opened.          *)
LEMMA EncryptingCounts ==
    ASSUME Counters, NEW kinds, EncryptAndSend(kinds)
    PROVE  sender' \in BOOLEAN
  BY DEF Counters, EncryptAndSend

LEMMA ReadPacketCounts ==
    ASSUME ReceiveInv, Counters, key = session, link = "up", ReadPacket
    PROVE  Counters'
<1>1. /\ reading /\ UNCHANGED <<session, link, written, wake, keepAlive, pings, enqueued>>
  BY DEF ReadPacket
<1>2. PICK packet, outcomes : Dispatch(packet, outcomes) /\ \A m \in outcomes : m \in Outcomes
  BY <1>1, ReadPacketDispatches
<1>3. /\ received' = outcomes /\ serverNonce' = serverNonce + 1
      /\ sender' \in BOOLEAN
  <2>1. CASE packet.kind = "request"
    BY <2>1, <1>2, EncryptingCounts DEF Dispatch
  <2>2. CASE packet.kind # "request"
    BY <2>2, <1>2 DEF Dispatch, Counters
  <2> QED
    BY <2>1, <2>2, <1>2 DEF Dispatch
<1>4. \A m \in Outcomes : m \in OpenedOutcomes
  BY MessagesOpen
<1>5. received' \subseteq OpenedOutcomes
  BY <1>2, <1>3, <1>4
<1> QED
  BY <1>1, <1>3, <1>5 DEF Counters

LEMMA StepCounts == SendInv /\ ReceiveInv /\ Counters /\ [Next]_vars => Counters'
<1> SUFFICES ASSUME SendInv, ReceiveInv, Counters, [Next]_vars PROVE Counters'
  OBVIOUS
<1> USE DEF Counters
<1>0. MaxEnqueued \in Nat /\ MaxSessions \in Nat /\ session \in Nat
      /\ written \in Seq(ServerPacket) /\ Len(written) \in Nat
  BY BoundsAssumption, LenProperties DEF ReceiveInv, ReceiveTypes
<1>1. CASE Enqueue
  <2>1. sender' \in BOOLEAN
    BY <1>1, EncryptingCounts DEF Enqueue
  <2> QED
    BY <2>1, <1>0, <1>1 DEF Enqueue, incoming
<1>2. CASE KeepAliveTimer
  <2>1. sender' \in BOOLEAN
    BY <1>2, EncryptingCounts DEF KeepAliveTimer
  <2>2. /\ pings' = 1 /\ received' = {}
        /\ UNCHANGED <<session, link, serverNonce, written, wake, keepAlive, enqueued>>
    BY <1>2 DEF KeepAliveTimer, incoming
  <2> QED
    BY <2>1, <2>2
<1>3. CASE OutgoingTimer
  BY <1>3 DEF OutgoingTimer, incoming
<1>4. CASE Connect
  <2>1. session' <= MaxSessions
    BY <1>0, <1>4 DEF Connect
  <2> QED
    BY <2>1, <1>4 DEF Connect, ours
<1>5. CASE Authenticate
  BY <1>5 DEF Authenticate, incoming
<1>6. CASE HandshakeFinishes
  <2>1. /\ link' = "up" /\ keepAlive' = TRUE /\ serverNonce' = serverNonce + 1
        /\ wake' = (wake \/ socket # <<>>) /\ received' = {}
        /\ UNCHANGED <<session, written, sender, pings, enqueued>>
    BY <1>6 DEF HandshakeFinishes, ours
  <2>2. wake' \in BOOLEAN /\ serverNonce' \in Nat \ {0}
    BY <2>1
  <2> QED
    BY <2>1, <2>2
<1>7. CASE ConnectionLost
  <2>1. Len(written') <= MaxPackets
    BY <1>7, BoundsAssumption DEF ConnectionLost
  <2>2. /\ link' = "down" /\ keepAlive' = FALSE /\ sender' = FALSE /\ pings' = 0
        /\ received' = {} /\ UNCHANGED <<session, serverNonce, wake, enqueued>>
    BY <1>7 DEF ConnectionLost
  <2>3. keepAlive' = (link' = "up")
    BY <2>2
  <2>4. sender' \in BOOLEAN
    BY <2>2
  <2>5. pings' \in 0..1 /\ received' \subseteq OpenedOutcomes
    BY <2>2
  <2> QED
    BY <2>1, <2>2, <2>3, <2>4, <2>5
<1>8. CASE ServerWrites
  <2>1. PICK p : written' = Append(written, p) /\ p \in ServerPacket
    <3>1. PICK kind \in Kinds :
             written' = Append(written, [nonce |-> Len(written) + 3, kind |-> kind])
      BY <1>8 DEF ServerWrites
    <3>2. [nonce |-> Len(written) + 3, kind |-> kind] \in ServerPacket
      BY <1>0 DEF ServerPacket
    <3> QED
      BY <3>1, <3>2
  <2>2. Len(written') = Len(written) + 1 /\ Len(written) < MaxPackets
    BY <2>1, <1>0, <1>8, AppendProperties DEF ServerWrites
  <2>3. Len(written') <= MaxPackets
    BY <2>2, <1>0, BoundsAssumption
  <2> QED
    BY <2>3, <1>8 DEF ServerWrites, ours
<1>9. CASE Arrive
  BY <1>9 DEF Arrive, ours
<1>10. CASE OnReadyRead
  BY <1>10 DEF OnReadyRead, ours
<1>11. CASE ReadPacket
  <2>1. link = "up"
    BY <1>11 DEF ReadPacket, ReceiveInv, ReceiveTypes
  <2>2. key = session
    BY <2>1 DEF SendInv, Phases
  <2> QED
    BY <2>1, <2>2, <1>11, ReadPacketCounts
<1>12. CASE UNCHANGED vars
  BY <1>12 DEF vars, incoming, ours
<1> QED
  BY <1>1, <1>2, <1>3, <1>4, <1>5, <1>6, <1>7, <1>8, <1>9, <1>10, <1>11, <1>12
  DEF Next, Due

LEMMA AlwaysCounts == Spec => []Counters
  BY InitCounts, StepCounts, AlwaysSends, AlwaysReceives, PTL DEF Spec

(* A first part of a sequence of theirs has the elements of the sequence.  *)
LEMMA IsFirstPart ==
    ASSUME NEW S, NEW s \in Seq(S), NEW t \in Seq(S), Len(s) <= Len(t),
           \A i \in 1..Len(s) : s[i] = t[i]
    PROVE  IsPrefix(s, t)
<1> DEFINE n == Len(s)
           a == SubSeq(t, 1, n)
<1>1. n \in Nat /\ Len(t) \in Nat /\ \A i \in 1..n : t[i] \in S
  <2>1. n \in Nat /\ Len(t) \in Nat
    BY LenProperties
  <2> QED
    BY <2>1, ElementOfSeq
<1>2. a \in Seq(S) /\ Len(a) = (IF 1 <= n THEN n - 1 + 1 ELSE 0)
      /\ \A i \in 1..n - 1 + 1 : a[i] = t[1 + i - 1]
  BY <1>1, SubSeqProperties
<1> HIDE DEF a
<1>3. Len(a) = n
  BY <1>1, <1>2
<1>4. \A i \in 1..n : s[i] = a[i]
  BY <1>1, <1>2
<1>5. s = a
  BY <1>3, <1>4, <1>2, SeqEqual
<1>6. SubSeq(s, 1, Len(s)) = s
  BY SubSeqFull
<1> QED
  BY <1>5, <1>6 DEF IsPrefix, a

LEMMA TypesFollow == SendInv /\ ReceiveInv /\ Counters => TypeOK
<1> SUFFICES ASSUME SendInv, ReceiveInv, Counters PROVE TypeOK
  OBVIOUS
<1>1. /\ outgoing \in Seq(Packet) /\ wire \in Seq(Packet)
      /\ DOMAIN outgoing = 1..Len(outgoing) /\ DOMAIN wire = 1..Len(wire)
      /\ Len(outgoing) \in Nat /\ Len(wire) \in Nat
  BY LenProperties DEF SendInv, SendTypes
<1>2. /\ \A i \in DOMAIN outgoing : outgoing[i].nonce < clientNonce
      /\ \A i \in DOMAIN wire : wire[i].key <= key
  <2>1. CASE wire = <<>>
    <3>1. Len(wire) = 0
      BY <2>1
    <3> QED
      BY <2>1, <3>1, <1>1 DEF SendInv, Waiting
  <2>2. CASE wire # <<>>
    <3> DEFINE s == wire \o outgoing
    <3>1. Running(s, clientNonce, key)
      BY <2>2 DEF SendInv
    <3>2. /\ Len(s) = Len(wire) + Len(outgoing)
          /\ \A i \in 1..Len(wire) + Len(outgoing) :
                s[i] = IF i <= Len(wire) THEN wire[i] ELSE outgoing[i - Len(wire)]
      BY <1>1, ConcatProperties
    <3> HIDE DEF s
    <3>3. \A i \in 1..Len(s) : s[i].nonce < clientNonce /\ s[i].key <= key
      BY <3>1 DEF Running
    <3>4. \A i \in 1..Len(wire) : i \in 1..Len(s) /\ s[i] = wire[i]
      BY <1>1, <3>2
    <3>5. \A i \in 1..Len(outgoing) : Len(wire) + i \in 1..Len(s) /\ s[Len(wire) + i] = outgoing[i]
      <4> TAKE i \in 1..Len(outgoing)
      <4>1. /\ Len(wire) + i \in 1..Len(wire) + Len(outgoing)
            /\ ~(Len(wire) + i <= Len(wire)) /\ (Len(wire) + i) - Len(wire) = i
        BY <1>1
      <4> QED
        BY <4>1, <3>2
    <3> QED
      BY <1>1, <3>3, <3>4, <3>5
  <2> QED
    BY <2>1, <2>2
<1>3. session \in 0..MaxSessions
  BY BoundsAssumption DEF Counters, ReceiveInv, ReceiveTypes
<1>4. reading => link = "up"
  BY DEF ReceiveInv, ReceiveTypes
<1>5. reading \in BOOLEAN /\ quit \in BOOLEAN /\ keepAlive \in BOOLEAN
  <2>1. reading \in BOOLEAN /\ quit = FALSE
    BY DEF ReceiveInv, ReceiveTypes
  <2>2. keepAlive = (link = "up")
    BY DEF Counters
  <2> QED
    BY <2>1, <2>2
<1> QED
  BY <1>2, <1>3, <1>4, <1>5 DEF TypeOK, SendInv, SendTypes, Counters, OpenedOutcomes

(* The packets the server writes are handled in order and once each, and   *)
(* each of them opens, so that no exception ends the program: in whatever  *)
(* pieces the bytes arrive, and with whatever is left of earlier sessions  *)
(* (ProtocolClient::socketOnReadyRead, FullCryptoBox::decryptFromServer,   *)
(* MessageFlags, MessageWithEncryptedPayload).                             *)
THEOREM PacketsAlwaysInOrder == Spec => []InOrderOnce
<1>1. SendInv /\ ReceiveInv /\ Counters => InOrderOnce
  <2> SUFFICES ASSUME SendInv, ReceiveInv, Counters PROVE InOrderOnce
    OBVIOUS
  <2>1. IsPrefix(handled, written)
    BY IsFirstPart DEF ReceiveInv, ReceiveTypes
  <2> QED
    BY <2>1, TypesFollow DEF InOrderOnce, ReceiveInv, ReceiveTypes
<1> QED
  BY <1>1, AlwaysSends, AlwaysReceives, AlwaysCounts, PTL

(* Whatever a message is, whatever the uninitialised flag holds and        *)
(* however much padding is drawn, it is read as it was meant: each class   *)
(* finds what it wrote, and the header, the flags and the owner of the     *)
(* group with it.  Only a group's photo, whose reader is off by eight      *)
(* bytes, is never understood (the classes' toPacketPayload and            *)
(* fromPacketPayload, MessageFlags, MessageWithEncryptedPayload,           *)
(* ProtocolClient::handleIncomingMessage).                                 *)
THEOREM MessagesAlwaysReadAsWritten == Spec => []ReadAsWritten
<1>1. Counters => ReadAsWritten
  <2> SUFFICES ASSUME Counters PROVE ReadAsWritten
    OBVIOUS
  <2>1. ASSUME NEW m \in received
        PROVE  \/ m.outcome = "as meant" /\ m.class = "any"
               \/ m.outcome = "dropped" /\ m.class = "GroupSetPhoto"
    BY DEF Counters, OpenedOutcomes
  <2> QED
    BY <2>1 DEF ReadAsWritten
<1> QED
  BY <1>1, AlwaysCounts, PTL
=============================================================================
