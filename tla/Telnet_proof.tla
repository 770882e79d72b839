---------------------------- MODULE Telnet_proof ----------------------------
(***************************************************************************)
(* Both ends of a telnet connection agree on the options, whatever crosses *)
(* whatever: proofs about Telnet for all values of its constants.          *)
(*                                                                         *)
(* The argument goes option by option and side by side.  Of all that is on *)
(* its way only few commands are about one side of one option; with the    *)
(* two states they make one of twenty situations (Corresponds).  What is   *)
(* on its way to Tera Term is bytes: a run of the parser over them, from   *)
(* where it stands to its rest, says which bytes are which commands.       *)
(***************************************************************************)
EXTENDS Telnet, SequenceTheorems, TLAPS

(* What the elements yes and no of q spell, in their order: as much as     *)
(* there ever is.                                                          *)
Only(q, S, yes, no) == \A k \in 1 .. Len(q) : k \in S <=> q[k] \in {yes, no}

Word(q, yes, no, w) ==
    \/ w = "" /\ Only(q, {}, yes, no)
    \/ w = "y" /\ \E i \in 1 .. Len(q) : Only(q, {i}, yes, no) /\ q[i] = yes
    \/ w = "n" /\ \E i \in 1 .. Len(q) : Only(q, {i}, yes, no) /\ q[i] = no
    \/ w = "yn" /\ \E i, j \in 1 .. Len(q) :
            i < j /\ Only(q, {i, j}, yes, no) /\ q[i] = yes /\ q[j] = no
    \/ w = "ny" /\ \E i, j \in 1 .. Len(q) :
            i < j /\ Only(q, {i, j}, yes, no) /\ q[i] = no /\ q[j] = yes

(* The word that follows when one more is sent, and when the first is read. *)
Longer(w, answer) ==
    CASE answer = "" -> w
      [] answer = "yes" -> IF w = "" THEN "y" ELSE "ny"
      [] answer = "no" -> IF w = "" THEN "n" ELSE "yn"

(* An empty sequence spells nothing.                                       *)
LEMMA WordEmpty ==
    ASSUME NEW yes, NEW no, NEW w
    PROVE  /\ Word(<< >>, yes, no, "")
           /\ Word(<< >>, yes, no, w) => w = ""
<1>1. 1 .. Len(<< >>) = {}
  OBVIOUS
<1>2. Only(<< >>, {}, yes, no)
  BY <1>1 DEF Only
<1>3. QED
  BY <1>1, <1>2 DEF Word

(* What is no word of this side changes nothing.                           *)
LEMMA WordSilent ==
    ASSUME NEW B, NEW q \in Seq(B), NEW u \in Seq(B), NEW yes, NEW no, NEW w,
           Word(q, yes, no, w), \A k \in 1 .. Len(u) : u[k] \notin {yes, no}
    PROVE  Word(q \o u, yes, no, w)
<1> DEFINE r == q \o u
<1>1. /\ Len(q) \in Nat /\ Len(r) \in Nat /\ Len(q) <= Len(r)
      /\ \A k \in 1 .. Len(q) : r[k] = q[k]
      /\ \A k \in 1 .. Len(r) : k \notin 1 .. Len(q) => r[k] \notin {yes, no}
  <2>1. \A k \in 1 .. Len(r) : k \notin 1 .. Len(q) => k - Len(q) \in 1 .. Len(u) /\ r[k] = u[k - Len(q)]
    OBVIOUS
  <2>2. QED
    BY <2>1
<1> SUFFICES Word(r, yes, no, w)
  OBVIOUS
<1> HIDE DEF r
<1>2. ASSUME NEW S, S \subseteq 1 .. Len(q), Only(q, S, yes, no)
      PROVE  Only(r, S, yes, no)
  BY <1>1, <1>2 DEF Only
<1>3. CASE w = "" /\ Only(q, {}, yes, no)
  BY <1>2, <1>3 DEF Word
<1>4. \A i \in 1 .. Len(q) : i \in 1 .. Len(r) /\ r[i] = q[i]
  BY <1>1
<1>5. /\ \A i \in 1 .. Len(q) : Only(q, {i}, yes, no) => Only(r, {i}, yes, no)
      /\ \A i, j \in 1 .. Len(q) : Only(q, {i, j}, yes, no) => Only(r, {i, j}, yes, no)
  <2>1. ASSUME NEW i \in 1 .. Len(q), NEW j \in 1 .. Len(q)
        PROVE  {i} \subseteq 1 .. Len(q) /\ {i, j} \subseteq 1 .. Len(q)
    OBVIOUS
  <2>2. QED
    BY Zenon, <1>2, <2>1
<1>6. CASE w = "y" \/ w = "n"
  <2>1. PICK i \in 1 .. Len(q) :
           /\ Only(q, {i}, yes, no)
           /\ w = "y" => q[i] = yes
           /\ w = "n" => q[i] = no
    BY Zenon, <1>6 DEF Word
  <2>2. i \in 1 .. Len(r) /\ Only(r, {i}, yes, no) /\ r[i] = q[i]
    BY <1>4, <1>5, <2>1
  <2>3. CASE w = "y"
    BY Zenon, <2>1, <2>2, <2>3 DEF Word
  <2>4. CASE w = "n"
    BY Zenon, <2>1, <2>2, <2>4 DEF Word
  <2>5. QED
    BY Zenon, <1>6, <2>3, <2>4
<1>7. CASE w = "yn" \/ w = "ny"
  <2>1. PICK i \in 1 .. Len(q), j \in 1 .. Len(q) :
           /\ i < j /\ Only(q, {i, j}, yes, no)
           /\ w = "yn" => q[i] = yes /\ q[j] = no
           /\ w = "ny" => q[i] = no /\ q[j] = yes
    BY Zenon, <1>7 DEF Word
  <2>2. /\ i \in 1 .. Len(r) /\ r[i] = q[i] /\ j \in 1 .. Len(r) /\ r[j] = q[j]
        /\ Only(r, {i, j}, yes, no)
    BY Zenon, <1>4, <1>5, <2>1
  <2>3. CASE w = "yn"
    BY Zenon, <2>1, <2>2, <2>3 DEF Word
  <2>4. CASE w = "ny"
    BY Zenon, <2>1, <2>2, <2>4 DEF Word
  <2>5. QED
    BY Zenon, <1>7, <2>3, <2>4
<1>8. QED
  BY Zenon, <1>3, <1>6, <1>7 DEF Word

(* One more word: an answer yes goes behind nothing or behind a no.        *)
LEMMA WordAppend ==
    ASSUME NEW B, NEW q \in Seq(B), NEW e \in B, NEW yes, NEW no, yes # no,
           NEW w, Word(q, yes, no, w)
    PROVE  /\ e = yes /\ w = "" => Word(Append(q, e), yes, no, "y")
           /\ e = yes /\ w = "n" => Word(Append(q, e), yes, no, "ny")
           /\ e = no /\ w = "" => Word(Append(q, e), yes, no, "n")
           /\ e = no /\ w = "y" => Word(Append(q, e), yes, no, "yn")
<1> DEFINE r == Append(q, e)
           n == Len(q) + 1
<1>1. /\ Len(q) \in Nat /\ Len(r) = n /\ r[n] = e
      /\ \A k \in 1 .. Len(q) : r[k] = q[k]
  OBVIOUS
<1> SUFFICES /\ e = yes /\ w = "" => Word(r, yes, no, "y")
             /\ e = yes /\ w = "n" => Word(r, yes, no, "ny")
             /\ e = no /\ w = "" => Word(r, yes, no, "n")
             /\ e = no /\ w = "y" => Word(r, yes, no, "yn")
  OBVIOUS
<1> HIDE DEF r
<1>2. /\ n \in 1 .. Len(r)
      /\ \A i \in 1 .. Len(q) : i \in 1 .. Len(r) /\ i < n /\ r[i] = q[i]
  BY <1>1
<1>3. CASE w = "" /\ e \in {yes, no}
  <2>1. Only(q, {}, yes, no)
    BY <1>3 DEF Word
  <2>2. Only(r, {n}, yes, no)
    <3>1. ASSUME NEW k \in 1 .. Len(r)
          PROVE  k \in {n} <=> r[k] \in {yes, no}
      <4>1. CASE k = n
        BY <1>1, <1>3, <4>1
      <4>2. CASE k # n
        <5>1. k \in 1 .. Len(q) /\ r[k] = q[k]
          BY <1>1, <4>2
        <5>2. QED
          BY <2>1, <4>2, <5>1 DEF Only
      <4>3. QED
        BY <4>1, <4>2
    <3>2. QED
      BY <3>1 DEF Only
  <2> HIDE DEF n
  <2>3. QED
    BY <1>1, <1>2, <1>3, <2>2 DEF Word
<1>4. CASE (w = "y" /\ e = no) \/ (w = "n" /\ e = yes)
  <2>1. PICK i \in 1 .. Len(q) :
           /\ Only(q, {i}, yes, no)
           /\ w = "y" => q[i] = yes
           /\ w = "n" => q[i] = no
    BY Zenon, <1>4 DEF Word
  <2>2. Only(r, {i, n}, yes, no)
    BY <1>1, <1>4, <2>1 DEF Only
  <2> HIDE DEF n
  <2>3. CASE w = "y" /\ e = no
    <3>1. /\ i \in 1 .. Len(r) /\ n \in 1 .. Len(r) /\ i < n
          /\ r[i] = yes /\ r[n] = no
      BY <1>1, <1>2, <2>1, <2>3
    <3>2. Word(r, yes, no, "yn")
      BY Zenon, <2>2, <3>1 DEF Word
    <3>3. QED
      BY <2>3, <3>2
  <2>4. CASE w = "n" /\ e = yes
    <3>1. /\ i \in 1 .. Len(r) /\ n \in 1 .. Len(r) /\ i < n
          /\ r[i] = no /\ r[n] = yes
      BY <1>1, <1>2, <2>1, <2>4
    <3>2. Word(r, yes, no, "ny")
      BY Zenon, <2>2, <3>1 DEF Word
    <3>3. QED
      BY <2>4, <3>2
  <2>5. QED
    BY <1>4, <2>3, <2>4
<1>5. QED
  BY <1>3, <1>4

(* The first is read: what is no word leaves the rest as it was, a word is *)
(* the first letter of what was spelt.                                     *)
LEMMA WordTail ==
    ASSUME NEW B, NEW q \in Seq(B), q # << >>, NEW yes, NEW no, yes # no,
           NEW w, Word(q, yes, no, w)
    PROVE  /\ q[1] \notin {yes, no} => Word(Tail(q), yes, no, w)
           /\ q[1] = yes => \/ w = "y" /\ Word(Tail(q), yes, no, "")
                            \/ w = "yn" /\ Word(Tail(q), yes, no, "n")
           /\ q[1] = no => \/ w = "n" /\ Word(Tail(q), yes, no, "")
                           \/ w = "ny" /\ Word(Tail(q), yes, no, "y")
<1> DEFINE r == Tail(q)
<1>1. /\ Len(q) \in Nat /\ Len(q) >= 1 /\ Len(r) = Len(q) - 1
      /\ \A k \in 1 .. Len(r) : r[k] = q[k + 1]
  OBVIOUS
<1> SUFFICES /\ q[1] \notin {yes, no} => Word(r, yes, no, w)
             /\ q[1] = yes => \/ w = "y" /\ Word(r, yes, no, "")
                              \/ w = "yn" /\ Word(r, yes, no, "n")
             /\ q[1] = no => \/ w = "n" /\ Word(r, yes, no, "")
                             \/ w = "ny" /\ Word(r, yes, no, "y")
  OBVIOUS
<1> HIDE DEF r
<1>2. CASE w = ""
  <2>1. Only(q, {}, yes, no)
    BY <1>2 DEF Word
  <2>2. q[1] \notin {yes, no} /\ Only(r, {}, yes, no)
    BY <1>1, <2>1 DEF Only
  <2>3. QED
    BY Zenon, <1>2, <2>2 DEF Word
<1>3. CASE w = "y" \/ w = "n"
  <2>1. PICK i \in 1 .. Len(q) :
           /\ Only(q, {i}, yes, no)
           /\ w = "y" => q[i] = yes
           /\ w = "n" => q[i] = no
    BY Zenon, <1>3 DEF Word
  <2>2. CASE i = 1
    <3>1. Only(r, {}, yes, no)
      BY <1>1, <2>1, <2>2 DEF Only
    <3>2. Word(r, yes, no, "")
      BY Zenon, <3>1 DEF Word
    <3>3. QED
      BY <1>3, <2>1, <2>2, <3>2
  <2>3. CASE i # 1
    <3>1. /\ i - 1 \in 1 .. Len(r) /\ r[i - 1] = q[i] /\ q[1] \notin {yes, no}
          /\ Only(r, {i - 1}, yes, no)
      BY <1>1, <2>1, <2>3 DEF Only
    <3>2. Word(r, yes, no, w)
      BY Zenon, <1>3, <2>1, <3>1 DEF Word
    <3>3. QED
      BY <3>1, <3>2
  <2>4. QED
    BY <2>2, <2>3
<1>4. CASE w = "yn" \/ w = "ny"
  <2>1. PICK i \in 1 .. Len(q), j \in 1 .. Len(q) :
           /\ i < j /\ Only(q, {i, j}, yes, no)
           /\ w = "yn" => q[i] = yes /\ q[j] = no
           /\ w = "ny" => q[i] = no /\ q[j] = yes
    BY Zenon, <1>4 DEF Word
  <2>2. j - 1 \in 1 .. Len(r) /\ r[j - 1] = q[j]
    BY <1>1, <2>1
  <2>3. CASE i = 1
    <3>1. Only(r, {j - 1}, yes, no)
      BY <1>1, <2>1, <2>3 DEF Only
    <3>2. Word(r, yes, no, IF w = "yn" THEN "n" ELSE "y")
      BY <1>4, <2>1, <2>2, <3>1 DEF Word
    <3>3. QED
      <4>1. CASE w = "yn"
        BY <2>1, <2>3, <3>2, <4>1
      <4>2. CASE w = "ny"
        BY <2>1, <2>3, <3>2, <4>2
      <4>3. QED
        BY <1>4, <4>1, <4>2
  <2>4. CASE i # 1
    <3>1. /\ i - 1 \in 1 .. Len(r) /\ r[i - 1] = q[i] /\ q[1] \notin {yes, no}
          /\ i - 1 < j - 1 /\ Only(r, {i - 1, j - 1}, yes, no)
      BY <1>1, <2>1, <2>4 DEF Only
    <3>2. Word(r, yes, no, w)
      BY Zenon, <1>4, <2>1, <2>2, <3>1 DEF Word
    <3>3. QED
      BY <3>1, <3>2
  <2>5. QED
    BY <2>3, <2>4
<1>5. QED
  BY <1>2, <1>3, <1>4 DEF Word
-----------------------------------------------------------------------------
(* The situations one side of an option can be in: what Tera Term holds of *)
(* it, what the host holds, what is on its way to the host and to Tera     *)
(* Term.                                                                   *)
Corresponds(status, state, out, in) ==
    \/ status = "No" /\ \/ state = "No" /\ out = "" /\ in = ""
                        \/ state = "WantNo" /\ out = "n" /\ in = ""
                        \/ state = "WantYes" /\ out = "" /\ in = "y"
                        \/ state = "WantYes" /\ out = "n" /\ in = ""
    \/ status = "Yes" /\ \/ state = "Yes" /\ out = "" /\ in = ""
                         \/ state = "WantNo" /\ out = "" /\ in = "n"
                         \/ state = "WantYes" /\ out = "y" /\ in = ""
    \/ status = "WantNo" /\ \/ state = "Yes" /\ out = "n" /\ in = ""
                            \/ state = "No" /\ out = "" /\ in = "n"
                            \/ state = "WantNo" /\ out = "n" /\ in = "n"
                            \/ state = "WantYes" /\ out = "yn" /\ in = ""
                            \/ state = "WantYes" /\ out = "" /\ in = "ny"
    \/ status = "WantYes" /\ \/ state = "No" /\ out = "y" /\ in = ""
                             \/ state = "No" /\ out = "" /\ in = "n"
                             \/ state = "Yes" /\ out = "" /\ in = "y"
                             \/ state = "WantNo" /\ out = "ny" /\ in = ""
                             \/ state = "WantNo" /\ out = "" /\ in = "yn"
                             \/ state = "WantYes" /\ out = "y" /\ in = "y"
                             \/ state = "WantYes" /\ out = "ny" /\ in = ""
                             \/ state = "WantYes" /\ out = "" /\ in = "ny"

(* A wish for the opposite is kept only while an answer is awaited.        *)
Settled(o) == o.Que = "Opposite" => o.Status \in {"WantNo", "WantYes"}

(* What the words of one side are: ask is what Tera Term says of it (DO or *)
(* WILL, DONT or WONT), tell what the host says of it.                     *)
HisWords == [askYes |-> "DO", askNo |-> "DONT", tellYes |-> "WILL", tellNo |-> "WONT"]
MyWords == [askYes |-> "WILL", askNo |-> "WONT", tellYes |-> "DO", tellNo |-> "DONT"]

(* One side of option b, with q on its way to the host and r read so far   *)
(* as bytes on their way to Tera Term.                                     *)
Side(q, r, s, b, o, state) == \E out, in :
    /\ Word(q, << s.askYes, b >>, << s.askNo, b >>, out)
    /\ Word(r, << s.tellYes, b >>, << s.tellNo, b >>, in)
    /\ Corresponds(o.Status, state, out, in)
    /\ Settled(o)

(* Tera Term reads a yes: what is left of it is what it answered.          *)
LEMMA OfferedStep ==
    ASSUME NEW o \in TelOpt, NEW accept \in BOOLEAN, NEW state, NEW out, NEW in,
           NEW rest, Corresponds(o.Status, state, out, in), Settled(o),
           \/ in = "y" /\ rest = ""
           \/ in = "yn" /\ rest = "n"
    PROVE  LET e == Offered(o, accept)
           IN  /\ e.opt \in TelOpt /\ e.answer \in {"", "yes", "no"} /\ Settled(e.opt)
               /\ e.answer = "yes" => out \in {"", "n"}
               /\ e.answer = "no" => out \in {"", "y"}
               /\ Corresponds(e.opt.Status, state, Longer(out, e.answer), rest)
<1> DEFINE e == Offered(o, accept)
<1>1. o.Status \in Status /\ o.Que \in {"Empty", "Opposite"}
  BY DEF TelOpt
<1>2. CASE o.Status = "No"
  <2>1. CASE accept
    BY <1>1, <1>2, <2>1 DEF Offered, To, TelOpt, Status, Settled, Corresponds, Longer
  <2>2. CASE ~accept
    BY <1>1, <1>2, <2>2 DEF Offered, To, TelOpt, Status, Settled, Corresponds, Longer
  <2>3. QED
    BY <2>1, <2>2
<1>3. CASE o.Status = "Yes"
  BY <1>1, <1>3 DEF Offered, To, TelOpt, Status, Settled, Corresponds, Longer
<1>4. CASE o.Status = "WantNo"
  BY <1>1, <1>4 DEF Offered, To, TelOpt, Status, Settled, Corresponds, Longer
<1>5. CASE o.Status = "WantYes"
  BY <1>1, <1>5 DEF Offered, To, TelOpt, Status, Settled, Corresponds, Longer
<1>6. QED
  BY <1>1, <1>2, <1>3, <1>4, <1>5 DEF Status

(* The same for a no.                                                      *)
LEMMA RefusedStep ==
    ASSUME NEW o \in TelOpt, NEW state, NEW out, NEW in,
           NEW rest, Corresponds(o.Status, state, out, in), Settled(o),
           \/ in = "n" /\ rest = ""
           \/ in = "ny" /\ rest = "y"
    PROVE  LET e == Refused(o)
           IN  /\ e.opt \in TelOpt /\ e.answer \in {"", "yes", "no"} /\ Settled(e.opt)
               /\ e.answer = "yes" => out \in {"", "n"}
               /\ e.answer = "no" => out \in {"", "y"}
               /\ Corresponds(e.opt.Status, state, Longer(out, e.answer), rest)
<1>1. o.Status \in Status /\ o.Que \in {"Empty", "Opposite"}
  BY DEF TelOpt
<1>2. CASE o.Status = "No"
  BY <1>1, <1>2 DEF Refused, To, TelOpt, Status, Settled, Corresponds, Longer
<1>3. CASE o.Status = "Yes"
  BY <1>1, <1>3 DEF Refused, To, TelOpt, Status, Settled, Corresponds, Longer
<1>4. CASE o.Status = "WantNo"
  BY <1>1, <1>4 DEF Refused, To, TelOpt, Status, Settled, Corresponds, Longer
<1>5. CASE o.Status = "WantYes"
  BY <1>1, <1>5 DEF Refused, To, TelOpt, Status, Settled, Corresponds, Longer
<1>6. QED
  BY <1>1, <1>2, <1>3, <1>4, <1>5 DEF Status

(* The user wants the option on or off.                                    *)
LEMMA WishedStep ==
    ASSUME NEW o \in TelOpt, NEW state, NEW out, NEW in,
           Corresponds(o.Status, state, out, in), Settled(o),
           NEW e \in {Enabled(o), Disabled(o)}
    PROVE  /\ e.opt \in TelOpt /\ e.answer \in {"", "yes", "no"} /\ Settled(e.opt)
           /\ e.answer = "yes" => out \in {"", "n"}
           /\ e.answer = "no" => out \in {"", "y"}
           /\ Corresponds(e.opt.Status, state, Longer(out, e.answer), in)
<1>1. o.Status \in Status /\ o.Que \in {"Empty", "Opposite"}
  BY DEF TelOpt
<1>2. CASE e = Enabled(o)
  <2>1. CASE o.Status = "No"
    BY <1>1, <1>2, <2>1 DEF Enabled, To, TelOpt, Status, Settled, Corresponds, Longer
  <2>2. CASE o.Status = "Yes"
    BY <1>1, <1>2, <2>2 DEF Enabled, To, TelOpt, Status, Settled, Corresponds, Longer
  <2>3. CASE o.Status = "WantNo"
    BY <1>1, <1>2, <2>3 DEF Enabled, To, TelOpt, Status, Settled, Corresponds, Longer
  <2>4. CASE o.Status = "WantYes"
    BY <1>1, <1>2, <2>4 DEF Enabled, To, TelOpt, Status, Settled, Corresponds, Longer
  <2>5. QED
    BY <1>1, <2>1, <2>2, <2>3, <2>4 DEF Status
<1>3. CASE e = Disabled(o)
  <2>1. CASE o.Status = "No"
    BY <1>1, <1>3, <2>1 DEF Disabled, To, TelOpt, Status, Settled, Corresponds, Longer
  <2>2. CASE o.Status = "Yes"
    BY <1>1, <1>3, <2>2 DEF Disabled, To, TelOpt, Status, Settled, Corresponds, Longer
  <2>3. CASE o.Status = "WantNo"
    BY <1>1, <1>3, <2>3 DEF Disabled, To, TelOpt, Status, Settled, Corresponds, Longer
  <2>4. CASE o.Status = "WantYes"
    BY <1>1, <1>3, <2>4 DEF Disabled, To, TelOpt, Status, Settled, Corresponds, Longer
  <2>5. QED
    BY <1>1, <2>1, <2>2, <2>3, <2>4 DEF Status
<1>4. QED
  BY <1>2, <1>3

(* The host reads a yes, and agrees or does not, or a no.                  *)
LEMMA HostStep ==
    ASSUME NEW status, NEW state, NEW out, NEW in, NEW rest, NEW result,
           Corresponds(status, state, out, in),
           \/ /\ \E agree \in BOOLEAN : result = HostAsked(state, agree)
              /\ (out = "y" /\ rest = "") \/ (out = "yn" /\ rest = "n")
           \/ /\ result = HostTold(state)
              /\ (out = "n" /\ rest = "") \/ (out = "ny" /\ rest = "y")
    PROVE  /\ result[1] \in Status /\ result[2] \in {"", "yes", "no"}
           /\ result[2] = "yes" => in \in {"", "n"}
           /\ result[2] = "no" => in \in {"", "y"}
           /\ Corresponds(status, result[1], rest, Longer(in, result[2]))
<1>1. state \in Status
  BY DEF Corresponds, Status
<1>2. ASSUME NEW agree \in BOOLEAN, result = HostAsked(state, agree),
             (out = "y" /\ rest = "") \/ (out = "yn" /\ rest = "n")
      PROVE  /\ result[1] \in Status /\ result[2] \in {"", "yes", "no"}
             /\ result[2] = "yes" => in \in {"", "n"}
             /\ result[2] = "no" => in \in {"", "y"}
             /\ Corresponds(status, result[1], rest, Longer(in, result[2]))
  <2>1. CASE state \in {"Yes", "WantYes"}
    <3>1. result[1] = "Yes" /\ result[2] = ""
      BY <1>2, <2>1 DEF HostAsked
    <3>2. CASE out = "y" /\ rest = ""
      BY <2>1, <3>1, <3>2 DEF Corresponds, Longer, Status
    <3>3. CASE out = "yn" /\ rest = "n"
      BY <2>1, <3>1, <3>3 DEF Corresponds, Longer, Status
    <3>4. QED
      BY <1>2, <3>2, <3>3
  <2>2. CASE state = "WantNo"
    <3>1. result = << "No", "" >>
      BY <1>2, <2>2 DEF HostAsked
    <3>2. QED
      BY <1>2, <2>2, <3>1 DEF Corresponds, Longer, Status
  <2>3. CASE state = "No"
    <3>1. \/ result[1] = "Yes" /\ result[2] = "yes"
          \/ result[1] = "No" /\ result[2] = "no"
      BY <1>2, <2>3 DEF HostAsked
    <3>2. status = "WantYes" /\ out = "y" /\ in = "" /\ rest = ""
      BY <1>2, <2>3 DEF Corresponds
    <3>3. QED
      BY <2>3, <3>1, <3>2 DEF Corresponds, Longer, Status
  <2>4. QED
    BY <1>1, <2>1, <2>2, <2>3 DEF Status
<1>3. ASSUME result = HostTold(state), (out = "n" /\ rest = "") \/ (out = "ny" /\ rest = "y")
      PROVE  /\ result[1] \in Status /\ result[2] \in {"", "yes", "no"}
             /\ result[2] = "yes" => in \in {"", "n"}
             /\ result[2] = "no" => in \in {"", "y"}
             /\ Corresponds(status, result[1], rest, Longer(in, result[2]))
  <2>1. result[1] = "No" /\ result[2] = IF state = "Yes" THEN "no" ELSE ""
    BY <1>3 DEF HostTold
  <2>2. QED
    BY <1>3, <2>1 DEF Corresponds, Longer, Status
<1>4. QED
  BY <1>2, <1>3

(* The host changes its mind.                                              *)
LEMMA WantsStep ==
    ASSUME NEW status, NEW state, NEW out, NEW in,
           Corresponds(status, state, out, in), state \in {"No", "Yes"}
    PROVE  /\ state = "No" => /\ in \in {"", "n"}
                              /\ Corresponds(status, "WantYes", out, Longer(in, "yes"))
           /\ state = "Yes" => /\ in \in {"", "y"}
                               /\ Corresponds(status, "WantNo", out, Longer(in, "no"))
BY DEF Corresponds, Longer
-----------------------------------------------------------------------------
(* The bytes of a command to Tera Term, each with what the parser waits    *)
(* for when it gets there: the third one is the one that counts.           *)
Command(c, b) == << << "text", "IAC" >>, << "iac", c >>, << c, b >> >>

Answered(answer, yes, no, b) ==
    CASE answer = "yes" -> Command(yes, b)
      [] answer = "no" -> Command(no, b)
      [] answer = "" -> << >>

Sides == {HisWords, MyWords}
Verbs == {"WILL", "WONT", "DO", "DONT"}

(* The words of a side differ, and are verbs.                              *)
LEMMA WordsDiffer ==
    ASSUME NEW s \in Sides
    PROVE  /\ {s.askYes, s.askNo, s.tellYes, s.tellNo} \subseteq Verbs
           /\ s.askYes # s.askNo /\ s.tellYes # s.tellNo
           /\ \A b : << s.askYes, b >> # << s.askNo, b >> /\ << s.tellYes, b >> # << s.tellNo, b >>
BY DEF Sides, Verbs, HisWords, MyWords

(* What Tera Term sends makes its word longer.                             *)
LEMMA WordSent ==
    ASSUME NEW B, NEW q \in Seq(B), NEW y, NEW n, NEW b, << y, b >> # << n, b >>,
           << y, b >> \in B, << n, b >> \in B,
           NEW w, Word(q, << y, b >>, << n, b >>, w),
           NEW answer \in {"", "yes", "no"},
           answer = "yes" => w \in {"", "n"},
           answer = "no" => w \in {"", "y"}
    PROVE  /\ q \o SendBack(answer, y, n, b) \in Seq(B)
           /\ Word(q \o SendBack(answer, y, n, b), << y, b >>, << n, b >>, Longer(w, answer))
<1> DEFINE u == SendBack(answer, y, n, b)
<1>1. CASE answer = ""
  <2>1. u = << >> /\ Longer(w, answer) = w
    BY Zenon, <1>1 DEF SendBack, Longer
  <2>2. q \o << >> = q
    BY ConcatEmptySeq
  <2>3. QED
    BY Zenon, <2>1, <2>2
<1>2. CASE answer = "yes"
  <2> DEFINE e == << y, b >>
  <2>1. u = << e >>
    BY <1>2 DEF SendBack
  <2>2. e \in B
    OBVIOUS
  <2> HIDE DEF e
  <2>3. q \o << e >> = Append(q, e) /\ Append(q, e) \in Seq(B)
    BY <2>2, AppendIsConcat, AppendProperties
  <2>4. /\ w = "" => Word(Append(q, e), << y, b >>, << n, b >>, "y")
        /\ w = "n" => Word(Append(q, e), << y, b >>, << n, b >>, "ny")
    BY WordAppend DEF e
  <2>5. w \in {"", "n"} /\ Longer(w, answer) = IF w = "" THEN "y" ELSE "ny"
    BY <1>2 DEF Longer
  <2>6. Word(Append(q, e), << y, b >>, << n, b >>, Longer(w, answer))
    BY <2>4, <2>5
  <2>7. QED
    BY Zenon, <2>1, <2>3, <2>6
<1>3. CASE answer = "no"
  <2> DEFINE e == << n, b >>
  <2>1. u = << e >>
    BY <1>3 DEF SendBack
  <2>2. e \in B
    OBVIOUS
  <2> HIDE DEF e
  <2>3. q \o << e >> = Append(q, e) /\ Append(q, e) \in Seq(B)
    BY <2>2, AppendIsConcat, AppendProperties
  <2>4. /\ w = "" => Word(Append(q, e), << y, b >>, << n, b >>, "n")
        /\ w = "y" => Word(Append(q, e), << y, b >>, << n, b >>, "yn")
    BY WordAppend DEF e
  <2>5. w \in {"", "y"} /\ Longer(w, answer) = IF w = "" THEN "n" ELSE "yn"
    BY <1>3 DEF Longer
  <2>6. Word(Append(q, e), << y, b >>, << n, b >>, Longer(w, answer))
    BY <2>4, <2>5
  <2>7. QED
    BY Zenon, <2>1, <2>3, <2>6
<1>4. QED
  BY <1>1, <1>2, <1>3

(* All of u but its end, v, leaves the word of r as it was.                *)
Behind(B, r, u, v, yes, no, w) ==
    \E p \in Seq(B) : p \o v = r \o u /\ Word(p, yes, no, w)

(* Two more that are no words, and one behind them.                        *)
LEMMA SilentTwo ==
    ASSUME NEW B, NEW r \in Seq(B), NEW yes, NEW no, NEW w, Word(r, yes, no, w),
           NEW d \in B, NEW f \in B, NEW e \in B, d \notin {yes, no}, f \notin {yes, no},
           NEW u, u = << d, f, e >>, NEW v, v = << e >>
    PROVE  Behind(B, r, u, v, yes, no, w)
<1>1. << d, f >> \in Seq(B) /\ v \in Seq(B)
  OBVIOUS
<1>2. \A k \in 1 .. Len(<< d, f >>) : << d, f >>[k] \notin {yes, no}
  OBVIOUS
<1>3. u = << d, f >> \o v
  OBVIOUS
<1>4. (r \o << d, f >>) \o v = r \o (<< d, f >> \o v)
  BY <1>1, ConcatAssociative
<1>5. r \o << d, f >> \in Seq(B) /\ Word(r \o << d, f >>, yes, no, w)
  BY <1>1, <1>2, WordSilent, ConcatProperties
<1>6. QED
  BY Zenon, <1>3, <1>4, <1>5 DEF Behind

(* B has what commands about option b are made of.                         *)
Spells(B, b) ==
    \A c \in Verbs : << "text", "IAC" >> \in B /\ << "iac", c >> \in B /\ << c, b >> \in B

(* And so does what the host says, whose first two bytes are no words.     *)
LEMMA WordTold ==
    ASSUME NEW B, NEW r \in Seq(B), NEW y \in Verbs, NEW n \in Verbs, y # n, NEW b,
           Spells(B, b),
           NEW w, Word(r, << y, b >>, << n, b >>, w),
           NEW answer \in {"", "yes", "no"},
           answer = "yes" => w \in {"", "n"},
           answer = "no" => w \in {"", "y"}
    PROVE  /\ r \o Answered(answer, y, n, b) \in Seq(B)
           /\ Word(r \o Answered(answer, y, n, b), << y, b >>, << n, b >>, Longer(w, answer))
<1>1. CASE answer = ""
  <2>1. Answered(answer, y, n, b) = << >> /\ Longer(w, answer) = w
    BY Zenon, <1>1 DEF Answered, Longer
  <2>2. r \o << >> = r
    BY ConcatEmptySeq
  <2>3. QED
    BY Zenon, <2>1, <2>2
<1>2. CASE answer # ""
  <2>1. PICK c \in Verbs : /\ Answered(answer, y, n, b) = Command(c, b)
                           /\ SendBack(answer, y, n, b) = << << c, b >> >>
    <3>1. CASE answer = "yes"
      BY Zenon, <3>1 DEF Answered, SendBack
    <3>2. CASE answer = "no"
      BY Zenon, <3>2 DEF Answered, SendBack
    <3>3. QED
      BY <1>2, <3>1, <3>2
  <2>2. PICK d \in B, f \in B, e \in B :
           d = << "text", "IAC" >> /\ f = << "iac", c >> /\ e = << c, b >>
    BY Zenon DEF Spells
  <2>3. d \notin {<< y, b >>, << n, b >>} /\ f \notin {<< y, b >>, << n, b >>}
    BY <2>2 DEF Verbs
  <2>4. PICK p \in Seq(B) : /\ p \o SendBack(answer, y, n, b) = r \o Answered(answer, y, n, b)
                            /\ Word(p, << y, b >>, << n, b >>, w)
    <3>1. PICK u, v : u = Answered(answer, y, n, b) /\ v = SendBack(answer, y, n, b)
      OBVIOUS
    <3>2. u = << d, f, e >> /\ v = << e >>
      BY Zenon, <2>1, <2>2, <3>1 DEF Command
    <3>3. Behind(B, r, u, v, << y, b >>, << n, b >>, w)
      BY <2>2, <2>3, <3>2, SilentTwo
    <3>4. QED
      BY Zenon, <3>1, <3>3 DEF Behind
  <2>6. << y, b >> # << n, b >> /\ << y, b >> \in B /\ << n, b >> \in B
    BY DEF Verbs, Spells
  <2>7. /\ p \o SendBack(answer, y, n, b) \in Seq(B)
        /\ Word(p \o SendBack(answer, y, n, b), << y, b >>, << n, b >>, Longer(w, answer))
    BY <2>4, <2>6, WordSent
  <2>8. QED
    BY Zenon, <2>4, <2>7
<1>3. QED
  BY <1>1, <1>2
-----------------------------------------------------------------------------
(* A has the commands of Tera Term about option b.                         *)
Asking(A, b) == \A c \in Verbs : << c, b >> \in A

(* Nothing of side s of option b.                                          *)
Silent(u, yes, no, b) == \A k \in 1 .. Len(u) : u[k] \notin {<< yes, b >>, << no, b >>}

(* What is of no concern to a side leaves it as it was.                    *)
LEMMA SideSilent ==
    ASSUME NEW A, NEW q \in Seq(A), NEW u \in Seq(A),
           NEW B, NEW r \in Seq(B), NEW v \in Seq(B),
           NEW s \in Sides, NEW b, NEW o, NEW state, Side(q, r, s, b, o, state),
           Silent(u, s.askYes, s.askNo, b), Silent(v, s.tellYes, s.tellNo, b)
    PROVE  Side(q \o u, r \o v, s, b, o, state)
<1>1. PICK out, in : /\ Word(q, << s.askYes, b >>, << s.askNo, b >>, out)
                     /\ Word(r, << s.tellYes, b >>, << s.tellNo, b >>, in)
                     /\ Corresponds(o.Status, state, out, in)
                     /\ Settled(o)
  BY Zenon DEF Side
<1>2. Word(q \o u, << s.askYes, b >>, << s.askNo, b >>, out)
  BY <1>1, WordSilent DEF Silent
<1>3. Word(r \o v, << s.tellYes, b >>, << s.tellNo, b >>, in)
  BY <1>1, WordSilent DEF Silent
<1>4. QED
  BY Zenon, <1>1, <1>2, <1>3 DEF Side

(* Nor does reading it, on either end.                                     *)
LEMMA SideSkips ==
    ASSUME NEW A, NEW q \in Seq(A), NEW B, NEW r \in Seq(B),
           NEW s \in Sides, NEW b, NEW o, NEW state, Side(q, r, s, b, o, state)
    PROVE  /\ q # << >> /\ q[1] \notin {<< s.askYes, b >>, << s.askNo, b >>}
                => Side(Tail(q), r, s, b, o, state)
           /\ r # << >> /\ r[1] \notin {<< s.tellYes, b >>, << s.tellNo, b >>}
                => Side(q, Tail(r), s, b, o, state)
<1>1. PICK out, in : /\ Word(q, << s.askYes, b >>, << s.askNo, b >>, out)
                     /\ Word(r, << s.tellYes, b >>, << s.tellNo, b >>, in)
                     /\ Corresponds(o.Status, state, out, in)
                     /\ Settled(o)
  BY Zenon DEF Side
<1>2. /\ << s.askYes, b >> # << s.askNo, b >>
      /\ << s.tellYes, b >> # << s.tellNo, b >>
  BY Zenon, WordsDiffer
<1>3. ASSUME q # << >>, q[1] \notin {<< s.askYes, b >>, << s.askNo, b >>}
      PROVE  Side(Tail(q), r, s, b, o, state)
  <2>1. Word(Tail(q), << s.askYes, b >>, << s.askNo, b >>, out)
    BY <1>1, <1>2, <1>3, WordTail
  <2>2. QED
    BY Zenon, <1>1, <2>1 DEF Side
<1>4. ASSUME r # << >>, r[1] \notin {<< s.tellYes, b >>, << s.tellNo, b >>}
      PROVE  Side(q, Tail(r), s, b, o, state)
  <2>1. Word(Tail(r), << s.tellYes, b >>, << s.tellNo, b >>, in)
    BY <1>1, <1>2, <1>4, WordTail
  <2>2. QED
    BY Zenon, <1>1, <2>1 DEF Side
<1>5. QED
  BY Zenon, <1>3, <1>4

(* What Tera Term makes of an event: the record, the answer on its way.    *)
Answers(A, q, r, s, b, e, state) ==
    /\ e.opt \in TelOpt /\ e.answer \in {"", "yes", "no"}
    /\ q \o SendBack(e.answer, s.askYes, s.askNo, b) \in Seq(A)
    /\ Side(q \o SendBack(e.answer, s.askYes, s.askNo, b), r, s, b, e.opt, state)

(* Tera Term reads what the host says about this side.                     *)
LEMMA SideReads ==
    ASSUME NEW A, NEW q \in Seq(A), NEW B, NEW r \in Seq(B), r # << >>,
           NEW s \in Sides, NEW b, Asking(A, b), NEW o \in TelOpt, NEW state,
           Side(q, r, s, b, o, state), NEW accept \in BOOLEAN
    PROVE  /\ r[1] = << s.tellYes, b >>
                => Answers(A, q, Tail(r), s, b, Offered(o, accept), state)
           /\ r[1] = << s.tellNo, b >>
                => Answers(A, q, Tail(r), s, b, Refused(o), state)
<1>1. PICK out, in : /\ Word(q, << s.askYes, b >>, << s.askNo, b >>, out)
                     /\ Word(r, << s.tellYes, b >>, << s.tellNo, b >>, in)
                     /\ Corresponds(o.Status, state, out, in)
                     /\ Settled(o)
  BY Zenon DEF Side
<1>2. /\ << s.askYes, b >> # << s.askNo, b >>
      /\ << s.tellYes, b >> # << s.tellNo, b >>
      /\ << s.askYes, b >> \in A /\ << s.askNo, b >> \in A
  BY WordsDiffer DEF Asking
<1>3. ASSUME NEW e, NEW rest, Word(Tail(r), << s.tellYes, b >>, << s.tellNo, b >>, rest),
             e.opt \in TelOpt, e.answer \in {"", "yes", "no"}, Settled(e.opt),
             e.answer = "yes" => out \in {"", "n"},
             e.answer = "no" => out \in {"", "y"},
             Corresponds(e.opt.Status, state, Longer(out, e.answer), rest)
      PROVE  Answers(A, q, Tail(r), s, b, e, state)
  <2>1. /\ q \o SendBack(e.answer, s.askYes, s.askNo, b) \in Seq(A)
        /\ Word(q \o SendBack(e.answer, s.askYes, s.askNo, b),
                << s.askYes, b >>, << s.askNo, b >>, Longer(out, e.answer))
    BY <1>1, <1>2, <1>3, WordSent
  <2>2. QED
    BY Zenon, <1>3, <2>1 DEF Answers, Side
<1>4. CASE r[1] = << s.tellYes, b >>
  <2>1. PICK rest : /\ Word(Tail(r), << s.tellYes, b >>, << s.tellNo, b >>, rest)
                    /\ (in = "y" /\ rest = "") \/ (in = "yn" /\ rest = "n")
    BY <1>1, <1>2, <1>4, WordTail
  <2> DEFINE e == Offered(o, accept)
  <2>2. /\ e.opt \in TelOpt /\ e.answer \in {"", "yes", "no"} /\ Settled(e.opt)
        /\ e.answer = "yes" => out \in {"", "n"}
        /\ e.answer = "no" => out \in {"", "y"}
        /\ Corresponds(e.opt.Status, state, Longer(out, e.answer), rest)
    BY <1>1, <2>1, OfferedStep
  <2>3. Answers(A, q, Tail(r), s, b, e, state)
    <3> HIDE DEF e
    <3>1. QED
      BY <1>3, <2>1, <2>2
  <2>4. QED
    BY <1>2, <1>4, <2>3
<1>5. CASE r[1] = << s.tellNo, b >>
  <2>1. PICK rest : /\ Word(Tail(r), << s.tellYes, b >>, << s.tellNo, b >>, rest)
                    /\ (in = "n" /\ rest = "") \/ (in = "ny" /\ rest = "y")
    <3>1. \/ in = "n" /\ Word(Tail(r), << s.tellYes, b >>, << s.tellNo, b >>, "")
          \/ in = "ny" /\ Word(Tail(r), << s.tellYes, b >>, << s.tellNo, b >>, "y")
      BY <1>1, <1>2, <1>5, WordTail
    <3>2. QED
      BY Zenon, <3>1
  <2> DEFINE e == Refused(o)
  <2>2. /\ e.opt \in TelOpt /\ e.answer \in {"", "yes", "no"} /\ Settled(e.opt)
        /\ e.answer = "yes" => out \in {"", "n"}
        /\ e.answer = "no" => out \in {"", "y"}
        /\ Corresponds(e.opt.Status, state, Longer(out, e.answer), rest)
    BY <1>1, <2>1, RefusedStep
  <2>3. Answers(A, q, Tail(r), s, b, e, state)
    <3> HIDE DEF e
    <3>1. QED
      BY <1>3, <2>1, <2>2
  <2>4. QED
    BY <1>2, <1>5, <2>3
<1>6. QED
  BY <1>4, <1>5

(* The user wants it on or off.                                            *)
LEMMA SideWished ==
    ASSUME NEW A, NEW q \in Seq(A), NEW r,
           NEW s \in Sides, NEW b, Asking(A, b), NEW o \in TelOpt, NEW state,
           Side(q, r, s, b, o, state), NEW e \in {Enabled(o), Disabled(o)}
    PROVE  Answers(A, q, r, s, b, e, state)
<1>1. PICK out, in : /\ Word(q, << s.askYes, b >>, << s.askNo, b >>, out)
                     /\ Word(r, << s.tellYes, b >>, << s.tellNo, b >>, in)
                     /\ Corresponds(o.Status, state, out, in)
                     /\ Settled(o)
  BY Zenon DEF Side
<1>2. /\ << s.askYes, b >> # << s.askNo, b >>
      /\ << s.askYes, b >> \in A /\ << s.askNo, b >> \in A
  BY WordsDiffer DEF Asking
<1>3. /\ e.opt \in TelOpt /\ e.answer \in {"", "yes", "no"} /\ Settled(e.opt)
      /\ e.answer = "yes" => out \in {"", "n"}
      /\ e.answer = "no" => out \in {"", "y"}
      /\ Corresponds(e.opt.Status, state, Longer(out, e.answer), in)
  BY <1>1, WishedStep
<1>4. /\ q \o SendBack(e.answer, s.askYes, s.askNo, b) \in Seq(A)
      /\ Word(q \o SendBack(e.answer, s.askYes, s.askNo, b),
              << s.askYes, b >>, << s.askNo, b >>, Longer(out, e.answer))
  BY <1>1, <1>2, <1>3, WordSent
<1>5. QED
  BY Zenon, <1>1, <1>3, <1>4 DEF Answers, Side

(* What the host makes of what it reads: its state, the answer on its way. *)
Hears(B, q, r, s, b, o, result) ==
    /\ result[1] \in Status
    /\ result[2] \in {"", "yes", "no"}
    /\ r \o Answered(result[2], s.tellYes, s.tellNo, b) \in Seq(B)
    /\ Side(q, r \o Answered(result[2], s.tellYes, s.tellNo, b), s, b, o, result[1])

LEMMA SideHears ==
    ASSUME NEW A, NEW q \in Seq(A), q # << >>, NEW B, NEW r \in Seq(B), NEW b, Spells(B, b),
           NEW s \in Sides, NEW o, NEW state, Side(q, r, s, b, o, state),
           NEW result,
           \/ q[1] = << s.askYes, b >> /\ \E agree \in BOOLEAN : result = HostAsked(state, agree)
           \/ q[1] = << s.askNo, b >> /\ result = HostTold(state)
    PROVE  Hears(B, Tail(q), r, s, b, o, result)
<1>1. PICK out, in : /\ Word(q, << s.askYes, b >>, << s.askNo, b >>, out)
                     /\ Word(r, << s.tellYes, b >>, << s.tellNo, b >>, in)
                     /\ Corresponds(o.Status, state, out, in)
                     /\ Settled(o)
  BY Zenon DEF Side
<1>2. /\ << s.askYes, b >> # << s.askNo, b >>
      /\ s.tellYes # s.tellNo /\ s.tellYes \in Verbs /\ s.tellNo \in Verbs
  BY WordsDiffer
<1>3. PICK rest : /\ Word(Tail(q), << s.askYes, b >>, << s.askNo, b >>, rest)
                  /\ \/ /\ \E agree \in BOOLEAN : result = HostAsked(state, agree)
                        /\ (out = "y" /\ rest = "") \/ (out = "yn" /\ rest = "n")
                     \/ /\ result = HostTold(state)
                        /\ (out = "n" /\ rest = "") \/ (out = "ny" /\ rest = "y")
  <2>1. CASE q[1] = << s.askYes, b >> /\ \E agree \in BOOLEAN : result = HostAsked(state, agree)
    <3>1. \/ out = "y" /\ Word(Tail(q), << s.askYes, b >>, << s.askNo, b >>, "")
          \/ out = "yn" /\ Word(Tail(q), << s.askYes, b >>, << s.askNo, b >>, "n")
      BY <1>1, <1>2, <2>1, WordTail
    <3>2. QED
      BY Zenon, <2>1, <3>1
  <2>2. CASE q[1] = << s.askNo, b >> /\ result = HostTold(state)
    <3>1. \/ out = "n" /\ Word(Tail(q), << s.askYes, b >>, << s.askNo, b >>, "")
          \/ out = "ny" /\ Word(Tail(q), << s.askYes, b >>, << s.askNo, b >>, "y")
      BY <1>1, <1>2, <2>2, WordTail
    <3>2. QED
      BY Zenon, <2>2, <3>1
  <2>3. QED
    BY <2>1, <2>2
<1>4. /\ result[1] \in Status /\ result[2] \in {"", "yes", "no"}
      /\ result[2] = "yes" => in \in {"", "n"}
      /\ result[2] = "no" => in \in {"", "y"}
      /\ Corresponds(o.Status, result[1], rest, Longer(in, result[2]))
  BY <1>1, <1>3, HostStep
<1>5. PICK answer \in {"", "yes", "no"} : answer = result[2]
  BY <1>4
<1>6. /\ r \o Answered(answer, s.tellYes, s.tellNo, b) \in Seq(B)
      /\ Word(r \o Answered(answer, s.tellYes, s.tellNo, b),
              << s.tellYes, b >>, << s.tellNo, b >>, Longer(in, answer))
  BY <1>1, <1>2, <1>4, <1>5, WordTold
<1>7. QED
  BY Zenon, <1>1, <1>3, <1>4, <1>5, <1>6 DEF Hears, Side

(* The host changes its mind.                                              *)
LEMMA SideWants ==
    ASSUME NEW q, NEW B, NEW r \in Seq(B), NEW b, Spells(B, b),
           NEW s \in Sides, NEW o, NEW state, Side(q, r, s, b, o, state),
           state \in {"No", "Yes"}
    PROVE  Hears(B, q, r, s, b, o,
                 IF state = "No" THEN << "WantYes", "yes" >> ELSE << "WantNo", "no" >>)
<1>1. PICK out, in : /\ Word(q, << s.askYes, b >>, << s.askNo, b >>, out)
                     /\ Word(r, << s.tellYes, b >>, << s.tellNo, b >>, in)
                     /\ Corresponds(o.Status, state, out, in)
                     /\ Settled(o)
  BY Zenon DEF Side
<1>2. s.tellYes # s.tellNo /\ s.tellYes \in Verbs /\ s.tellNo \in Verbs
  BY WordsDiffer
<1>3. PICK new \in Status, answer \in {"", "yes", "no"} :
         /\ << new, answer >> = IF state = "No" THEN << "WantYes", "yes" >> ELSE << "WantNo", "no" >>
         /\ answer = "yes" => in \in {"", "n"}
         /\ answer = "no" => in \in {"", "y"}
         /\ Corresponds(o.Status, new, out, Longer(in, answer))
  <2>1. CASE state = "No"
    <3>1. in \in {"", "n"} /\ Corresponds(o.Status, "WantYes", out, Longer(in, "yes"))
      BY <1>1, <2>1, WantsStep
    <3>2. QED
      BY <2>1, <3>1 DEF Status
  <2>2. CASE state = "Yes"
    <3>1. in \in {"", "y"} /\ Corresponds(o.Status, "WantNo", out, Longer(in, "no"))
      BY <1>1, <2>2, WantsStep
    <3>2. QED
      BY <2>2, <3>1 DEF Status
  <2>3. QED
    BY <2>1, <2>2
<1>4. /\ r \o Answered(answer, s.tellYes, s.tellNo, b) \in Seq(B)
      /\ Word(r \o Answered(answer, s.tellYes, s.tellNo, b),
              << s.tellYes, b >>, << s.tellNo, b >>, Longer(in, answer))
  BY <1>1, <1>2, <1>3, WordTold
<1>5. Hears(B, q, r, s, b, o, << new, answer >>)
  <2>1. << new, answer >>[1] = new /\ << new, answer >>[2] = answer
    OBVIOUS
  <2>2. QED
    BY Zenon, <1>1, <1>3, <1>4, <2>1 DEF Hears, Side
<1>6. QED
  BY Zenon, <1>3, <1>5
-----------------------------------------------------------------------------
(* One side of all options: f is the record Tera Term keeps, g what the    *)
(* host holds.  Of an option beyond MaxTelOpt no record is kept, and the   *)
(* host never gets so far as to want it off.                               *)
Kept(f, b) == IF b \in MaxTelOpt THEN f[b] ELSE Off

All(q, r, s, f, g) == \A b \in Opts :
    /\ Side(q, r, s, b, Kept(f, b), g[b])
    /\ b \notin MaxTelOpt => g[b] # "WantNo"

Quietly(u, yes, no) == \A b \in Opts : Silent(u, yes, no, b)

(* What comes behind and is of no concern.                                 *)
LEMMA AllQuietly ==
    ASSUME NEW A, NEW q \in Seq(A), NEW u \in Seq(A),
           NEW B, NEW r \in Seq(B), NEW v \in Seq(B),
           NEW s \in Sides, NEW f, NEW g, All(q, r, s, f, g)
    PROVE  /\ Quietly(u, s.askYes, s.askNo) => All(q \o u, r, s, f, g)
           /\ Quietly(v, s.tellYes, s.tellNo) => All(q, r \o v, s, f, g)
<1>1. << >> \in Seq(A) /\ << >> \in Seq(B) /\ q \o << >> = q /\ r \o << >> = r
  BY ConcatEmptySeq
<1>2. \A yes, no, b : Silent(<< >>, yes, no, b)
  BY DEF Silent
<1>3. ASSUME Quietly(u, s.askYes, s.askNo), NEW b \in Opts
      PROVE  Side(q \o u, r, s, b, Kept(f, b), g[b])
  <2>1. Side(q, r, s, b, Kept(f, b), g[b])
    BY Zenon DEF All
  <2>2. Silent(u, s.askYes, s.askNo, b)
    BY Zenon, <1>3 DEF Quietly
  <2>3. Side(q \o u, r \o << >>, s, b, Kept(f, b), g[b])
    BY <1>1, <1>2, <2>1, <2>2, SideSilent
  <2>4. QED
    BY Zenon, <1>1, <2>3
<1>4. ASSUME Quietly(v, s.tellYes, s.tellNo), NEW b \in Opts
      PROVE  Side(q, r \o v, s, b, Kept(f, b), g[b])
  <2>1. Side(q, r, s, b, Kept(f, b), g[b])
    BY Zenon DEF All
  <2>2. Silent(v, s.tellYes, s.tellNo, b)
    BY Zenon, <1>4 DEF Quietly
  <2>3. Side(q \o << >>, r \o v, s, b, Kept(f, b), g[b])
    BY <1>1, <1>2, <2>1, <2>2, SideSilent
  <2>4. QED
    BY Zenon, <1>1, <2>3
<1>5. QED
  BY Zenon, <1>3, <1>4 DEF All

(* What is read and is of no concern.                                      *)
LEMMA AllSkips ==
    ASSUME NEW A, NEW q \in Seq(A), NEW B, NEW r \in Seq(B),
           NEW s \in Sides, NEW f, NEW g, All(q, r, s, f, g)
    PROVE  /\ (/\ q # << >>
               /\ \A b \in Opts : q[1] \notin {<< s.askYes, b >>, << s.askNo, b >>})
                => All(Tail(q), r, s, f, g)
           /\ (/\ r # << >>
               /\ \A b \in Opts : r[1] \notin {<< s.tellYes, b >>, << s.tellNo, b >>})
                => All(q, Tail(r), s, f, g)
<1>1. ASSUME q # << >>, NEW b \in Opts, q[1] \notin {<< s.askYes, b >>, << s.askNo, b >>}
      PROVE  Side(Tail(q), r, s, b, Kept(f, b), g[b])
  <2>1. Side(q, r, s, b, Kept(f, b), g[b])
    BY Zenon DEF All
  <2>2. QED
    BY <1>1, <2>1, SideSkips
<1>2. ASSUME r # << >>, NEW b \in Opts, r[1] \notin {<< s.tellYes, b >>, << s.tellNo, b >>}
      PROVE  Side(q, Tail(r), s, b, Kept(f, b), g[b])
  <2>1. Side(q, r, s, b, Kept(f, b), g[b])
    BY Zenon DEF All
  <2>2. QED
    BY <1>2, <2>1, SideSkips
<1>3. \A b \in Opts : b \notin MaxTelOpt => g[b] # "WantNo"
  BY Zenon DEF All
<1>4. (/\ q # << >>
       /\ \A b \in Opts : q[1] \notin {<< s.askYes, b >>, << s.askNo, b >>})
        => All(Tail(q), r, s, f, g)
  BY Zenon, <1>1, <1>3 DEF All
<1>5. (/\ r # << >>
       /\ \A b \in Opts : r[1] \notin {<< s.tellYes, b >>, << s.tellNo, b >>})
        => All(q, Tail(r), s, f, g)
  BY Zenon, <1>2, <1>3 DEF All
<1>6. QED
  BY Zenon, <1>4, <1>5

(* Short sequences in which nothing is of concern.                         *)
LEMMA SilentNone ==
    ASSUME NEW yes, NEW no, NEW b
    PROVE  Silent(<< >>, yes, no, b)
BY DEF Silent

LEMMA SilentOne ==
    ASSUME NEW yes, NEW no, NEW b, NEW m, m \notin {<< yes, b >>, << no, b >>}
    PROVE  Silent(<< m >>, yes, no, b)
<1>1. << m >>[1] = m /\ 1 .. Len(<< m >>) = {1}
  OBVIOUS
<1>2. QED
  BY Zenon, <1>1 DEF Silent

LEMMA SilentThree ==
    ASSUME NEW yes, NEW no, NEW b, NEW d, NEW e, NEW h,
           d \notin {<< yes, b >>, << no, b >>}, e \notin {<< yes, b >>, << no, b >>},
           h \notin {<< yes, b >>, << no, b >>}
    PROVE  Silent(<< d, e, h >>, yes, no, b)
<1>1. /\ << d, e, h >>[1] = d /\ << d, e, h >>[2] = e /\ << d, e, h >>[3] = h
      /\ 1 .. Len(<< d, e, h >>) = {1, 2, 3}
  OBVIOUS
<1>2. ASSUME NEW k \in {1, 2, 3}
      PROVE  << d, e, h >>[k] \in {d, e, h}
  <2>1. CASE k = 1
    BY Zenon, <1>1, <2>1
  <2>2. CASE k = 2
    BY Zenon, <1>1, <2>2
  <2>3. CASE k = 3
    BY Zenon, <1>1, <2>3
  <2>4. QED
    BY <2>1, <2>2, <2>3
<1>3. QED
  BY Zenon, <1>1, <1>2 DEF Silent

(* Answers about one option are of no concern to another, nor those of one *)
(* side to the other.                                                      *)
LEMMA OtherOption ==
    ASSUME NEW b, NEW c, NEW yes, NEW no, NEW answer \in {"", "yes", "no"},
           NEW y, NEW n, b # c \/ {y, n} \cap {yes, no} = {}
    PROVE  Silent(SendBack(answer, y, n, b), yes, no, c)
<1>1. CASE answer = ""
  <2>1. SendBack(answer, y, n, b) = << >>
    BY Zenon, <1>1 DEF SendBack
  <2>2. QED
    BY Zenon, <2>1, SilentNone
<1>2. CASE answer = "yes"
  <2>1. SendBack(answer, y, n, b) = << << y, b >> >>
    BY Zenon, <1>2 DEF SendBack
  <2>2. << y, b >> \notin {<< yes, c >>, << no, c >>}
    OBVIOUS
  <2>3. QED
    BY Zenon, <2>1, <2>2, SilentOne
<1>3. CASE answer = "no"
  <2>1. SendBack(answer, y, n, b) = << << n, b >> >>
    BY Zenon, <1>3 DEF SendBack
  <2>2. << n, b >> \notin {<< yes, c >>, << no, c >>}
    OBVIOUS
  <2>3. QED
    BY Zenon, <2>1, <2>2, SilentOne
<1>4. QED
  BY <1>1, <1>2, <1>3

(* Commands about one option, or about the other side, are of no concern.  *)
LEMMA OtherCommand ==
    ASSUME NEW b, NEW c, NEW yes \in Verbs, NEW no \in Verbs,
           NEW y \in Verbs, NEW n \in Verbs, b # c \/ {y, n} \cap {yes, no} = {},
           NEW answer \in {"", "yes", "no"}
    PROVE  Silent(Answered(answer, y, n, b), yes, no, c)
<1>1. ASSUME NEW v \in {y, n}
      PROVE  Silent(Command(v, b), yes, no, c)
  <2>1. << v, b >> \notin {<< yes, c >>, << no, c >>}
    BY <1>1
  <2>2. << "text", "IAC" >> \notin {<< yes, c >>, << no, c >>}
    BY DEF Verbs
  <2>3. << "iac", v >> \notin {<< yes, c >>, << no, c >>}
    BY DEF Verbs
  <2>4. Silent(<< << "text", "IAC" >>, << "iac", v >>, << v, b >> >>, yes, no, c)
    BY Zenon, <2>1, <2>2, <2>3, SilentThree
  <2>5. QED
    BY Zenon, <2>4 DEF Command
<1>2. CASE answer = ""
  <2>1. Answered(answer, y, n, b) = << >>
    BY Zenon, <1>2 DEF Answered
  <2>2. QED
    BY Zenon, <2>1, SilentNone
<1>3. CASE answer = "yes"
  <2>1. Answered(answer, y, n, b) = Command(y, b)
    BY Zenon, <1>3 DEF Answered
  <2>2. QED
    BY Zenon, <1>1, <2>1
<1>4. CASE answer = "no"
  <2>1. Answered(answer, y, n, b) = Command(n, b)
    BY Zenon, <1>4 DEF Answered
  <2>2. QED
    BY Zenon, <1>1, <2>1
<1>5. QED
  BY <1>2, <1>3, <1>4

LEMMA ShortSeq ==
    ASSUME NEW A
    PROVE  << >> \in Seq(A) /\ \A m \in A : << m >> \in Seq(A)
OBVIOUS

LEMMA PairsDiffer ==
    ASSUME NEW b, NEW c, b # c
    PROVE  \A x, y : << x, b >> # << y, c >>
OBVIOUS

(* An event of one option: what Tera Term answers is for this option only. *)
LEMMA AllAnswers ==
    ASSUME NEW A, NEW q \in Seq(A), NEW B, NEW r \in Seq(B), NEW r2 \in Seq(B),
           NEW s \in Sides, NEW f \in [MaxTelOpt -> TelOpt], NEW g,
           NEW b \in MaxTelOpt, Asking(A, b), NEW e,
           All(q, r, s, f, g), Answers(A, q, r2, s, b, e, g[b]),
           \/ r2 = r
           \/ r # << >> /\ r2 = Tail(r) /\ r[1] \in {<< s.tellYes, b >>, << s.tellNo, b >>}
    PROVE  /\ q \o SendBack(e.answer, s.askYes, s.askNo, b) \in Seq(A)
           /\ [f EXCEPT ![b] = e.opt] \in [MaxTelOpt -> TelOpt]
           /\ All(q \o SendBack(e.answer, s.askYes, s.askNo, b), r2, s,
                  [f EXCEPT ![b] = e.opt], g)
<1> DEFINE u == SendBack(e.answer, s.askYes, s.askNo, b)
           f2 == [f EXCEPT ![b] = e.opt]
<1>1. q \o u \in Seq(A) /\ e.opt \in TelOpt /\ Side(q \o u, r2, s, b, e.opt, g[b])
  BY Zenon DEF Answers
<1>2. f2 \in [MaxTelOpt -> TelOpt]
  BY <1>1
<1>3. /\ f2[b] = e.opt
      /\ \A c \in Opts : c # b => Kept(f2, c) = Kept(f, c)
  BY DEF Kept
<1>4. u \in Seq(A)
  <2>1. << s.askYes, b >> \in A /\ << s.askNo, b >> \in A
    BY WordsDiffer DEF Asking
  <2>2. \/ u = << >> \/ u = << << s.askYes, b >> >> \/ u = << << s.askNo, b >> >>
    BY Zenon DEF SendBack, Answers
  <2>3. QED
    BY Zenon, <2>1, <2>2, ShortSeq
<1>5. b \in Opts
  BY TelConstants
<1> HIDE DEF f2
<1>6. ASSUME NEW c \in Opts, c # b
      PROVE  Side(q \o u, r2, s, c, Kept(f2, c), g[c])
  <2>1. Silent(u, s.askYes, s.askNo, c)
    BY <1>6, OtherOption DEF Answers
  <2> HIDE DEF u
  <2>2. Side(q, r, s, c, Kept(f, c), g[c])
    BY Zenon DEF All
  <2>3. << >> \in Seq(B) /\ r \o << >> = r
    BY Zenon, ShortSeq, ConcatEmptySeq
  <2>4. Side(q \o u, r \o << >>, s, c, Kept(f, c), g[c])
    BY <1>4, <2>1, <2>2, <2>3, SilentNone, SideSilent
  <2>5. Side(q \o u, r, s, c, Kept(f, c), g[c])
    BY Zenon, <2>3, <2>4
  <2>6. CASE r2 = r
    BY Zenon, <1>3, <1>6, <2>5, <2>6
  <2>7. CASE r # << >> /\ r2 = Tail(r) /\ r[1] \in {<< s.tellYes, b >>, << s.tellNo, b >>}
    <3>1. r[1] \notin {<< s.tellYes, c >>, << s.tellNo, c >>}
      BY Zenon, <1>6, <2>7, PairsDiffer
    <3>2. Side(q \o u, Tail(r), s, c, Kept(f, c), g[c])
      BY <1>1, <2>5, <2>7, <3>1, SideSkips
    <3>3. QED
      BY Zenon, <1>3, <1>6, <2>7, <3>2
  <2>8. QED
    BY <2>6, <2>7
<1>7. Kept(f2, b) = e.opt
  BY Zenon, <1>3 DEF Kept
<1>8. \A c \in Opts : c \notin MaxTelOpt => g[c] # "WantNo"
  BY Zenon DEF All
<1>9. \A c \in Opts : Side(q \o u, r2, s, c, Kept(f2, c), g[c])
  BY Zenon, <1>1, <1>6, <1>7
<1>10. All(q \o u, r2, s, f2, g)
  BY Zenon, <1>8, <1>9 DEF All
<1>11. QED
  BY Zenon, <1>1, <1>2, <1>10 DEF f2

(* Tera Term reads about an option it keeps.                               *)
LEMMA AllReads ==
    ASSUME NEW A, NEW q \in Seq(A), NEW B, NEW r \in Seq(B), r # << >>,
           NEW s \in Sides, NEW f \in [MaxTelOpt -> TelOpt], NEW g,
           NEW b \in MaxTelOpt, Asking(A, b), NEW accept \in BOOLEAN,
           All(q, r, s, f, g), NEW e,
           \/ r[1] = << s.tellYes, b >> /\ e = Offered(f[b], accept)
           \/ r[1] = << s.tellNo, b >> /\ e = Refused(f[b])
    PROVE  /\ q \o SendBack(e.answer, s.askYes, s.askNo, b) \in Seq(A)
           /\ [f EXCEPT ![b] = e.opt] \in [MaxTelOpt -> TelOpt]
           /\ All(q \o SendBack(e.answer, s.askYes, s.askNo, b), Tail(r), s,
                  [f EXCEPT ![b] = e.opt], g)
<1>1. /\ b \in Opts /\ f[b] \in TelOpt
      /\ Side(q, r, s, b, f[b], g[b])
  BY TelConstants DEF All, Kept
<1>2. Answers(A, q, Tail(r), s, b, e, g[b])
  <2>1. CASE r[1] = << s.tellYes, b >> /\ e = Offered(f[b], accept)
    BY <1>1, <2>1, SideReads
  <2>2. CASE r[1] = << s.tellNo, b >> /\ e = Refused(f[b])
    BY <1>1, <2>2, SideReads
  <2>3. QED
    BY <2>1, <2>2
<1>3. Tail(r) \in Seq(B)
  BY HeadTailProperties
<1>4. r[1] \in {<< s.tellYes, b >>, << s.tellNo, b >>}
  BY Zenon
<1>5. QED
  BY <1>2, <1>3, <1>4, AllAnswers

(* The user wants one on or off.                                           *)
LEMMA AllWished ==
    ASSUME NEW A, NEW q \in Seq(A), NEW B, NEW r \in Seq(B),
           NEW s \in Sides, NEW f \in [MaxTelOpt -> TelOpt], NEW g,
           NEW b \in MaxTelOpt, Asking(A, b), All(q, r, s, f, g),
           NEW e \in {Enabled(f[b]), Disabled(f[b])}
    PROVE  /\ q \o SendBack(e.answer, s.askYes, s.askNo, b) \in Seq(A)
           /\ [f EXCEPT ![b] = e.opt] \in [MaxTelOpt -> TelOpt]
           /\ All(q \o SendBack(e.answer, s.askYes, s.askNo, b), r, s,
                  [f EXCEPT ![b] = e.opt], g)
<1>1. /\ b \in Opts /\ f[b] \in TelOpt
      /\ Side(q, r, s, b, f[b], g[b])
  BY TelConstants DEF All, Kept
<1>2. Answers(A, q, r, s, b, e, g[b])
  BY <1>1, SideWished
<1>3. QED
  BY <1>2, AllAnswers

(* Tera Term reads about an option beyond those it keeps, and says no: the *)
(* host can only have offered it.                                          *)
LEMMA AllUnknown ==
    ASSUME NEW A, NEW q \in Seq(A), NEW B, NEW r \in Seq(B), r # << >>,
           NEW s \in Sides, NEW f, NEW g,
           NEW b \in Opts \ MaxTelOpt, Asking(A, b), All(q, r, s, f, g),
           r[1] \in {<< s.tellYes, b >>, << s.tellNo, b >>}
    PROVE  /\ Append(q, << s.askNo, b >>) \in Seq(A)
           /\ All(Append(q, << s.askNo, b >>), Tail(r), s, f, g)
<1> DEFINE u == << << s.askNo, b >> >>
<1>1. /\ Side(q, r, s, b, Off, g[b]) /\ g[b] # "WantNo" /\ Off \in TelOpt
      /\ \A c \in Opts : c \notin MaxTelOpt => g[c] # "WantNo"
  <2>1. Off \in TelOpt
    BY DEF Off, TelOpt, Status
  <2>2. QED
    BY Zenon, <2>1 DEF All, Kept
<1>2. << s.askNo, b >> \in A
  BY WordsDiffer DEF Asking
<1>3. u \in Seq(A) /\ q \o u \in Seq(A) /\ Append(q, << s.askNo, b >>) = q \o u
  <2>1. u \in Seq(A)
    BY Zenon, <1>2, ShortSeq
  <2>2. QED
    BY Zenon, <1>2, <2>1, AppendIsConcat, ConcatProperties
<1>4. r[1] = << s.tellYes, b >>
  <2>1. CASE r[1] = << s.tellNo, b >>
    <3>1. PICK out, in : /\ Word(r, << s.tellYes, b >>, << s.tellNo, b >>, in)
                         /\ Corresponds(Off.Status, g[b], out, in)
      BY Zenon, <1>1 DEF Side
    <3>2. << s.tellYes, b >> # << s.tellNo, b >>
      BY Zenon, WordsDiffer
    <3>3. in \in {"n", "ny"}
      <4>1. \/ in = "n" /\ Word(Tail(r), << s.tellYes, b >>, << s.tellNo, b >>, "")
            \/ in = "ny" /\ Word(Tail(r), << s.tellYes, b >>, << s.tellNo, b >>, "y")
        BY <2>1, <3>1, <3>2, WordTail
      <4>2. QED
        BY <4>1
    <3>4. QED
      BY <3>1, <3>3 DEF Off, Corresponds
  <2>2. QED
    BY Zenon, <2>1
<1>5. Side(q \o u, Tail(r), s, b, Off, g[b])
  <2> DEFINE e == Offered(Off, FALSE)
  <2>1. Answers(A, q, Tail(r), s, b, e, g[b])
    BY <1>1, <1>4, SideReads
  <2>2. e.opt = Off /\ e.answer = "no"
    BY DEF Offered, Off, To
  <2>3. SendBack("no", s.askYes, s.askNo, b) = u
    BY Zenon DEF SendBack
  <2> HIDE DEF e
  <2>4. QED
    BY Zenon, <2>1, <2>2, <2>3 DEF Answers
<1>6. ASSUME NEW c \in Opts, c # b
      PROVE  Side(q \o u, Tail(r), s, c, Kept(f, c), g[c])
  <2>1. Silent(u, s.askYes, s.askNo, c)
    BY Zenon, <1>6, PairsDiffer, SilentOne
  <2> HIDE DEF u
  <2>2. Side(q, r, s, c, Kept(f, c), g[c])
    BY Zenon DEF All
  <2>3. << >> \in Seq(B) /\ r \o << >> = r
    BY Zenon, ShortSeq, ConcatEmptySeq
  <2>4. Side(q \o u, r \o << >>, s, c, Kept(f, c), g[c])
    BY <1>3, <2>1, <2>2, <2>3, SilentNone, SideSilent
  <2>5. Side(q \o u, r, s, c, Kept(f, c), g[c])
    BY Zenon, <2>3, <2>4
  <2>6. r[1] \notin {<< s.tellYes, c >>, << s.tellNo, c >>}
    BY Zenon, <1>6, PairsDiffer
  <2>7. QED
    BY <1>3, <2>5, <2>6, SideSkips
<1>7. Kept(f, b) = Off
  BY Zenon DEF Kept
<1>8. \A c \in Opts : Side(q \o u, Tail(r), s, c, Kept(f, c), g[c])
  BY Zenon, <1>5, <1>6, <1>7
<1>9. All(q \o u, Tail(r), s, f, g)
  BY Zenon, <1>1, <1>8 DEF All
<1>10. QED
  BY Zenon, <1>3, <1>9

(* The host answers, or changes its mind: what it says is about one option *)
(* only.                                                                   *)
LEMMA AllHears ==
    ASSUME NEW A, NEW q \in Seq(A), NEW q2 \in Seq(A), NEW B, NEW r \in Seq(B),
           NEW s \in Sides, NEW f, NEW g \in [Opts -> Status],
           NEW b \in Opts, Spells(B, b), NEW result,
           All(q, r, s, f, g), Hears(B, q2, r, s, b, Kept(f, b), result),
           b \notin MaxTelOpt => result[1] # "WantNo",
           \/ q2 = q
           \/ q # << >> /\ q2 = Tail(q) /\ q[1] \in {<< s.askYes, b >>, << s.askNo, b >>}
    PROVE  /\ r \o Answered(result[2], s.tellYes, s.tellNo, b) \in Seq(B)
           /\ [g EXCEPT ![b] = result[1]] \in [Opts -> Status]
           /\ All(q2, r \o Answered(result[2], s.tellYes, s.tellNo, b), s, f,
                  [g EXCEPT ![b] = result[1]])
<1> DEFINE v == Answered(result[2], s.tellYes, s.tellNo, b)
           g2 == [g EXCEPT ![b] = result[1]]
<1>1. /\ r \o v \in Seq(B) /\ result[1] \in Status /\ result[2] \in {"", "yes", "no"}
      /\ Side(q2, r \o v, s, b, Kept(f, b), result[1])
  BY Zenon DEF Hears
<1>2. /\ g2 \in [Opts -> Status] /\ g2[b] = result[1]
      /\ \A c \in Opts : c # b => g2[c] = g[c]
  BY <1>1
<1>3. v \in Seq(B)
  <2>1. \A c \in {s.tellYes, s.tellNo} : Command(c, b) \in Seq(B)
    <3>1. ASSUME NEW c \in {s.tellYes, s.tellNo}, NEW x, NEW y, NEW z,
                 x = << "text", "IAC" >>, y = << "iac", c >>, z = << c, b >>
          PROVE  << x, y, z >> \in Seq(B)
      <4>1. c \in Verbs
        BY WordsDiffer
      <4>2. x \in B /\ y \in B /\ z \in B
        BY Zenon, <3>1, <4>1 DEF Spells
      <4>3. QED
        BY <4>2
    <3>2. QED
      BY Zenon, <3>1 DEF Command
  <2>2. \/ v = << >> \/ \E c \in {s.tellYes, s.tellNo} : v = Command(c, b)
    BY Zenon, <1>1 DEF Answered
  <2>3. QED
    BY Zenon, <2>1, <2>2, ShortSeq
<1>4. ASSUME NEW c \in Opts, c # b
      PROVE  Side(q2, r \o v, s, c, Kept(f, c), g[c])
  <2>1. Silent(v, s.tellYes, s.tellNo, c)
    BY <1>1, <1>4, WordsDiffer, OtherCommand
  <2> HIDE DEF v
  <2>2. Side(q, r, s, c, Kept(f, c), g[c])
    BY Zenon DEF All
  <2>3. << >> \in Seq(A) /\ q \o << >> = q
    BY Zenon, ShortSeq, ConcatEmptySeq
  <2>4. Side(q \o << >>, r \o v, s, c, Kept(f, c), g[c])
    BY <1>3, <2>1, <2>2, <2>3, SilentNone, SideSilent
  <2>5. Side(q, r \o v, s, c, Kept(f, c), g[c])
    BY Zenon, <2>3, <2>4
  <2>6. CASE q2 = q
    BY Zenon, <2>5, <2>6
  <2>7. CASE q # << >> /\ q2 = Tail(q) /\ q[1] \in {<< s.askYes, b >>, << s.askNo, b >>}
    <3>1. q[1] \notin {<< s.askYes, c >>, << s.askNo, c >>}
      BY Zenon, <1>4, <2>7, PairsDiffer
    <3>2. Side(Tail(q), r \o v, s, c, Kept(f, c), g[c])
      BY <1>1, <2>5, <2>7, <3>1, SideSkips
    <3>3. QED
      BY Zenon, <2>7, <3>2
  <2>8. QED
    BY Zenon, <2>6, <2>7
<1> HIDE DEF v, g2
<1>5. \A c \in Opts : Side(q2, r \o v, s, c, Kept(f, c), g2[c])
  BY Zenon, <1>1, <1>2, <1>4
<1>6. \A c \in Opts : c \notin MaxTelOpt => g2[c] # "WantNo"
  <2>1. \A c \in Opts : c \notin MaxTelOpt => g[c] # "WantNo"
    BY Zenon DEF All
  <2>2. QED
    BY Zenon, <1>2, <2>1
<1>7. All(q2, r \o v, s, f, g2)
  BY Zenon, <1>5, <1>6 DEF All
<1>8. QED
  BY Zenon, <1>1, <1>2, <1>7 DEF v, g2

(* The host never has an option on that Tera Term does not keep.           *)
LEMMA AllOutside ==
    ASSUME NEW q, NEW r, NEW s, NEW f, NEW g, All(q, r, s, f, g), NEW b \in Opts \ MaxTelOpt
    PROVE  g[b] \in {"No", "WantYes"}
<1>1. Side(q, r, s, b, Off, g[b]) /\ g[b] # "WantNo"
  BY Zenon DEF All, Kept
<1>2. PICK out, in : Corresponds("No", g[b], out, in)
  BY Zenon, <1>1 DEF Side, Off
<1>3. QED
  BY <1>1, <1>2 DEF Corresponds
-----------------------------------------------------------------------------
(* The parser, of CommRead1Byte and ParseTel together: what it waits for   *)
(* when it comes to a byte.  The phases n0 .. n7 are those of a window     *)
(* size, t0 .. t3 those of a question for the terminal's type or speed.    *)
Byte == Opts \cup {"a", "CR", "NUL", "IAC", "NOP", "SB", "SE", "SEND", "NAWS"}
             \cup {"TERMTYPE", "TERMSPEED"} \cup Verbs

SubPhases == {"n0", "n1", "n2", "n3", "n4", "n5", "n6", "n7", "t0", "t1", "t2", "t3"}
Phase == {"text", "iac"} \cup Verbs \cup SubPhases

Mark == Phase \X Byte
Sent == (Verbs \cup {"SB"}) \X Opts

Leads(m, next) ==
    CASE m[1] = "text" -> next = IF m[2] = "IAC" THEN "iac" ELSE "text"
      [] m[1] = "iac" ->
            \/ m[2] \in {"IAC", "NOP"} /\ next = "text"
            \/ m[2] = "SB" /\ next \in {"n0", "t0"}
            \/ m[2] \in Verbs /\ next = m[2]
      [] m[1] \in Verbs -> m[2] \in Opts /\ next = "text"
      [] m[1] = "n0" -> m[2] = "NAWS" /\ next = "n1"
      [] m[1] = "n1" -> m[2] = "a" /\ next = "n2"
      [] m[1] = "n2" -> m[2] = "IAC" /\ next = "n3"
      [] m[1] = "n3" -> m[2] = "IAC" /\ next = "n4"
      [] m[1] = "n4" -> m[2] = "a" /\ next = "n5"
      [] m[1] = "n5" -> m[2] = "a" /\ next = "n6"
      [] m[1] = "n6" -> m[2] = "IAC" /\ next = "n7"
      [] m[1] = "n7" -> m[2] = "SE" /\ next = "text"
      [] m[1] = "t0" -> m[2] \in {"TERMTYPE", "TERMSPEED"} /\ next = "t1"
      [] m[1] = "t1" -> m[2] = "SEND" /\ next = "t2"
      [] m[1] = "t2" -> m[2] = "IAC" /\ next = "t3"
      [] m[1] = "t3" -> m[2] = "SE" /\ next = "text"

(* r is what the parser goes through on the bytes z, to its rest.          *)
First(r) == IF r = << >> THEN "text" ELSE r[1][1]

Run(r, z) ==
    /\ r \in Seq(Mark) /\ z \in Seq(Byte) /\ Len(r) = Len(z)
    /\ \A i \in 1 .. Len(r) : r[i][2] = z[i]
    /\ \A i \in 1 .. Len(r) : Leads(r[i], IF i = Len(r) THEN "text" ELSE r[i + 1][1])

(* One byte is read.                                                       *)
LEMMA RunTail ==
    ASSUME NEW r, NEW z, Run(r, z), z # << >>
    PROVE  /\ r # << >> /\ r[1] = << First(r), z[1] >> /\ r[1] \in Mark
           /\ Leads(r[1], First(Tail(r))) /\ Run(Tail(r), Tail(z))
<1>1. /\ r \in Seq(Mark) /\ z \in Seq(Byte) /\ Len(r) = Len(z) /\ Len(r) \in Nat
      /\ Len(r) >= 1 /\ r # << >>
      /\ r[1] \in Mark /\ r[1][2] = z[1]
      /\ Leads(r[1], IF 1 = Len(r) THEN "text" ELSE r[2][1])
  BY DEF Run
<1>2. /\ Tail(r) \in Seq(Mark) /\ Tail(z) \in Seq(Byte)
      /\ Len(Tail(r)) = Len(r) - 1 /\ Len(Tail(z)) = Len(r) - 1
      /\ \A i \in 1 .. Len(r) - 1 : Tail(r)[i] = r[i + 1] /\ Tail(z)[i] = z[i + 1]
  BY <1>1, HeadTailProperties
<1>3. r[1] = << First(r), z[1] >>
  BY <1>1 DEF First, Mark
<1>4. Leads(r[1], First(Tail(r)))
  <2>1. PICK t \in Seq(Mark) : /\ t = Tail(r) /\ Len(t) = Len(r) - 1
                              /\ \A i \in 1 .. Len(r) - 1 : t[i] = r[i + 1]
    BY Zenon, <1>2
  <2>2. t = << >> <=> Len(t) = 0
    BY Zenon, EmptySeq
  <2>3. CASE Len(r) = 1
    <3>1. t = << >>
      BY <2>1, <2>2, <2>3
    <3>2. QED
      BY Zenon, <1>1, <2>1, <2>3, <3>1 DEF First
  <2>4. CASE Len(r) # 1
    <3>1. t # << >> /\ t[1] = r[2]
      <4>1. Len(t) # 0 /\ 1 \in 1 .. Len(r) - 1 /\ 1 + 1 = 2
        BY <1>1, <2>1, <2>4
      <4>2. QED
        BY Zenon, <2>1, <2>2, <4>1
    <3>2. 1 # Len(r)
      BY <2>4
    <3>3. QED
      BY Zenon, <1>1, <2>1, <3>1, <3>2 DEF First
  <2>5. QED
    BY <2>3, <2>4
<1>5. Run(Tail(r), Tail(z))
  <2> DEFINE t == Tail(r)
             y == Tail(z)
             n == Len(r) - 1
  <2>1. \A i \in 1 .. n : i + 1 \in 1 .. Len(r) /\ t[i] = r[i + 1] /\ y[i] = z[i + 1]
    BY <1>1, <1>2
  <2>2. Len(t) = n /\ Len(y) = n
    BY <1>2
  <2> HIDE DEF t, y
  <2>3. \A i \in 1 .. n : t[i][2] = y[i]
    BY <2>1 DEF Run
  <2>4. ASSUME NEW i \in 1 .. n
        PROVE  Leads(t[i], IF i = n THEN "text" ELSE t[i + 1][1])
    <3>1. Leads(r[i + 1], IF i + 1 = Len(r) THEN "text" ELSE r[i + 2][1])
      <4>1. i + 1 \in 1 .. Len(r) /\ (i + 1) + 1 = i + 2
        BY <1>1
      <4>2. QED
        BY Zenon, <4>1 DEF Run
    <3>2. CASE i = n
      <4>1. i + 1 = Len(r) /\ t[i] = r[i + 1]
        BY <1>1, <2>1, <3>2
      <4>2. QED
        BY Zenon, <3>1, <3>2, <4>1
    <3>3. CASE i # n
      <4>1. i + 1 # Len(r) /\ t[i] = r[i + 1] /\ t[i + 1] = r[i + 2]
        <5>1. i + 1 \in 1 .. n /\ i + 1 + 1 = i + 2
          BY <1>1, <3>3
        <5>2. QED
          BY <1>1, <2>1, <3>3, <5>1
      <4>2. QED
        BY Zenon, <3>1, <3>3, <4>1
    <3>4. QED
      BY <3>2, <3>3
  <2>5. QED
    BY <1>2, <2>2, <2>3, <2>4 DEF Run, t, y
<1>6. QED
  BY <1>1, <1>3, <1>4, <1>5

(* More comes behind: what starts from rest joins on to what ends there.   *)
LEMMA RunMore ==
    ASSUME NEW r, NEW z, Run(r, z), NEW u, NEW y, Run(u, y), First(u) = "text"
    PROVE  Run(r \o u, z \o y) /\ First(r \o u) = First(r)
<1> DEFINE t == r \o u
           x == z \o y
           n == Len(r)
<1>1. /\ r \in Seq(Mark) /\ z \in Seq(Byte) /\ Len(z) = n /\ n \in Nat
      /\ u \in Seq(Mark) /\ y \in Seq(Byte) /\ Len(y) = Len(u) /\ Len(u) \in Nat
  BY DEF Run
<1>2. /\ t \in Seq(Mark) /\ x \in Seq(Byte)
      /\ Len(t) = n + Len(u) /\ Len(x) = n + Len(u)
      /\ \A i \in 1 .. n + Len(u) : /\ t[i] = IF i <= n THEN r[i] ELSE u[i - n]
                                   /\ x[i] = IF i <= n THEN z[i] ELSE y[i - n]
  <2>1. /\ t \in Seq(Mark) /\ Len(t) = Len(r) + Len(u)
        /\ \A i \in 1 .. Len(r) + Len(u) : t[i] = IF i <= Len(r) THEN r[i] ELSE u[i - Len(r)]
    BY Zenon, <1>1, ConcatProperties
  <2>2. /\ x \in Seq(Byte) /\ Len(x) = Len(z) + Len(y)
        /\ \A i \in 1 .. Len(z) + Len(y) : x[i] = IF i <= Len(z) THEN z[i] ELSE y[i - Len(z)]
    BY Zenon, <1>1, ConcatProperties
  <2>3. QED
    BY Zenon, <1>1, <2>1, <2>2
<1>3. /\ \A i \in 1 .. n : t[i] = r[i] /\ x[i] = z[i]
      /\ \A i \in 1 .. Len(u) : t[n + i] = u[i] /\ x[n + i] = y[i]
  <2>1. \A i \in 1 .. n : i \in 1 .. n + Len(u) /\ i <= n
    BY <1>1
  <2>2. \A i \in 1 .. Len(u) : n + i \in 1 .. n + Len(u) /\ ~(n + i <= n) /\ (n + i) - n = i
    BY <1>1
  <2> HIDE DEF t, x, n
  <2>3. QED
    BY Zenon, <1>2, <2>1, <2>2
<1>4. \A i \in 1 .. Len(t) : i \in 1 .. n \/ \E j \in 1 .. Len(u) : i = n + j
  <2>1. ASSUME NEW i \in 1 .. Len(t), i \notin 1 .. n
        PROVE  i - n \in 1 .. Len(u) /\ i = n + (i - n)
    BY <1>1, <1>2, <2>1
  <2>2. QED
    BY Zenon, <2>1
<1>5. r = << >> <=> n = 0
  BY <1>1, EmptySeq
<1>6. u = << >> <=> Len(u) = 0
  BY <1>1, EmptySeq
<1>7. t = << >> <=> n + Len(u) = 0
  BY <1>2, EmptySeq
<1> HIDE DEF t, x
<1>8. First(t) = First(r)
  <2>1. CASE n = 0 /\ Len(u) = 0
    BY <1>5, <1>7, <2>1 DEF First
  <2>2. CASE n # 0
    <3>1. t # << >> /\ r # << >> /\ 1 \in 1 .. n
      BY <1>1, <1>5, <1>7, <2>2
    <3>2. QED
      BY Zenon, <1>3, <3>1 DEF First
  <2>3. CASE n = 0 /\ Len(u) # 0
    <3>1. t # << >> /\ r = << >> /\ u # << >> /\ 1 \in 1 .. Len(u) /\ n + 1 = 1
      BY <1>1, <1>5, <1>6, <1>7, <2>3
    <3>2. t[1] = u[1]
      <4>1. t[n + 1] = u[1]
        BY Zenon, <1>3, <3>1
      <4>2. QED
        BY <3>1, <4>1
    <3>3. QED
      BY Zenon, <3>1, <3>2 DEF First
  <2>4. QED
    BY <2>1, <2>2, <2>3
<1>9. \A i \in 1 .. Len(t) : t[i][2] = x[i]
  <2>1. \A i \in 1 .. n : r[i][2] = z[i]
    BY DEF Run
  <2>2. \A i \in 1 .. Len(u) : u[i][2] = y[i]
    BY DEF Run
  <2>3. ASSUME NEW i \in 1 .. n
        PROVE  t[i][2] = x[i]
    BY Zenon, <1>3, <2>1
  <2>4. ASSUME NEW j \in 1 .. Len(u)
        PROVE  t[n + j][2] = x[n + j]
    BY Zenon, <1>3, <2>2
  <2>5. QED
    BY Zenon, <1>4, <2>3, <2>4
<1>10. ASSUME NEW i \in 1 .. n
       PROVE  Leads(t[i], IF i = Len(t) THEN "text" ELSE t[i + 1][1])
  <2>1. Leads(r[i], IF i = n THEN "text" ELSE r[i + 1][1])
    BY DEF Run
  <2>2. CASE i # n
    <3>1. i + 1 \in 1 .. n /\ i # Len(t)
      BY <1>1, <1>2, <2>2
    <3>2. QED
      BY Zenon, <1>3, <2>1, <2>2, <3>1
  <2>3. CASE i = n /\ Len(u) = 0
    <3>1. i = Len(t)
      BY <1>1, <1>2, <2>3
    <3>2. QED
      BY Zenon, <1>3, <2>1, <2>3, <3>1
  <2>4. CASE i = n /\ Len(u) # 0
    <3>1. i # Len(t) /\ 1 \in 1 .. Len(u) /\ i + 1 = n + 1
      BY <1>1, <1>2, <2>4
    <3>2. t[i + 1] = u[1] /\ u[1][1] = "text"
      BY Zenon, <1>3, <1>6, <2>4, <3>1 DEF First
    <3>3. QED
      BY Zenon, <1>3, <2>1, <2>4, <3>1, <3>2
  <2>5. QED
    BY <2>2, <2>3, <2>4
<1>11. ASSUME NEW j \in 1 .. Len(u)
       PROVE  Leads(t[n + j], IF n + j = Len(t) THEN "text" ELSE t[n + j + 1][1])
  <2>1. Leads(u[j], IF j = Len(u) THEN "text" ELSE u[j + 1][1])
    BY DEF Run
  <2>2. CASE j = Len(u)
    <3>1. n + j = Len(t)
      BY <1>1, <1>2, <2>2
    <3>2. QED
      BY Zenon, <1>3, <2>1, <2>2, <3>1
  <2>3. CASE j # Len(u)
    <3>1. n + j # Len(t) /\ j + 1 \in 1 .. Len(u) /\ n + j + 1 = n + (j + 1)
      BY <1>1, <1>2, <2>3
    <3>2. t[n + (j + 1)] = u[j + 1] /\ t[n + j] = u[j]
      BY Zenon, <1>3, <3>1
    <3>3. t[n + j + 1] = u[j + 1]
      BY Zenon, <3>1, <3>2
    <3>4. QED
      BY Zenon, <2>1, <2>3, <3>1, <3>2, <3>3
  <2>4. QED
    BY <2>2, <2>3
<1>12. \A i \in 1 .. Len(t) : Leads(t[i], IF i = Len(t) THEN "text" ELSE t[i + 1][1])
  BY Zenon, <1>4, <1>10, <1>11
<1>13. Run(t, x)
  BY <1>1, <1>2, <1>9, <1>12 DEF Run
<1>14. QED
  BY Zenon, <1>8, <1>13 DEF t, x

(* Steps of the parser, one by one.                                        *)
LEMMA LeadsSteps ==
    /\ Leads(<< "text", "IAC" >>, "iac")
    /\ \A c \in {"a", "CR", "NUL"} : Leads(<< "text", c >>, "text")
    /\ Leads(<< "iac", "IAC" >>, "text") /\ Leads(<< "iac", "NOP" >>, "text")
    /\ Leads(<< "iac", "SB" >>, "n0") /\ Leads(<< "iac", "SB" >>, "t0")
    /\ \A c \in Verbs : Leads(<< "iac", c >>, c)
    /\ \A c \in Verbs, b \in Opts : Leads(<< c, b >>, "text")
    /\ Leads(<< "n0", "NAWS" >>, "n1") /\ Leads(<< "n1", "a" >>, "n2")
    /\ Leads(<< "n2", "IAC" >>, "n3") /\ Leads(<< "n3", "IAC" >>, "n4")
    /\ Leads(<< "n4", "a" >>, "n5") /\ Leads(<< "n5", "a" >>, "n6")
    /\ Leads(<< "n6", "IAC" >>, "n7") /\ Leads(<< "n7", "SE" >>, "text")
    /\ \A b \in {"TERMTYPE", "TERMSPEED"} : Leads(<< "t0", b >>, "t1")
    /\ Leads(<< "t1", "SEND" >>, "t2") /\ Leads(<< "t2", "IAC" >>, "t3")
    /\ Leads(<< "t3", "SE" >>, "text")
<1>1. \A c \in {"a", "CR", "NUL"} : Leads(<< "text", c >>, "text")
  BY DEF Leads, Verbs
<1>2. \A c \in Verbs : Leads(<< "iac", c >>, c)
  BY DEF Leads, Verbs
<1>3. \A c \in Verbs, b \in Opts : Leads(<< c, b >>, "text")
  <2>1. ASSUME NEW c \in Verbs, NEW b \in Opts
        PROVE  Leads(<< c, b >>, "text")
    <3>1. CASE c = "WILL"
      BY <3>1 DEF Leads, Verbs
    <3>2. CASE c = "WONT"
      BY <3>2 DEF Leads, Verbs
    <3>3. CASE c = "DO"
      BY <3>3 DEF Leads, Verbs
    <3>4. CASE c = "DONT"
      BY <3>4 DEF Leads, Verbs
    <3>5. QED
      BY <3>1, <3>2, <3>3, <3>4 DEF Verbs
  <2>2. QED
    BY Zenon, <2>1
<1>4. \A b \in {"TERMTYPE", "TERMSPEED"} : Leads(<< "t0", b >>, "t1")
  BY DEF Leads, Verbs
<1>5. Leads(<< "text", "IAC" >>, "iac")
  BY DEF Leads, Verbs
<1>6. /\ Leads(<< "iac", "IAC" >>, "text") /\ Leads(<< "iac", "NOP" >>, "text")
      /\ Leads(<< "iac", "SB" >>, "n0") /\ Leads(<< "iac", "SB" >>, "t0")
  BY DEF Leads, Verbs
<1>7. Leads(<< "n0", "NAWS" >>, "n1") /\ Leads(<< "n1", "a" >>, "n2")
  <2>1. Leads(<< "n0", "NAWS" >>, "n1")
    BY DEF Leads, Verbs
  <2>2. Leads(<< "n1", "a" >>, "n2")
    BY DEF Leads, Verbs
  <2>3. QED
    BY <2>1, <2>2
<1>8. Leads(<< "n2", "IAC" >>, "n3") /\ Leads(<< "n3", "IAC" >>, "n4")
  BY DEF Leads, Verbs
<1>9. Leads(<< "n4", "a" >>, "n5") /\ Leads(<< "n5", "a" >>, "n6")
  BY DEF Leads, Verbs
<1>10. Leads(<< "n6", "IAC" >>, "n7") /\ Leads(<< "n7", "SE" >>, "text")
  BY DEF Leads, Verbs
<1>11. Leads(<< "t1", "SEND" >>, "t2") /\ Leads(<< "t2", "IAC" >>, "t3")
  BY DEF Leads, Verbs
<1>12. Leads(<< "t3", "SE" >>, "text")
  BY DEF Leads, Verbs
<1>13. QED
  BY Zenon, <1>1, <1>2, <1>3, <1>4, <1>5, <1>6, <1>7, <1>8, <1>9, <1>10, <1>11, <1>12

InFrontOf(B, m, r, u) ==
    /\ u \in Seq(B) /\ Len(u) = Len(r) + 1 /\ u[1] = m
    /\ \A i \in 1 .. Len(r) : u[i + 1] = r[i]

LEMMA FrontExists ==
    ASSUME NEW B, NEW m \in B, NEW r \in Seq(B)
    PROVE  \E u : InFrontOf(B, m, r, u)
<1>1. PICK h : h = << m >> /\ h \in Seq(B) /\ Len(h) = 1 /\ h[1] = m
  <2>1. << m >> \in Seq(B) /\ Len(<< m >>) = 1 /\ << m >>[1] = m
    OBVIOUS
  <2>2. QED
    BY Zenon, <2>1
<1>2. PICK u : u = h \o r
  OBVIOUS
<1>3. /\ u \in Seq(B) /\ Len(u) = Len(h) + Len(r)
      /\ \A i \in 1 .. Len(h) + Len(r) : u[i] = IF i <= Len(h) THEN h[i] ELSE r[i - Len(h)]
  <2>1. /\ h \o r \in Seq(B) /\ Len(h \o r) = Len(h) + Len(r)
        /\ \A i \in 1 .. Len(h) + Len(r) : (h \o r)[i] = IF i <= Len(h) THEN h[i] ELSE r[i - Len(h)]
    BY <1>1, ConcatProperties
  <2>2. QED
    BY <1>2, <2>1
<1>4. InFrontOf(B, m, r, u)
  BY <1>1, <1>3 DEF InFrontOf
<1>5. QED
  BY Zenon, <1>4

(* One more byte in front.                                                 *)
LEMMA RunInFront ==
    ASSUME NEW r, NEW z, Run(r, z), NEW p \in Phase, NEW c \in Byte,
           Leads(<< p, c >>, First(r)),
           NEW u, InFrontOf(Mark, << p, c >>, r, u),
           NEW y, InFrontOf(Byte, c, z, y)
    PROVE  Run(u, y) /\ First(u) = p
<1> DEFINE m == << p, c >>
<1>1. m \in Mark
  BY DEF Mark
<1>2. m[1] = p /\ m[2] = c
  OBVIOUS
<1>3. /\ r \in Seq(Mark) /\ z \in Seq(Byte) /\ Len(z) = Len(r) /\ Len(r) \in Nat
  BY DEF Run
<1> HIDE DEF m
<1>4. InFrontOf(Mark, m, r, u)
  BY Zenon DEF m
<1>5. /\ u \in Seq(Mark) /\ Len(u) = Len(r) + 1 /\ u[1] = m
      /\ \A i \in 1 .. Len(r) : u[i + 1] = r[i]
  BY Zenon, <1>4 DEF InFrontOf
<1>6. /\ y \in Seq(Byte) /\ Len(y) = Len(r) + 1 /\ y[1] = c
      /\ \A i \in 1 .. Len(r) : y[i + 1] = z[i]
  BY Zenon, <1>3 DEF InFrontOf
<1>7. u # << >>
  BY <1>3, <1>5, EmptySeq
<1>8. First(u) = p
  BY Zenon, <1>2, <1>5, <1>7 DEF First
<1>9. \A i \in 1 .. Len(u) : i = 1 \/ \E j \in 1 .. Len(r) : i = j + 1
  <2>1. ASSUME NEW i \in 1 .. Len(u), i # 1
        PROVE  i - 1 \in 1 .. Len(r) /\ i = (i - 1) + 1
    BY <1>3, <1>5, <2>1
  <2>2. QED
    BY Zenon, <2>1
<1>10. \A i \in 1 .. Len(u) : u[i][2] = y[i]
  <2>1. \A j \in 1 .. Len(r) : u[j + 1][2] = y[j + 1]
    BY Zenon, <1>5, <1>6 DEF Run
  <2>2. QED
    BY Zenon, <1>2, <1>5, <1>6, <1>9, <2>1
<1>11. Leads(u[1], IF 1 = Len(u) THEN "text" ELSE u[1 + 1][1])
  <2>1. CASE r = << >>
    <3>1. Len(u) = 1
      BY <1>3, <1>5, <2>1
    <3>2. QED
      BY Zenon, <1>5, <2>1, <3>1 DEF First, m
  <2>2. CASE r # << >>
    <3>1. 1 # Len(u) /\ 1 \in 1 .. Len(r)
      BY <1>3, <1>5, <2>2, EmptySeq
    <3>2. QED
      BY Zenon, <1>5, <2>2, <3>1 DEF First, m
  <2>3. QED
    BY <2>1, <2>2
<1>12. ASSUME NEW j \in 1 .. Len(r)
       PROVE  Leads(u[j + 1], IF j + 1 = Len(u) THEN "text" ELSE u[j + 1 + 1][1])
  <2>1. Leads(r[j], IF j = Len(r) THEN "text" ELSE r[j + 1][1])
    BY DEF Run
  <2>2. CASE j = Len(r)
    <3>1. j + 1 = Len(u)
      BY <1>5, <2>2
    <3>2. QED
      BY Zenon, <1>5, <2>1, <2>2, <3>1
  <2>3. CASE j # Len(r)
    <3>1. j + 1 \in 1 .. Len(r) /\ j + 1 # Len(u)
      BY <1>3, <1>5, <2>3
    <3>2. u[j + 1] = r[j] /\ u[j + 1 + 1] = r[j + 1]
      BY Zenon, <1>5, <3>1
    <3>3. QED
      BY Zenon, <2>1, <2>3, <3>1, <3>2
  <2>4. QED
    BY <2>2, <2>3
<1>13. \A i \in 1 .. Len(u) : Leads(u[i], IF i = Len(u) THEN "text" ELSE u[i + 1][1])
  BY Zenon, <1>9, <1>11, <1>12
<1>14. QED
  BY <1>5, <1>6, <1>8, <1>10, <1>13 DEF Run

(* At rest nothing is left to read.                                        *)
LEMMA NothingRuns == Run(<< >>, << >>) /\ First(<< >>) = "text"
<1>1. Run(<< >>, << >>)
  BY DEF Run
<1>2. First(<< >>) = "text"
  BY DEF First
<1>3. QED
  BY <1>1, <1>2

(* The bytes z, read in phase p, bring the parser to rest without a        *)
(* command about an option.                                                *)
Plain(z, p) == \E u :
    Run(u, z) /\ First(u) = p /\ \A i \in 1 .. Len(u) : u[i][1] \notin Verbs

LEMMA PlainNothing == Plain(<< >>, "text")
<1>1. Run(<< >>, << >>)
  BY NothingRuns
<1>2. First(<< >>) = "text"
  BY NothingRuns
<1>3. \A i \in 1 .. Len(<< >>) : << >>[i][1] \notin Verbs
  OBVIOUS
<1>4. QED
  BY Zenon, <1>1, <1>2, <1>3 DEF Plain

LEMMA PlainInFront ==
    ASSUME NEW z, NEW next, Plain(z, next), NEW p \in Phase \ Verbs, NEW c \in Byte,
           Leads(<< p, c >>, next), NEW y, InFrontOf(Byte, c, z, y)
    PROVE  Plain(y, p)
<1>1. PICK r : Run(r, z) /\ First(r) = next /\ \A i \in 1 .. Len(r) : r[i][1] \notin Verbs
  BY Zenon DEF Plain
<1>2. r \in Seq(Mark) /\ Len(r) \in Nat
  BY <1>1 DEF Run
<1>3. PICK m \in Mark : m = << p, c >>
  BY DEF Mark
<1>4. PICK u : InFrontOf(Mark, m, r, u)
  BY Zenon, <1>2, FrontExists
<1>5. Run(u, y) /\ First(u) = p
  BY <1>1, <1>3, <1>4, RunInFront
<1>6. m[1] = p
  BY <1>3
<1>7. \A i \in 1 .. Len(u) : i = 1 \/ \E j \in 1 .. Len(r) : i = j + 1
  <2>1. ASSUME NEW i \in 1 .. Len(u), i # 1
        PROVE  i - 1 \in 1 .. Len(r) /\ i = (i - 1) + 1
    BY <1>2, <1>4, <2>1 DEF InFrontOf
  <2>2. QED
    BY Zenon, <2>1
<1>8. \A i \in 1 .. Len(u) : u[i][1] \notin Verbs
  <2>1. u[1][1] \notin Verbs
    BY Zenon, <1>4, <1>6 DEF InFrontOf
  <2>2. \A j \in 1 .. Len(r) : u[j + 1][1] \notin Verbs
    BY Zenon, <1>1, <1>4 DEF InFrontOf
  <2>3. QED
    BY Zenon, <1>7, <2>1, <2>2
<1>9. QED
  BY Zenon, <1>5, <1>8 DEF Plain

(* What the host says: characters, a command without an option.            *)
LEMMA PlainLetter ==
    Plain(<< "a" >>, "text")
<1>1. Plain(<< "a" >>, "text")
  <2>1. InFrontOf(Byte, "a", << >>, << "a" >>)
    BY DEF InFrontOf, Byte
  <2>2. Leads(<< "text", "a" >>, "text")
    BY Zenon, LeadsSteps
  <2>3. "text" \in Phase \ Verbs /\ "a" \in Byte
    BY DEF Phase, Verbs, SubPhases, Byte
  <2>4. QED
    BY <2>1, <2>2, <2>3, PlainNothing, PlainInFront
<1>2. QED
  BY <1>1

LEMMA PlainReturn ==
    Plain(<< "CR" >>, "text")
<1>1. Plain(<< "CR" >>, "text")
  <2>1. InFrontOf(Byte, "CR", << >>, << "CR" >>)
    BY DEF InFrontOf, Byte
  <2>2. Leads(<< "text", "CR" >>, "text")
    BY Zenon, LeadsSteps
  <2>3. "text" \in Phase \ Verbs /\ "CR" \in Byte
    BY DEF Phase, Verbs, SubPhases, Byte
  <2>4. QED
    BY <2>1, <2>2, <2>3, PlainNothing, PlainInFront
<1>2. QED
  BY <1>1

LEMMA PlainReturnNul ==
    Plain(<< "CR", "NUL" >>, "text")
<1>1. Plain(<< "NUL" >>, "text")
  <2>1. InFrontOf(Byte, "NUL", << >>, << "NUL" >>)
    BY DEF InFrontOf, Byte
  <2>2. Leads(<< "text", "NUL" >>, "text")
    BY Zenon, LeadsSteps
  <2>3. "text" \in Phase \ Verbs /\ "NUL" \in Byte
    BY DEF Phase, Verbs, SubPhases, Byte
  <2>4. QED
    BY <2>1, <2>2, <2>3, PlainNothing, PlainInFront
<1>2. Plain(<< "CR", "NUL" >>, "text")
  <2>1. InFrontOf(Byte, "CR", << "NUL" >>, << "CR", "NUL" >>)
    BY DEF InFrontOf, Byte
  <2>2. Leads(<< "text", "CR" >>, "text")
    BY Zenon, LeadsSteps
  <2>3. "text" \in Phase \ Verbs /\ "CR" \in Byte
    BY DEF Phase, Verbs, SubPhases, Byte
  <2>4. QED
    BY <2>1, <2>2, <2>3, <1>1, PlainInFront
<1>3. QED
  BY <1>2

LEMMA PlainTwice ==
    Plain(<< "IAC", "IAC" >>, "text")
<1>1. Plain(<< "IAC" >>, "iac")
  <2>1. InFrontOf(Byte, "IAC", << >>, << "IAC" >>)
    BY DEF InFrontOf, Byte
  <2>2. Leads(<< "iac", "IAC" >>, "text")
    BY Zenon, LeadsSteps
  <2>3. "iac" \in Phase \ Verbs /\ "IAC" \in Byte
    BY DEF Phase, Verbs, SubPhases, Byte
  <2>4. QED
    BY <2>1, <2>2, <2>3, PlainNothing, PlainInFront
<1>2. Plain(<< "IAC", "IAC" >>, "text")
  <2>1. InFrontOf(Byte, "IAC", << "IAC" >>, << "IAC", "IAC" >>)
    BY DEF InFrontOf, Byte
  <2>2. Leads(<< "text", "IAC" >>, "iac")
    BY Zenon, LeadsSteps
  <2>3. "text" \in Phase \ Verbs /\ "IAC" \in Byte
    BY DEF Phase, Verbs, SubPhases, Byte
  <2>4. QED
    BY <2>1, <2>2, <2>3, <1>1, PlainInFront
<1>3. QED
  BY <1>2

LEMMA PlainNop ==
    Plain(<< "IAC", "NOP" >>, "text")
<1>1. Plain(<< "NOP" >>, "iac")
  <2>1. InFrontOf(Byte, "NOP", << >>, << "NOP" >>)
    BY DEF InFrontOf, Byte
  <2>2. Leads(<< "iac", "NOP" >>, "text")
    BY Zenon, LeadsSteps
  <2>3. "iac" \in Phase \ Verbs /\ "NOP" \in Byte
    BY DEF Phase, Verbs, SubPhases, Byte
  <2>4. QED
    BY <2>1, <2>2, <2>3, PlainNothing, PlainInFront
<1>2. Plain(<< "IAC", "NOP" >>, "text")
  <2>1. InFrontOf(Byte, "IAC", << "NOP" >>, << "IAC", "NOP" >>)
    BY DEF InFrontOf, Byte
  <2>2. Leads(<< "text", "IAC" >>, "iac")
    BY Zenon, LeadsSteps
  <2>3. "text" \in Phase \ Verbs /\ "IAC" \in Byte
    BY DEF Phase, Verbs, SubPhases, Byte
  <2>4. QED
    BY <2>1, <2>2, <2>3, <1>1, PlainInFront
<1>3. QED
  BY <1>2

(* A window size, of which a byte 255 comes twice.                         *)
LEMMA PlainSize ==
    Plain(<< "IAC", "SB", "NAWS", "a", "IAC", "IAC", "a", "a", "IAC", "SE" >>, "text")
<1>1. Plain(<< "SE" >>, "n7")
  <2>1. InFrontOf(Byte, "SE", << >>, << "SE" >>)
    BY DEF InFrontOf, Byte
  <2>2. Leads(<< "n7", "SE" >>, "text")
    BY Zenon, LeadsSteps
  <2>3. "n7" \in Phase \ Verbs /\ "SE" \in Byte
    BY DEF Phase, Verbs, SubPhases, Byte
  <2>4. QED
    BY <2>1, <2>2, <2>3, PlainNothing, PlainInFront
<1>2. Plain(<< "IAC", "SE" >>, "n6")
  <2>1. InFrontOf(Byte, "IAC", << "SE" >>, << "IAC", "SE" >>)
    BY DEF InFrontOf, Byte
  <2>2. Leads(<< "n6", "IAC" >>, "n7")
    BY Zenon, LeadsSteps
  <2>3. "n6" \in Phase \ Verbs /\ "IAC" \in Byte
    BY DEF Phase, Verbs, SubPhases, Byte
  <2>4. QED
    BY <2>1, <2>2, <2>3, <1>1, PlainInFront
<1>3. Plain(<< "a", "IAC", "SE" >>, "n5")
  <2>1. InFrontOf(Byte, "a", << "IAC", "SE" >>, << "a", "IAC", "SE" >>)
    BY DEF InFrontOf, Byte
  <2>2. Leads(<< "n5", "a" >>, "n6")
    BY Zenon, LeadsSteps
  <2>3. "n5" \in Phase \ Verbs /\ "a" \in Byte
    BY DEF Phase, Verbs, SubPhases, Byte
  <2>4. QED
    BY <2>1, <2>2, <2>3, <1>2, PlainInFront
<1>4. Plain(<< "a", "a", "IAC", "SE" >>, "n4")
  <2>1. InFrontOf(Byte, "a", << "a", "IAC", "SE" >>, << "a", "a", "IAC", "SE" >>)
    BY DEF InFrontOf, Byte
  <2>2. Leads(<< "n4", "a" >>, "n5")
    BY Zenon, LeadsSteps
  <2>3. "n4" \in Phase \ Verbs /\ "a" \in Byte
    BY DEF Phase, Verbs, SubPhases, Byte
  <2>4. QED
    BY <2>1, <2>2, <2>3, <1>3, PlainInFront
<1>5. Plain(<< "IAC", "a", "a", "IAC", "SE" >>, "n3")
  <2>1. InFrontOf(Byte, "IAC", << "a", "a", "IAC", "SE" >>, << "IAC", "a", "a", "IAC", "SE" >>)
    BY DEF InFrontOf, Byte
  <2>2. Leads(<< "n3", "IAC" >>, "n4")
    BY Zenon, LeadsSteps
  <2>3. "n3" \in Phase \ Verbs /\ "IAC" \in Byte
    BY DEF Phase, Verbs, SubPhases, Byte
  <2>4. QED
    BY <2>1, <2>2, <2>3, <1>4, PlainInFront
<1>6. Plain(<< "IAC", "IAC", "a", "a", "IAC", "SE" >>, "n2")
  <2>1. InFrontOf(Byte, "IAC", << "IAC", "a", "a", "IAC", "SE" >>, << "IAC", "IAC", "a", "a", "IAC", "SE" >>)
    BY DEF InFrontOf, Byte
  <2>2. Leads(<< "n2", "IAC" >>, "n3")
    BY Zenon, LeadsSteps
  <2>3. "n2" \in Phase \ Verbs /\ "IAC" \in Byte
    BY DEF Phase, Verbs, SubPhases, Byte
  <2>4. QED
    BY <2>1, <2>2, <2>3, <1>5, PlainInFront
<1>7. Plain(<< "a", "IAC", "IAC", "a", "a", "IAC", "SE" >>, "n1")
  <2>1. InFrontOf(Byte, "a", << "IAC", "IAC", "a", "a", "IAC", "SE" >>, << "a", "IAC", "IAC", "a", "a", "IAC", "SE" >>)
    BY DEF InFrontOf, Byte
  <2>2. Leads(<< "n1", "a" >>, "n2")
    BY Zenon, LeadsSteps
  <2>3. "n1" \in Phase \ Verbs /\ "a" \in Byte
    BY DEF Phase, Verbs, SubPhases, Byte
  <2>4. QED
    BY <2>1, <2>2, <2>3, <1>6, PlainInFront
<1>8. Plain(<< "NAWS", "a", "IAC", "IAC", "a", "a", "IAC", "SE" >>, "n0")
  <2>1. InFrontOf(Byte, "NAWS", << "a", "IAC", "IAC", "a", "a", "IAC", "SE" >>, << "NAWS", "a", "IAC", "IAC", "a", "a", "IAC", "SE" >>)
    BY DEF InFrontOf, Byte
  <2>2. Leads(<< "n0", "NAWS" >>, "n1")
    BY Zenon, LeadsSteps
  <2>3. "n0" \in Phase \ Verbs /\ "NAWS" \in Byte
    BY DEF Phase, Verbs, SubPhases, Byte
  <2>4. QED
    BY <2>1, <2>2, <2>3, <1>7, PlainInFront
<1>9. Plain(<< "SB", "NAWS", "a", "IAC", "IAC", "a", "a", "IAC", "SE" >>, "iac")
  <2>1. InFrontOf(Byte, "SB", << "NAWS", "a", "IAC", "IAC", "a", "a", "IAC", "SE" >>, << "SB", "NAWS", "a", "IAC", "IAC", "a", "a", "IAC", "SE" >>)
    BY DEF InFrontOf, Byte
  <2>2. Leads(<< "iac", "SB" >>, "n0")
    BY Zenon, LeadsSteps
  <2>3. "iac" \in Phase \ Verbs /\ "SB" \in Byte
    BY DEF Phase, Verbs, SubPhases, Byte
  <2>4. QED
    BY <2>1, <2>2, <2>3, <1>8, PlainInFront
<1>10. Plain(<< "IAC", "SB", "NAWS", "a", "IAC", "IAC", "a", "a", "IAC", "SE" >>, "text")
  <2>1. InFrontOf(Byte, "IAC", << "SB", "NAWS", "a", "IAC", "IAC", "a", "a", "IAC", "SE" >>, << "IAC", "SB", "NAWS", "a", "IAC", "IAC", "a", "a", "IAC", "SE" >>)
    BY DEF InFrontOf, Byte
  <2>2. Leads(<< "text", "IAC" >>, "iac")
    BY Zenon, LeadsSteps
  <2>3. "text" \in Phase \ Verbs /\ "IAC" \in Byte
    BY DEF Phase, Verbs, SubPhases, Byte
  <2>4. QED
    BY <2>1, <2>2, <2>3, <1>9, PlainInFront
<1>11. QED
  BY <1>10

(* The question for the type or the speed of the terminal.                 *)
LEMMA PlainQuestion ==
    ASSUME NEW b \in {"TERMTYPE", "TERMSPEED"}
    PROVE  Plain(<< "IAC", "SB", b, "SEND", "IAC", "SE" >>, "text")
<1>1. Plain(<< "SE" >>, "t3")
  <2>1. InFrontOf(Byte, "SE", << >>, << "SE" >>)
    BY DEF InFrontOf, Byte
  <2>2. Leads(<< "t3", "SE" >>, "text")
    BY Zenon, LeadsSteps
  <2>3. "t3" \in Phase \ Verbs /\ "SE" \in Byte
    BY DEF Phase, Verbs, SubPhases, Byte
  <2>4. QED
    BY <2>1, <2>2, <2>3, PlainNothing, PlainInFront
<1>2. Plain(<< "IAC", "SE" >>, "t2")
  <2>1. InFrontOf(Byte, "IAC", << "SE" >>, << "IAC", "SE" >>)
    BY DEF InFrontOf, Byte
  <2>2. Leads(<< "t2", "IAC" >>, "t3")
    BY Zenon, LeadsSteps
  <2>3. "t2" \in Phase \ Verbs /\ "IAC" \in Byte
    BY DEF Phase, Verbs, SubPhases, Byte
  <2>4. QED
    BY <2>1, <2>2, <2>3, <1>1, PlainInFront
<1>3. Plain(<< "SEND", "IAC", "SE" >>, "t1")
  <2>1. InFrontOf(Byte, "SEND", << "IAC", "SE" >>, << "SEND", "IAC", "SE" >>)
    BY DEF InFrontOf, Byte
  <2>2. Leads(<< "t1", "SEND" >>, "t2")
    BY Zenon, LeadsSteps
  <2>3. "t1" \in Phase \ Verbs /\ "SEND" \in Byte
    BY DEF Phase, Verbs, SubPhases, Byte
  <2>4. QED
    BY <2>1, <2>2, <2>3, <1>2, PlainInFront
<1>4. Plain(<< b, "SEND", "IAC", "SE" >>, "t0")
  <2>1. InFrontOf(Byte, b, << "SEND", "IAC", "SE" >>, << b, "SEND", "IAC", "SE" >>)
    BY DEF InFrontOf, Byte
  <2>2. Leads(<< "t0", b >>, "t1")
    BY Zenon, LeadsSteps
  <2>3. "t0" \in Phase \ Verbs /\ b \in Byte
    BY DEF Phase, Verbs, SubPhases, Byte
  <2>4. QED
    BY <2>1, <2>2, <2>3, <1>3, PlainInFront
<1>5. Plain(<< "SB", b, "SEND", "IAC", "SE" >>, "iac")
  <2>1. InFrontOf(Byte, "SB", << b, "SEND", "IAC", "SE" >>, << "SB", b, "SEND", "IAC", "SE" >>)
    BY DEF InFrontOf, Byte
  <2>2. Leads(<< "iac", "SB" >>, "t0")
    BY Zenon, LeadsSteps
  <2>3. "iac" \in Phase \ Verbs /\ "SB" \in Byte
    BY DEF Phase, Verbs, SubPhases, Byte
  <2>4. QED
    BY <2>1, <2>2, <2>3, <1>4, PlainInFront
<1>6. Plain(<< "IAC", "SB", b, "SEND", "IAC", "SE" >>, "text")
  <2>1. InFrontOf(Byte, "IAC", << "SB", b, "SEND", "IAC", "SE" >>, << "IAC", "SB", b, "SEND", "IAC", "SE" >>)
    BY DEF InFrontOf, Byte
  <2>2. Leads(<< "text", "IAC" >>, "iac")
    BY Zenon, LeadsSteps
  <2>3. "text" \in Phase \ Verbs /\ "IAC" \in Byte
    BY DEF Phase, Verbs, SubPhases, Byte
  <2>4. QED
    BY <2>1, <2>2, <2>3, <1>5, PlainInFront
<1>7. QED
  BY <1>6
-----------------------------------------------------------------------------
(* Where the parser stands when it waits for p: CommRead1Byte has the      *)
(* text and the byte behind an IAC, ParseTel all the rest (and that byte   *)
(* again, once CommRead1Byte has seen that it starts a command).           *)
Holds(p) ==
    CASE p = "n1" -> SubOptBuff = << "NAWS" >>
      [] p \in {"n2", "n3"} -> SubOptBuff = << "NAWS", "a" >>
      [] p = "n4" -> SubOptBuff = << "NAWS", "a", "IAC" >>
      [] p = "n5" -> SubOptBuff = << "NAWS", "a", "IAC", "a" >>
      [] p \in {"n6", "n7"} -> SubOptBuff = << "NAWS", "a", "IAC", "a", "a" >>
      [] p = "t1" -> \E b \in {"TERMTYPE", "TERMSPEED"} : SubOptBuff = << b >>
      [] p \in {"t2", "t3"} ->
            \E b \in {"TERMTYPE", "TERMSPEED"} : SubOptBuff = << b, "SEND" >>
      [] OTHER -> SubOptBuff = << >>

At(p) ==
    /\ TelMode <=> (p \notin {"text", "iac"} \/ (p = "iac" /\ ~IACFlag))
    /\ IACFlag => p = "iac" /\ ~TelCRFlag
    /\ (p = "iac" /\ ~IACFlag) => toTerm # << >> /\ Head(toTerm) # "IAC"
    /\ TelStatus = IF p \in Verbs THEN p ELSE IF p \in SubPhases THEN "SB" ELSE "TelIdle"
    /\ SubOptIAC <=> p \in {"n3", "n7", "t3"}
    /\ Holds(p)

Flags == {TelMode, IACFlag, TelCRFlag, SubOptIAC} \subseteq BOOLEAN

(* The byte behind an IAC.                                                 *)
LEMMA ParseAtIac ==
    ASSUME Flags, NEW b, NEW next, b # "IAC", Leads(<< "iac", b >>, next),
           At("iac"), TelMode, ParseTelIAC(b),
           TelMode' <=> (TelStatus' # "TelIdle"), UNCHANGED << IACFlag, TelCRFlag >>
    PROVE  At(next)' /\ next \notin {"iac"}
<1>1. \/ b = "NOP" /\ next = "text"
      \/ b = "SB" /\ next \in {"n0", "t0"}
      \/ b \in Verbs /\ next = b
  BY DEF Leads, Verbs
<1>2. ~IACFlag' /\ ~SubOptIAC' /\ SubOptBuff = << >>
  BY DEF At, Holds, ParseTelIAC, Verbs, SubPhases
<1>3. SubOptBuff' = << >>
  BY <1>2 DEF ParseTelIAC
<1>4. CASE b = "NOP" /\ next = "text"
  <2>1. TelStatus' = "TelIdle"
    BY <1>4 DEF ParseTelIAC
  <2>2. QED
    BY <1>2, <1>3, <1>4, <2>1 DEF At, Holds, Verbs, SubPhases
<1>5. CASE b = "SB" /\ next \in {"n0", "t0"}
  <2>1. TelStatus' = "SB"
    BY <1>5 DEF ParseTelIAC
  <2>2. QED
    BY <1>2, <1>3, <1>5, <2>1 DEF At, Holds, Verbs, SubPhases
<1>6. CASE b \in Verbs /\ next = b
  <2>1. TelStatus' = b
    BY <1>6 DEF ParseTelIAC, Verbs
  <2>2. QED
    BY <1>2, <1>3, <1>6, <2>1 DEF At, Holds, Verbs, SubPhases
<1>7. QED
  BY <1>1, <1>4, <1>5, <1>6

(* What the parser collects of a window size and of a question.            *)
LEMMA Collected ==
    /\ \A c : << >> \o << c >> = << c >> /\ Len(<< c >>) = 1
    /\ << "NAWS" >> \o << "a" >> = << "NAWS", "a" >> /\ Len(<< "NAWS", "a" >>) = 2
    /\ << "NAWS", "a" >> \o << "IAC" >> = << "NAWS", "a", "IAC" >>
    /\ Len(<< "NAWS", "a", "IAC" >>) = 3
    /\ << "NAWS", "a", "IAC" >> \o << "a" >> = << "NAWS", "a", "IAC", "a" >>
    /\ Len(<< "NAWS", "a", "IAC", "a" >>) = 4
    /\ << "NAWS", "a", "IAC", "a" >> \o << "a" >> = << "NAWS", "a", "IAC", "a", "a" >>
    /\ Len(<< "NAWS", "a", "IAC", "a", "a" >>) = 5
    /\ \A c : << c >> \o << "SEND" >> = << c, "SEND" >> /\ Len(<< c, "SEND" >>) = 2
<1>1. ASSUME NEW c
      PROVE  << >> \o << c >> = << c >> /\ Len(<< c >>) = 1
  OBVIOUS
<1>2. ASSUME NEW c
      PROVE  << c >> \o << "SEND" >> = << c, "SEND" >> /\ Len(<< c, "SEND" >>) = 2
  <2>1. << c, "SEND" >> = << c >> \o << "SEND" >>
    <3> DEFINE B == {c, "SEND"}
    <3>1. c \in B /\ "SEND" \in B
      OBVIOUS
    <3> HIDE DEF B
    <3>2. QED
      BY <3>1
  <2>2. Len(<< c, "SEND" >>) = 2
    OBVIOUS
  <2>3. QED
    BY Zenon, <2>1, <2>2
<1>3. /\ << "NAWS" >> \o << "a" >> = << "NAWS", "a" >>
      /\ << "NAWS", "a" >> \o << "IAC" >> = << "NAWS", "a", "IAC" >>
      /\ << "NAWS", "a", "IAC" >> \o << "a" >> = << "NAWS", "a", "IAC", "a" >>
      /\ << "NAWS", "a", "IAC", "a" >> \o << "a" >> = << "NAWS", "a", "IAC", "a", "a" >>
  <2> DEFINE B == {"NAWS", "a", "IAC"}
  <2>1. "NAWS" \in B /\ "a" \in B /\ "IAC" \in B
    OBVIOUS
  <2> HIDE DEF B
  <2>2. << "NAWS", "a" >> = << "NAWS" >> \o << "a" >>
    BY <2>1
  <2>3. << "NAWS", "a", "IAC" >> = << "NAWS", "a" >> \o << "IAC" >>
    BY <2>1
  <2>4. << "NAWS", "a", "IAC", "a" >> = << "NAWS", "a", "IAC" >> \o << "a" >>
    BY <2>1
  <2>5. << "NAWS", "a", "IAC", "a", "a" >> = << "NAWS", "a", "IAC", "a" >> \o << "a" >>
    BY <2>1
  <2>6. QED
    BY Zenon, <2>2, <2>3, <2>4, <2>5
<1>4. /\ Len(<< "NAWS", "a" >>) = 2 /\ Len(<< "NAWS", "a", "IAC" >>) = 3
      /\ Len(<< "NAWS", "a", "IAC", "a" >>) = 4
      /\ Len(<< "NAWS", "a", "IAC", "a", "a" >>) = 5
  OBVIOUS
<1>5. QED
  BY Zenon, <1>1, <1>2, <1>3, <1>4

(* A byte inside SB .. SE: what the parser collects always fits.           *)
LEMMA ParseAtSB ==
    ASSUME Flags, NEW p \in SubPhases, NEW b, NEW next, Leads(<< p, b >>, next),
           At(p), ParseTelSB(b),
           TelMode' <=> (TelStatus' # "TelIdle"), UNCHANGED << IACFlag, TelCRFlag >>
    PROVE  At(next)'
<1>1. ~IACFlag' /\ SubOptMax \in Nat /\ SubOptMax >= 5
  BY TelConstants DEF At, SubPhases
<1>2. ASSUME NEW bytes, NEW buff, Collect(bytes), SubOptBuff \o bytes = buff, Len(buff) <= 5,
             NEW q \in SubPhases \ {"n3", "n7", "t3"}, q = next, Holds(q)' <=> SubOptBuff' = buff
      PROVE  At(next)'
  <2>1. ~(Len(SubOptBuff \o bytes) > SubOptMax)
    BY <1>1, <1>2
  <2>2. SubOptBuff' = buff /\ ~SubOptIAC' /\ TelStatus' = "SB"
    BY Zenon, <1>2, <2>1 DEF Collect
  <2>3. QED
    BY <1>1, <1>2, <2>2 DEF At, Verbs, SubPhases
<1>3. CASE p = "n0"
  <2>1. SubOptBuff = << >> /\ b = "NAWS" /\ next = "n1" /\ ~SubOptIAC
    BY <1>3 DEF At, Holds, Leads, Verbs
  <2>2. Collect(<< b >>)
    BY Zenon, <2>1 DEF ParseTelSB, Flags
  <2>3. SubOptBuff \o << b >> = << "NAWS" >> /\ Len(<< "NAWS" >>) <= 5
    <3>1. SubOptBuff \o << b >> = << "NAWS" >>
      BY Zenon, <2>1, Collected
    <3>2. Len(<< "NAWS" >>) <= 5
      BY Collected
    <3>3. QED
      BY Zenon, <3>1, <3>2
  <2>4. Holds("n1")' <=> SubOptBuff' = << "NAWS" >>
    BY DEF Holds
  <2>5. QED
    BY <1>2, <2>1, <2>2, <2>3, <2>4 DEF SubPhases
<1>4. CASE p = "n1"
  <2>1. SubOptBuff = << "NAWS" >> /\ b = "a" /\ next = "n2" /\ ~SubOptIAC
    BY <1>4 DEF At, Holds, Leads, Verbs
  <2>2. Collect(<< b >>)
    BY Zenon, <2>1 DEF ParseTelSB, Flags
  <2>3. SubOptBuff \o << b >> = << "NAWS", "a" >> /\ Len(<< "NAWS", "a" >>) <= 5
    <3>1. SubOptBuff \o << b >> = << "NAWS", "a" >>
      BY Zenon, <2>1, Collected
    <3>2. Len(<< "NAWS", "a" >>) <= 5
      BY Collected
    <3>3. QED
      BY Zenon, <3>1, <3>2
  <2>4. Holds("n2")' <=> SubOptBuff' = << "NAWS", "a" >>
    BY DEF Holds
  <2>5. QED
    BY <1>2, <2>1, <2>2, <2>3, <2>4 DEF SubPhases
<1>5. CASE p = "n4"
  <2>1. SubOptBuff = << "NAWS", "a", "IAC" >> /\ b = "a" /\ next = "n5" /\ ~SubOptIAC
    BY <1>5 DEF At, Holds, Leads, Verbs
  <2>2. Collect(<< b >>)
    BY Zenon, <2>1 DEF ParseTelSB, Flags
  <2>3. SubOptBuff \o << b >> = << "NAWS", "a", "IAC", "a" >> /\ Len(<< "NAWS", "a", "IAC", "a" >>) <= 5
    <3>1. SubOptBuff \o << b >> = << "NAWS", "a", "IAC", "a" >>
      BY Zenon, <2>1, Collected
    <3>2. Len(<< "NAWS", "a", "IAC", "a" >>) <= 5
      BY Collected
    <3>3. QED
      BY Zenon, <3>1, <3>2
  <2>4. Holds("n5")' <=> SubOptBuff' = << "NAWS", "a", "IAC", "a" >>
    BY DEF Holds
  <2>5. QED
    BY <1>2, <2>1, <2>2, <2>3, <2>4 DEF SubPhases
<1>6. CASE p = "n5"
  <2>1. SubOptBuff = << "NAWS", "a", "IAC", "a" >> /\ b = "a" /\ next = "n6" /\ ~SubOptIAC
    BY <1>6 DEF At, Holds, Leads, Verbs
  <2>2. Collect(<< b >>)
    BY Zenon, <2>1 DEF ParseTelSB, Flags
  <2>3. SubOptBuff \o << b >> = << "NAWS", "a", "IAC", "a", "a" >> /\ Len(<< "NAWS", "a", "IAC", "a", "a" >>) <= 5
    <3>1. SubOptBuff \o << b >> = << "NAWS", "a", "IAC", "a", "a" >>
      BY Zenon, <2>1, Collected
    <3>2. Len(<< "NAWS", "a", "IAC", "a", "a" >>) <= 5
      BY Collected
    <3>3. QED
      BY Zenon, <3>1, <3>2
  <2>4. Holds("n6")' <=> SubOptBuff' = << "NAWS", "a", "IAC", "a", "a" >>
    BY DEF Holds
  <2>5. QED
    BY <1>2, <2>1, <2>2, <2>3, <2>4 DEF SubPhases
<1>7. CASE p = "n2"
  <2>1. b = "IAC" /\ next = "n3" /\ ~SubOptIAC
    BY <1>7 DEF At, Leads, Verbs
  <2>2. SubOptIAC' /\ TelStatus' = "SB" /\ SubOptBuff' = SubOptBuff
    BY Zenon, <2>1 DEF ParseTelSB
  <2>3. Holds("n3")'
    BY <1>7, <2>2 DEF At, Holds
  <2>4. QED
    BY <1>1, <2>1, <2>2, <2>3 DEF At, Verbs, SubPhases
<1>8. CASE p = "n6"
  <2>1. b = "IAC" /\ next = "n7" /\ ~SubOptIAC
    BY <1>8 DEF At, Leads, Verbs
  <2>2. SubOptIAC' /\ TelStatus' = "SB" /\ SubOptBuff' = SubOptBuff
    BY Zenon, <2>1 DEF ParseTelSB
  <2>3. Holds("n7")'
    BY <1>8, <2>2 DEF At, Holds
  <2>4. QED
    BY <1>1, <2>1, <2>2, <2>3 DEF At, Verbs, SubPhases
<1>9. CASE p = "t2"
  <2>1. b = "IAC" /\ next = "t3" /\ ~SubOptIAC
    BY <1>9 DEF At, Leads, Verbs
  <2>2. SubOptIAC' /\ TelStatus' = "SB" /\ SubOptBuff' = SubOptBuff
    BY Zenon, <2>1 DEF ParseTelSB
  <2>3. Holds("t3")'
    BY <1>9, <2>2 DEF At, Holds
  <2>4. QED
    BY <1>1, <2>1, <2>2, <2>3 DEF At, Verbs, SubPhases
<1>10. CASE p = "n3"
  <2>1. SubOptBuff = << "NAWS", "a" >> /\ b = "IAC" /\ next = "n4" /\ SubOptIAC
    BY <1>10 DEF At, Holds, Leads, Verbs
  <2>2. Collect(<< b >>)
    BY Zenon, <2>1 DEF ParseTelSB, Flags
  <2>3. SubOptBuff \o << b >> = << "NAWS", "a", "IAC" >> /\ Len(<< "NAWS", "a", "IAC" >>) <= 5
    <3>1. SubOptBuff \o << b >> = << "NAWS", "a", "IAC" >>
      BY Zenon, <2>1, Collected
    <3>2. Len(<< "NAWS", "a", "IAC" >>) <= 5
      BY Collected
    <3>3. QED
      BY Zenon, <3>1, <3>2
  <2>4. Holds("n4")' <=> SubOptBuff' = << "NAWS", "a", "IAC" >>
    BY DEF Holds
  <2>5. QED
    BY <1>2, <2>1, <2>2, <2>3, <2>4 DEF SubPhases
<1>11. CASE p \in {"n7", "t3"}
  <2>1. b = "SE" /\ next = "text" /\ SubOptIAC
    BY <1>11 DEF At, Leads, Verbs
  <2>2. EndOfSub
    BY Zenon, <2>1 DEF ParseTelSB
  <2>3. SubOptBuff' = << >> /\ ~SubOptIAC' /\ TelStatus' = "TelIdle"
    BY Zenon, <2>2 DEF EndOfSub, EndSub
  <2>4. QED
    BY <1>1, <2>1, <2>3 DEF At, Holds, Verbs, SubPhases
<1>12. CASE p = "t0"
  <2>1. SubOptBuff = << >> /\ b \in {"TERMTYPE", "TERMSPEED"} /\ next = "t1" /\ ~SubOptIAC
    BY <1>12 DEF At, Holds, Leads, Verbs
  <2>2. Collect(<< b >>)
    BY <2>1 DEF ParseTelSB, Flags
  <2>3. SubOptBuff \o << b >> = << b >> /\ Len(<< b >>) <= 5 /\ ~(1 > SubOptMax)
    BY <1>1, <2>1
  <2>4. SubOptBuff' = << b >> /\ ~SubOptIAC' /\ TelStatus' = "SB"
    BY <1>1, <2>2, <2>3 DEF Collect
  <2>5. Holds("t1")'
    BY <2>1, <2>4 DEF Holds
  <2>6. QED
    BY <1>1, <2>1, <2>4, <2>5 DEF At, Verbs, SubPhases
<1>13. CASE p = "t1"
  <2>1. b = "SEND" /\ next = "t2" /\ ~SubOptIAC
    BY <1>13 DEF At, Leads, Verbs
  <2>2. Collect(<< b >>)
    BY Zenon, <2>1 DEF ParseTelSB, Flags
  <2>3. PICK c \in {"TERMTYPE", "TERMSPEED"} : SubOptBuff = << c >>
    BY <1>13 DEF At, Holds
  <2>4. SubOptBuff \o << b >> = << c, "SEND" >> /\ Len(<< c, "SEND" >>) = 2
    BY Zenon, <2>1, <2>3, Collected
  <2>5. ~(Len(SubOptBuff \o << b >>) > SubOptMax)
    <3>1. Len(SubOptBuff \o << b >>) = 2
      BY Zenon, <2>4
    <3>2. QED
      BY <1>1, <3>1
  <2>6. SubOptBuff' = << c, "SEND" >> /\ ~SubOptIAC' /\ TelStatus' = "SB"
    BY Zenon, <2>2, <2>4, <2>5 DEF Collect
  <2>7. Holds("t2")'
    BY <2>6 DEF Holds
  <2>8. QED
    BY <1>1, <2>1, <2>6, <2>7 DEF At, Verbs, SubPhases
<1>14. QED
  BY <1>3, <1>4, <1>5, <1>6, <1>7, <1>8, <1>9, <1>10, <1>11, <1>12, <1>13 DEF SubPhases
-----------------------------------------------------------------------------
(* What the user wants of ECHO, as its record has it.                      *)
Wanted(o) ==
    \/ o.Status = "Yes"
    \/ o.Status = "WantYes" /\ o.Que = "Empty"
    \/ o.Status = "WantNo" /\ o.Que = "Opposite"

(* Local echo goes with what the user wants of ECHO.                       *)
EchoWanted == began /\ TelEcho => (LocalEcho = 0 <=> Wanted(HisOpt["ECHO"]))

Parsing == \E r :
    /\ Run(r, toTerm) /\ At(First(r))
    /\ All(toHost, r, HisWords, HisOpt, hostDoes)
    /\ All(toHost, r, MyWords, MyOpt, hostSees)

(* The inductive invariant.                                                *)
TelInv ==
    /\ TelTypeOK
    /\ toHost \in Seq(Sent)
    /\ Parsing
    /\ began => TelFlag
    /\ EchoWanted

LEMMA Sets ==
    /\ \A b \in Opts : Asking(Sent, b) /\ Spells(Mark, b)
    /\ HisWords \in Sides /\ MyWords \in Sides
    /\ HisWords.askYes = "DO" /\ HisWords.askNo = "DONT"
    /\ HisWords.tellYes = "WILL" /\ HisWords.tellNo = "WONT"
    /\ MyWords.askYes = "WILL" /\ MyWords.askNo = "WONT"
    /\ MyWords.tellYes = "DO" /\ MyWords.tellNo = "DONT"
    /\ Verbs \cap SubPhases = {} /\ {"text", "iac"} \cap (Verbs \cup SubPhases) = {}
<1>1. ASSUME NEW b \in Opts
      PROVE  Asking(Sent, b) /\ Spells(Mark, b)
  <2>1. Asking(Sent, b)
    BY DEF Asking, Sent
  <2>2. ASSUME NEW c \in Verbs
        PROVE  << "text", "IAC" >> \in Mark /\ << "iac", c >> \in Mark /\ << c, b >> \in Mark
    BY DEF Mark, Phase, Byte
  <2>3. QED
    BY Zenon, <2>1, <2>2 DEF Spells
<1>2. HisWords \in Sides /\ MyWords \in Sides
  BY DEF Sides
<1>3. /\ HisWords.askYes = "DO" /\ HisWords.askNo = "DONT"
      /\ HisWords.tellYes = "WILL" /\ HisWords.tellNo = "WONT"
      /\ MyWords.askYes = "WILL" /\ MyWords.askNo = "WONT"
      /\ MyWords.tellYes = "DO" /\ MyWords.tellNo = "DONT"
  BY DEF HisWords, MyWords
<1>4. Verbs \cap SubPhases = {} /\ {"text", "iac"} \cap (Verbs \cup SubPhases) = {}
  BY DEF Verbs, SubPhases
<1>5. QED
  BY Zenon, <1>1, <1>2, <1>3, <1>4

(* A byte that is no option's leaves both sides as they were; what it makes *)
(* Tera Term send is about no option.                                      *)
LEMMA BothSkip ==
    ASSUME NEW q \in Seq(Sent), NEW r \in Seq(Mark), r # << >>, r[1][1] \notin Verbs,
           NEW s \in Sides, NEW f, NEW g, All(q, r, s, f, g),
           NEW u \in Seq({"SB"} \X Opts)
    PROVE  All(q \o u, Tail(r), s, f, g) /\ q \o u \in Seq(Sent)
<1>1. All(q, Tail(r), s, f, g) /\ Tail(r) \in Seq(Mark)
  <2>1. \A b \in Opts : r[1] \notin {<< s.tellYes, b >>, << s.tellNo, b >>}
    <3>1. s.tellYes \in Verbs /\ s.tellNo \in Verbs
      BY WordsDiffer
    <3>2. QED
      BY <3>1
  <2>2. QED
    BY <2>1, AllSkips, HeadTailProperties
<1>2. Quietly(u, s.askYes, s.askNo)
  <2>1. ASSUME NEW b \in Opts, NEW k \in 1 .. Len(u)
        PROVE  u[k] \notin {<< s.askYes, b >>, << s.askNo, b >>}
    <3>1. u[k] \in {"SB"} \X Opts
      OBVIOUS
    <3>2. s.askYes \in Verbs /\ s.askNo \in Verbs /\ "SB" \notin Verbs
      BY WordsDiffer DEF Verbs
    <3>3. QED
      BY <3>1, <3>2
  <2>2. QED
    BY Zenon, <2>1 DEF Quietly, Silent
<1>3. u \in Seq(Sent)
  BY DEF Sent
<1>4. QED
  BY <1>1, <1>2, <1>3, AllQuietly, ConcatProperties

(* The words of the two sides have nothing in common.                      *)
LEMMA SidesDiffer ==
    ASSUME NEW s \in Sides, NEW t \in Sides, s # t
    PROVE  /\ {s.askYes, s.askNo} \cap {t.askYes, t.askNo} = {}
           /\ {s.tellYes, s.tellNo} \cap {t.tellYes, t.tellNo} = {}
BY DEF Sides, HisWords, MyWords

(* A byte of side s read: q is what is then on its way to the host, f what *)
(* Tera Term keeps of this side and f2 of the other.                       *)
Both(q, r, s, f, g, t, f2, g2) ==
    /\ q \in Seq(Sent) /\ f \in [MaxTelOpt -> TelOpt]
    /\ All(q, r, s, f, g)
    /\ All(q, r, t, f2, g2)

(* Tera Term reads about an option of side s: the other side is left as it *)
(* was.                                                                    *)
LEMMA BothRead ==
    ASSUME NEW q \in Seq(Sent), NEW r \in Seq(Mark), r # << >>,
           NEW s \in Sides, NEW f \in [MaxTelOpt -> TelOpt], NEW g,
           NEW t \in Sides, s # t, NEW f2, NEW g2,
           All(q, r, s, f, g), All(q, r, t, f2, g2),
           NEW b \in MaxTelOpt, b \in Opts, NEW accept \in BOOLEAN, NEW e,
           \/ r[1] = << s.tellYes, b >> /\ e = Offered(f[b], accept)
           \/ r[1] = << s.tellNo, b >> /\ e = Refused(f[b])
    PROVE  Both(q \o SendBack(e.answer, s.askYes, s.askNo, b), Tail(r), s,
                [f EXCEPT ![b] = e.opt], g, t, f2, g2)
<1> DEFINE u == SendBack(e.answer, s.askYes, s.askNo, b)
<1>1. /\ q \o u \in Seq(Sent) /\ [f EXCEPT ![b] = e.opt] \in [MaxTelOpt -> TelOpt]
      /\ All(q \o u, Tail(r), s, [f EXCEPT ![b] = e.opt], g)
  <2>1. Asking(Sent, b)
    BY Sets
  <2>2. QED
    BY <2>1, AllReads
<1>2. All(q, Tail(r), t, f2, g2) /\ Tail(r) \in Seq(Mark)
  <2>1. \A c \in Opts : r[1] \notin {<< t.tellYes, c >>, << t.tellNo, c >>}
    <3>1. s.tellYes \notin {t.tellYes, t.tellNo} /\ s.tellNo \notin {t.tellYes, t.tellNo}
      BY SidesDiffer
    <3>2. r[1] \in {<< s.tellYes, b >>, << s.tellNo, b >>}
      OBVIOUS
    <3>3. QED
      BY <3>1, <3>2
  <2>2. QED
    BY <2>1, AllSkips, HeadTailProperties
<1>3. e.answer \in {"", "yes", "no"}
  <2>1. f[b] \in TelOpt
    OBVIOUS
  <2>2. f[b].Status \in Status /\ f[b].Que \in {"Empty", "Opposite"}
    BY <2>1 DEF TelOpt
  <2>3. ASSUME NEW o, o.Status \in Status, o.Que \in {"Empty", "Opposite"}
        PROVE  Offered(o, accept).answer \in {"", "yes", "no"} /\ Refused(o).answer \in {"", "yes", "no"}
    BY <2>3 DEF Offered, Refused, To, Status
  <2>4. QED
    BY <2>2, <2>3
<1>4. u \in Seq(Sent) /\ Quietly(u, t.askYes, t.askNo)
  <2>1. {s.askYes, s.askNo} \cap {t.askYes, t.askNo} = {}
    BY SidesDiffer
  <2>2. ASSUME NEW c \in Opts
        PROVE  Silent(u, t.askYes, t.askNo, c)
    BY <1>3, <2>1, OtherOption
  <2>3. s.askYes \in Verbs /\ s.askNo \in Verbs
    BY WordsDiffer
  <2>4. << s.askYes, b >> \in Sent /\ << s.askNo, b >> \in Sent
    BY <2>3 DEF Sent
  <2>5. u \in Seq(Sent)
    BY <1>3, <2>4, ShortSeq DEF SendBack
  <2>6. QED
    BY Zenon, <2>2, <2>5 DEF Quietly
<1>5. All(q \o u, Tail(r), t, f2, g2)
  <2> HIDE DEF u
  <2>1. QED
    BY <1>2, <1>4, AllQuietly
<1>6. QED
  BY Zenon, <1>1, <1>5 DEF Both

LEMMA AppendOne ==
    ASSUME NEW B, NEW q \in Seq(B), NEW m \in B
    PROVE  << m >> \in Seq(B) /\ q \o << m >> = Append(q, m)
OBVIOUS

(* The same for an option Tera Term does not keep.                         *)
LEMMA BothUnknown ==
    ASSUME NEW q \in Seq(Sent), NEW r \in Seq(Mark), r # << >>,
           NEW s \in Sides, NEW f \in [MaxTelOpt -> TelOpt], NEW g,
           NEW t \in Sides, s # t, NEW f2, NEW g2,
           All(q, r, s, f, g), All(q, r, t, f2, g2),
           NEW b \in Opts \ MaxTelOpt,
           r[1] \in {<< s.tellYes, b >>, << s.tellNo, b >>}
    PROVE  Both(Append(q, << s.askNo, b >>), Tail(r), s, f, g, t, f2, g2)
<1> DEFINE m == << s.askNo, b >>
<1>1. Append(q, m) \in Seq(Sent) /\ All(Append(q, m), Tail(r), s, f, g)
  <2>1. Asking(Sent, b)
    BY Sets
  <2>2. QED
    BY <2>1, AllUnknown
<1>2. All(q, Tail(r), t, f2, g2) /\ Tail(r) \in Seq(Mark)
  <2>1. \A c \in Opts : r[1] \notin {<< t.tellYes, c >>, << t.tellNo, c >>}
    <3>1. s.tellYes \notin {t.tellYes, t.tellNo} /\ s.tellNo \notin {t.tellYes, t.tellNo}
      BY SidesDiffer
    <3>2. r[1] \in {<< s.tellYes, b >>, << s.tellNo, b >>}
      OBVIOUS
    <3>3. QED
      BY <3>1, <3>2
  <2>2. QED
    BY <2>1, AllSkips, HeadTailProperties
<1>3. m \in Sent
  <2>1. s.askNo \in Verbs
    BY WordsDiffer
  <2>2. QED
    BY <2>1 DEF Sent
<1>4. << m >> \in Seq(Sent) /\ Quietly(<< m >>, t.askYes, t.askNo)
  <2>1. s.askNo \notin {t.askYes, t.askNo}
    BY SidesDiffer
  <2>2. ASSUME NEW c \in Opts
        PROVE  Silent(<< m >>, t.askYes, t.askNo, c)
    <3>1. m \notin {<< t.askYes, c >>, << t.askNo, c >>}
      BY <2>1
    <3>2. QED
      BY Zenon, <3>1, SilentOne
  <2>3. QED
    BY Zenon, <1>3, <2>2, ShortSeq DEF Quietly
<1>5. Append(q, m) = q \o << m >>
  <2> HIDE DEF m
  <2>1. m \in Sent /\ q \in Seq(Sent)
    BY Zenon, <1>3
  <2>2. QED
    BY Zenon, <2>1, AppendOne
<1>6. All(q \o << m >>, Tail(r), t, f2, g2)
  <2> HIDE DEF m
  <2>1. QED
    BY <1>2, <1>4, AllQuietly
<1>7. QED
  BY Zenon, <1>1, <1>5, <1>6 DEF Both
-----------------------------------------------------------------------------
Handler(v, b) ==
    \/ v = "WILL" /\ ParseTelWill(b)
    \/ v = "WONT" /\ ParseTelWont(b)
    \/ v = "DO" /\ ParseTelDo(b)
    \/ v = "DONT" /\ ParseTelDont(b)

(* What one byte of ParseTel is, seen from the run of the parser.          *)
Parsed(p, b) ==
    \/ p = "iac" /\ ParseTelIAC(b)
    \/ p \in SubPhases /\ ParseTelSB(b)
    \/ /\ p \in Verbs /\ b \in Opts /\ Handler(p, b) /\ TelStatus' = "TelIdle"
       /\ UNCHANGED << SubOptBuff, SubOptIAC, WinSize >>

LEMMA ParseSplit ==
    ASSUME Flags, NEW r, Run(r, toTerm), At(First(r)), ParseTel
    PROVE  /\ r # << >> /\ r \in Seq(Mark) /\ r[1] = << First(r), Head(toTerm) >>
           /\ Run(Tail(r), toTerm') /\ At(First(Tail(r)))'
           /\ Parsed(First(r), Head(toTerm))
<1> DEFINE p == First(r)
           b == Head(toTerm)
           next == First(Tail(r))
<1>1. toTerm # << >> /\ TelMode /\ toTerm' = Tail(toTerm)
  BY Zenon DEF ParseTel
<1>2. r \in Seq(Mark) /\ toTerm \in Seq(Byte)
  BY Zenon DEF Run
<1>3. b = toTerm[1]
  BY <1>1, <1>2
<1>4. r # << >> /\ r[1] = << p, b >> /\ r[1] \in Mark /\ Leads(r[1], next) /\ Run(Tail(r), toTerm')
  <2>1. /\ r # << >> /\ r[1] = << First(r), toTerm[1] >> /\ r[1] \in Mark
        /\ Leads(r[1], First(Tail(r))) /\ Run(Tail(r), Tail(toTerm))
    BY <1>1, RunTail
  <2>2. QED
    BY Zenon, <1>1, <1>3, <2>1
<1>5. p \in Phase /\ b \in Byte /\ Leads(<< p, b >>, next)
  BY <1>4 DEF Mark
<1> HIDE DEF p, b, next
<1>6. /\ p # "text"
      /\ p = "iac" => ~IACFlag /\ b # "IAC"
      /\ TelStatus = IF p \in Verbs THEN p ELSE IF p \in SubPhases THEN "SB" ELSE "TelIdle"
  <2>1. At(p)
    BY Zenon DEF p
  <2>2. p # "text"
    BY <1>1, <2>1 DEF At
  <2>3. p = "iac" => ~IACFlag
    BY <1>1, <2>1 DEF At
  <2>4. p = "iac" => b # "IAC"
    BY <2>1, <2>3 DEF At, b
  <2>5. QED
    BY Zenon, <2>1, <2>2, <2>3, <2>4 DEF At
<1>7. TelMode' <=> (TelStatus' # "TelIdle")
  BY Zenon DEF ParseTel
<1>8. UNCHANGED << IACFlag, TelCRFlag >>
  BY Zenon DEF ParseTel
<1>9. LET status == IF TelStatus = "TelIdle" THEN "TelIAC" ELSE TelStatus
      IN  \/ /\ status = "TelIAC" /\ ParseTelIAC(b)
          \/ /\ status = "SB" /\ ParseTelSB(b)
          \/ /\ Handler(status, b)
             /\ TelStatus' = "TelIdle"
             /\ UNCHANGED << SubOptBuff, SubOptIAC, WinSize >>
  BY Zenon DEF ParseTel, Handler, b
<1>10. CASE p = "iac"
  <2>1. TelStatus = "TelIdle"
    BY <1>6, <1>10 DEF Verbs, SubPhases
  <2>2. ParseTelIAC(b)
    BY <1>9, <2>1 DEF Handler
  <2>3. At("iac") /\ Leads(<< "iac", b >>, next)
    BY Zenon, <1>5, <1>10 DEF p
  <2>4. At(next)'
    BY <1>1, <1>6, <1>7, <1>8, <1>10, <2>2, <2>3, ParseAtIac
  <2>5. Parsed(p, b)
    BY Zenon, <1>10, <2>2 DEF Parsed
  <2>6. QED
    BY Zenon, <1>2, <1>4, <2>4, <2>5 DEF p, b, next
<1>11. CASE p \in SubPhases
  <2>1. TelStatus = "SB"
    BY <1>6, <1>11, Sets
  <2>2. ParseTelSB(b)
    BY <1>9, <2>1 DEF Handler
  <2>3. At(p)
    BY Zenon DEF p
  <2>4. At(next)'
    BY <1>5, <1>7, <1>8, <1>11, <2>2, <2>3, ParseAtSB
  <2>5. Parsed(p, b)
    BY Zenon, <1>11, <2>2 DEF Parsed
  <2>6. QED
    BY Zenon, <1>2, <1>4, <2>4, <2>5 DEF p, b, next
<1>12. CASE p \in Verbs
  <2>1. TelStatus = p /\ p \notin {"TelIdle", "TelIAC", "SB"}
    BY <1>6, <1>12 DEF Verbs
  <2>2. Handler(p, b) /\ TelStatus' = "TelIdle" /\ UNCHANGED << SubOptBuff, SubOptIAC, WinSize >>
    BY Zenon, <1>9, <2>1
  <2>3. b \in Opts /\ next = "text"
    BY <1>5, <1>12 DEF Leads, Verbs
  <2>4. Parsed(p, b)
    BY Zenon, <1>12, <2>2, <2>3 DEF Parsed
  <2>5. SubOptBuff = << >> /\ ~SubOptIAC /\ ~IACFlag
    <3>1. At(p)
      BY Zenon DEF p
    <3>2. QED
      BY <1>12, <3>1 DEF At, Holds, Verbs
  <2>6. At("text")'
    <3>1. ~TelMode'
      BY Zenon, <1>7, <2>2
    <3>2. /\ SubOptBuff' = << >> /\ ~SubOptIAC' /\ ~IACFlag' /\ TelStatus' = "TelIdle"
      BY Zenon, <1>8, <2>2, <2>5
    <3>3. QED
      BY <3>1, <3>2 DEF At, Holds, Verbs, SubPhases
  <2>7. QED
    BY Zenon, <1>2, <1>4, <2>3, <2>4, <2>6 DEF p, b, next
<1>13. QED
  BY <1>5, <1>6, <1>10, <1>11, <1>12 DEF Phase

(* The parser's state is of its type wherever it stands.                   *)
LEMMA ParserTyped ==
    ASSUME NEW p, At(p)'
    PROVE  /\ TelStatus' \in {"TelIdle", "TelIAC", "SB", "WILL", "WONT", "DO", "DONT"}
           /\ Len(SubOptBuff') <= SubOptMax
<1>1. TelStatus' \in {"TelIdle", "TelIAC", "SB", "WILL", "WONT", "DO", "DONT"}
  BY DEF At, Verbs
<1>2. SubOptMax \in Nat /\ SubOptMax >= 5
  BY TelConstants
<1>3. Holds(p)'
  BY Zenon DEF At
<1>4. /\ Len(<< >>) <= 5 /\ Len(<< "NAWS", "a" >>) <= 5
      /\ Len(<< "NAWS", "a", "IAC" >>) <= 5 /\ Len(<< "NAWS", "a", "IAC", "a" >>) <= 5
      /\ Len(<< "NAWS", "a", "IAC", "a", "a" >>) <= 5
      /\ \A c : Len(<< c >>) <= 5 /\ Len(<< c, "SEND" >>) <= 5
  OBVIOUS
<1>5. \/ SubOptBuff' = << >> \/ SubOptBuff' = << "NAWS" >>
      \/ SubOptBuff' = << "NAWS", "a" >> \/ SubOptBuff' = << "NAWS", "a", "IAC" >>
      \/ SubOptBuff' = << "NAWS", "a", "IAC", "a" >>
      \/ SubOptBuff' = << "NAWS", "a", "IAC", "a", "a" >>
      \/ \E b \in {"TERMTYPE", "TERMSPEED"} : SubOptBuff' = << b >> \/ SubOptBuff' = << b, "SEND" >>
  BY <1>3 DEF Holds
<1>6. Len(SubOptBuff') <= 5
  BY Zenon, <1>4, <1>5
<1>7. QED
  BY <1>1, <1>2, <1>6

LEMMA EchoRead ==
    ASSUME HisOpt \in [MaxTelOpt -> TelOpt], LocalEcho \in {0, 1}, TelBinRecv \in BOOLEAN,
           EchoWanted, NEW b \in MaxTelOpt, NEW e, HisEvent(b, e),
           e = Offered(HisOpt[b], b \in HisAccept) \/ e = Refused(HisOpt[b]),
           UNCHANGED settings
    PROVE  EchoWanted' /\ LocalEcho' \in {0, 1} /\ TelBinRecv' \in BOOLEAN
<1>1. TelBinRecv' \in BOOLEAN
  <2>1. BinaryFollows(b, e.opt.Status)
    BY Zenon DEF HisEvent
  <2>2. CASE b = "BINARY" /\ e.opt.Status \in {"Yes", "No"}
    <3>1. TelBinRecv' = (e.opt.Status = "Yes")
      BY Zenon, <2>1, <2>2 DEF BinaryFollows
    <3>2. QED
      BY Zenon, <3>1
  <2>3. CASE ~(b = "BINARY" /\ e.opt.Status \in {"Yes", "No"})
    BY Zenon, <2>1, <2>3 DEF BinaryFollows
  <2>4. QED
    BY Zenon, <2>2, <2>3
<1>2. HisOpt' = [HisOpt EXCEPT ![b] = e.opt] /\ began' = began /\ TelEcho' = TelEcho
  BY Zenon DEF HisEvent, settings
<1>3. CASE b # "ECHO"
  <2>1. LocalEcho' = LocalEcho /\ HisOpt'["ECHO"] = HisOpt["ECHO"]
    <3>1. "ECHO" \in MaxTelOpt
      BY TelConstants
    <3>2. QED
      BY <1>2, <1>3, <3>1 DEF HisEvent
  <2>2. QED
    BY Zenon, <1>1, <1>2, <2>1 DEF EchoWanted
<1>4. CASE b = "ECHO"
  <2> DEFINE o == HisOpt["ECHO"]
  <2>1. "ECHO" \in HisAccept
    BY TelConstants
  <2>2. e = Offered(o, TRUE) \/ e = Refused(o)
    BY <1>4, <2>1
  <2>3. o \in TelOpt /\ HisOpt'["ECHO"] = e.opt
    BY <1>2, <1>4
  <2>4. EchoFollows(e.opt.Status)
    BY <1>4 DEF HisEvent
  <2>5. o.Status \in Status /\ o.Que \in {"Empty", "Opposite"}
    BY <2>3 DEF TelOpt
  <2> HIDE DEF o
  <2>6. /\ e.opt.Status = "Yes" => Wanted(e.opt)
        /\ e.opt.Status = "No" => ~Wanted(e.opt)
        /\ e.opt.Status \notin {"Yes", "No"} => (Wanted(e.opt) <=> Wanted(o))
    <3>1. CASE e = Offered(o, TRUE)
      BY <2>5, <3>1 DEF Offered, To, Wanted, Status
    <3>2. CASE e = Refused(o)
      BY <2>5, <3>2 DEF Refused, To, Wanted, Status
    <3>3. QED
      BY <2>2, <3>1, <3>2
  <2>7. EchoWanted' <=> (began /\ TelEcho => (LocalEcho' = 0 <=> Wanted(e.opt)))
    BY Zenon, <1>2, <2>3 DEF EchoWanted
  <2>8. EchoWanted <=> (began /\ TelEcho => (LocalEcho = 0 <=> Wanted(o)))
    BY Zenon DEF EchoWanted, o
  <2>9. LocalEcho' \in {0, 1} /\ EchoWanted'
    <3>1. CASE TelEcho /\ e.opt.Status = "Yes"
      BY <2>4, <2>6, <2>7, <3>1 DEF EchoFollows
    <3>2. CASE TelEcho /\ e.opt.Status = "No"
      BY <2>4, <2>6, <2>7, <3>2 DEF EchoFollows
    <3>3. CASE ~TelEcho
      BY <2>4, <2>7, <3>3 DEF EchoFollows
    <3>4. CASE TelEcho /\ e.opt.Status \notin {"Yes", "No"}
      BY <2>4, <2>6, <2>7, <2>8, <3>4 DEF EchoFollows
    <3>5. QED
      BY <3>1, <3>2, <3>3, <3>4
  <2>10. QED
    BY <1>1, <2>9
<1>5. QED
  BY <1>3, <1>4

(* A size, type or speed that Tera Term sends is about no option.          *)
LEMMA BothTold ==
    ASSUME NEW q \in Seq(Sent), NEW r \in Seq(Mark),
           NEW s \in Sides, NEW f, NEW g, All(q, r, s, f, g),
           NEW u \in Seq({"SB"} \X Opts)
    PROVE  All(q \o u, r, s, f, g) /\ q \o u \in Seq(Sent)
<1>1. Quietly(u, s.askYes, s.askNo)
  <2>1. ASSUME NEW b \in Opts, NEW k \in 1 .. Len(u)
        PROVE  u[k] \notin {<< s.askYes, b >>, << s.askNo, b >>}
    <3>1. u[k] \in {"SB"} \X Opts
      OBVIOUS
    <3>2. s.askYes \in Verbs /\ s.askNo \in Verbs /\ "SB" \notin Verbs
      BY WordsDiffer DEF Verbs
    <3>3. QED
      BY <3>1, <3>2
  <2>2. QED
    BY Zenon, <2>1 DEF Quietly, Silent
<1>2. u \in Seq(Sent)
  BY DEF Sent
<1>3. QED
  BY <1>1, <1>2, AllQuietly, ConcatProperties

(* What a handler leaves: the types of what it changes, the local echo     *)
(* right, both sides in step with the bytes r that are left.               *)
Handled(r) ==
    /\ toHost' \in Seq(Sent)
    /\ HisOpt' \in [MaxTelOpt -> TelOpt] /\ MyOpt' \in [MaxTelOpt -> TelOpt]
    /\ LocalEcho' \in {0, 1} /\ TelBinRecv' \in BOOLEAN /\ EchoWanted'
    /\ All(toHost', r, HisWords, HisOpt', hostDoes)
    /\ All(toHost', r, MyWords, MyOpt', hostSees)

LEMMA HandlerKeeps ==
    ASSUME HisOpt \in [MaxTelOpt -> TelOpt], MyOpt \in [MaxTelOpt -> TelOpt],
           LocalEcho \in {0, 1}, TelBinRecv \in BOOLEAN, EchoWanted, UNCHANGED settings,
           toHost \in Seq(Sent), NEW r \in Seq(Mark), r # << >>,
           All(toHost, r, HisWords, HisOpt, hostDoes), All(toHost, r, MyWords, MyOpt, hostSees),
           NEW v \in Verbs, NEW b \in Opts, r[1] = << v, b >>, Handler(v, b)
    PROVE  Handled(Tail(r))
<1>1. /\ HisWords \in Sides /\ MyWords \in Sides /\ HisWords # MyWords
      /\ HisWords.askYes = "DO" /\ HisWords.askNo = "DONT"
      /\ HisWords.tellYes = "WILL" /\ HisWords.tellNo = "WONT"
      /\ MyWords.askYes = "WILL" /\ MyWords.askNo = "WONT"
      /\ MyWords.tellYes = "DO" /\ MyWords.tellNo = "DONT"
  BY Sets
<1>2. Tail(r) \in Seq(Mark)
  BY HeadTailProperties
<1>3. UNCHANGED options => LocalEcho' \in {0, 1} /\ TelBinRecv' \in BOOLEAN /\ EchoWanted'
  BY Zenon DEF options, settings, EchoWanted
<1>4. v = "WILL" \/ v = "WONT" \/ v = "DO" \/ v = "DONT"
  BY DEF Verbs
<1>5. CASE b \in MaxTelOpt /\ v \in {"WILL", "WONT"}
  <2>1. PICK e :
           /\ HisEvent(b, e)
           /\ \/ v = "WILL" /\ e = Offered(HisOpt[b], b \in HisAccept)
              \/ v = "WONT" /\ e = Refused(HisOpt[b])
    <3>1. CASE v = "WILL"
      <4>1. HisEvent(b, Offered(HisOpt[b], b \in HisAccept))
        BY <1>5, <3>1 DEF Handler, ParseTelWill
      <4>2. QED
        BY Zenon, <3>1, <4>1
    <3>2. CASE v = "WONT"
      <4>1. HisEvent(b, Refused(HisOpt[b]))
        BY <1>5, <3>2 DEF Handler, ParseTelWont
      <4>2. QED
        BY Zenon, <3>2, <4>1
    <3>3. QED
      BY <1>5, <3>1, <3>2
  <2>2. EchoWanted' /\ LocalEcho' \in {0, 1} /\ TelBinRecv' \in BOOLEAN
    BY <1>5, <2>1, EchoRead
  <2>3. Both(toHost \o SendBack(e.answer, HisWords.askYes, HisWords.askNo, b), Tail(r), HisWords,
             [HisOpt EXCEPT ![b] = e.opt], hostDoes, MyWords, MyOpt, hostSees)
    <3>1. (b \in HisAccept) \in BOOLEAN
      OBVIOUS
    <3>2. \/ r[1] = << HisWords.tellYes, b >> /\ e = Offered(HisOpt[b], b \in HisAccept)
          \/ r[1] = << HisWords.tellNo, b >> /\ e = Refused(HisOpt[b])
      BY Zenon, <1>1, <2>1
    <3> DEFINE accept == b \in HisAccept
    <3> HIDE DEF accept
    <3>3. /\ accept \in BOOLEAN
          /\ \/ r[1] = << HisWords.tellYes, b >> /\ e = Offered(HisOpt[b], accept)
             \/ r[1] = << HisWords.tellNo, b >> /\ e = Refused(HisOpt[b])
      BY Zenon, <3>1, <3>2 DEF accept
    <3>4. QED
      BY <1>1, <1>5, <3>3, BothRead
  <2>4. /\ toHost' = toHost \o SendBack(e.answer, HisWords.askYes, HisWords.askNo, b)
        /\ HisOpt' = [HisOpt EXCEPT ![b] = e.opt] /\ MyOpt' = MyOpt
    BY Zenon, <1>1, <2>1 DEF HisEvent
  <2>5. QED
    BY Zenon, <2>2, <2>3, <2>4 DEF Both, Handled
<1>6. CASE b \in MaxTelOpt /\ v \in {"DO", "DONT"}
  <2>1. PICK e, more :
           /\ more \in Seq({"SB"} \X Opts)
           /\ MyEvent(b, e, more)
           /\ \/ v = "DO" /\ e = Offered(MyOpt[b], b \in MyAccept)
              \/ v = "DONT" /\ e = Refused(MyOpt[b])
    <3>1. << >> \in Seq({"SB"} \X Opts) /\ << << "SB", b >> >> \in Seq({"SB"} \X Opts)
      BY ShortSeq
    <3>2. CASE v = "DO"
      <4> DEFINE e == Offered(MyOpt[b], b \in MyAccept)
                 more == IF b = "NAWS" /\ e.opt.Status = "Yes"
                         THEN << << "SB", b >> >> ELSE << >>
      <4>1. MyEvent(b, e, more)
        BY Zenon, <1>6, <3>2 DEF Handler, ParseTelDo
      <4>2. more \in Seq({"SB"} \X Opts)
        BY Zenon, <3>1
      <4>3. QED
        BY Zenon, <3>2, <4>1, <4>2
    <3>3. CASE v = "DONT"
      <4>1. MyEvent(b, Refused(MyOpt[b]), << >>)
        BY <1>6, <3>3 DEF Handler, ParseTelDont
      <4>2. QED
        BY Zenon, <3>1, <3>3, <4>1
    <3>4. QED
      BY <1>6, <3>2, <3>3
  <2>2. LocalEcho' \in {0, 1} /\ TelBinRecv' \in BOOLEAN /\ EchoWanted'
    BY Zenon, <2>1 DEF MyEvent, settings, EchoWanted
  <2> DEFINE w == toHost \o SendBack(e.answer, MyWords.askYes, MyWords.askNo, b)
             f == [MyOpt EXCEPT ![b] = e.opt]
  <2>3. Both(w, Tail(r), MyWords, f, hostSees, HisWords, HisOpt, hostDoes)
    <3>1. (b \in MyAccept) \in BOOLEAN
      OBVIOUS
    <3>2. \/ r[1] = << MyWords.tellYes, b >> /\ e = Offered(MyOpt[b], b \in MyAccept)
          \/ r[1] = << MyWords.tellNo, b >> /\ e = Refused(MyOpt[b])
      BY Zenon, <1>1, <2>1
    <3> DEFINE accept == b \in MyAccept
    <3> HIDE DEF accept
    <3>3. /\ accept \in BOOLEAN
          /\ \/ r[1] = << MyWords.tellYes, b >> /\ e = Offered(MyOpt[b], accept)
             \/ r[1] = << MyWords.tellNo, b >> /\ e = Refused(MyOpt[b])
      BY Zenon, <3>1, <3>2 DEF accept
    <3>4. QED
      BY <1>1, <1>6, <3>3, BothRead
  <2>4. toHost' = w \o more /\ MyOpt' = f /\ HisOpt' = HisOpt
    BY Zenon, <1>1, <2>1 DEF MyEvent
  <2> HIDE DEF w, f
  <2>5. /\ w \in Seq(Sent) /\ f \in [MaxTelOpt -> TelOpt]
        /\ All(w, Tail(r), MyWords, f, hostSees) /\ All(w, Tail(r), HisWords, HisOpt, hostDoes)
    BY Zenon, <2>3 DEF Both
  <2>6. /\ w \o more \in Seq(Sent)
        /\ All(w \o more, Tail(r), MyWords, f, hostSees)
        /\ All(w \o more, Tail(r), HisWords, HisOpt, hostDoes)
    BY <1>1, <1>2, <2>1, <2>5, BothTold
  <2>7. QED
    BY Zenon, <2>2, <2>4, <2>5, <2>6 DEF Handled
<1>7. CASE b \notin MaxTelOpt /\ v \in {"WILL", "WONT"}
  <2>1. Unknown("DONT", b)
    BY <1>7 DEF Handler, ParseTelWill, ParseTelWont
  <2>2. r[1] \in {<< HisWords.tellYes, b >>, << HisWords.tellNo, b >>}
    BY <1>1, <1>7
  <2>3. Both(Append(toHost, << HisWords.askNo, b >>), Tail(r), HisWords, HisOpt, hostDoes,
             MyWords, MyOpt, hostSees)
    BY <1>1, <1>7, <2>2, BothUnknown
  <2>4. /\ toHost' = Append(toHost, << HisWords.askNo, b >>)
        /\ UNCHANGED options
    BY Zenon, <1>1, <2>1 DEF Unknown
  <2>5. HisOpt' = HisOpt /\ MyOpt' = MyOpt
    BY Zenon, <2>4 DEF options
  <2>6. QED
    BY Zenon, <1>3, <2>3, <2>4, <2>5 DEF Both, Handled
<1>8. CASE b \notin MaxTelOpt /\ v \in {"DO", "DONT"}
  <2>1. Unknown("WONT", b)
    BY <1>8 DEF Handler, ParseTelDo, ParseTelDont
  <2>2. r[1] \in {<< MyWords.tellYes, b >>, << MyWords.tellNo, b >>}
    BY <1>1, <1>8
  <2>3. Both(Append(toHost, << MyWords.askNo, b >>), Tail(r), MyWords, MyOpt, hostSees,
             HisWords, HisOpt, hostDoes)
    BY <1>1, <1>8, <2>2, BothUnknown
  <2>4. /\ toHost' = Append(toHost, << MyWords.askNo, b >>)
        /\ UNCHANGED options
    BY Zenon, <1>1, <2>1 DEF Unknown
  <2>5. HisOpt' = HisOpt /\ MyOpt' = MyOpt
    BY Zenon, <2>4 DEF options
  <2>6. QED
    BY Zenon, <1>3, <2>3, <2>4, <2>5 DEF Both, Handled
<1>9. QED
  BY <1>4, <1>5, <1>6, <1>7, <1>8

(* What the bytes inside SB .. SE make Tera Term send.                     *)
LEMMA SubSends ==
    ASSUME toHost \in Seq(Sent), Flags, NEW b, ParseTelSB(b)
    PROVE  SubOptIAC' \in BOOLEAN /\ \E u \in Seq({"SB"} \X Opts) : toHost' = toHost \o u
<1> DEFINE Some == \E u \in Seq({"SB"} \X Opts) : toHost' = toHost \o u
<1>1. << >> \in Seq({"SB"} \X Opts) /\ toHost \o << >> = toHost
  BY ShortSeq
<1>2. toHost' = toHost => Some
  BY Zenon, <1>1
<1>3. toHost' = toHost \o << >> => Some
  BY Zenon, <1>1
<1>4. ASSUME NEW bytes, Collect(bytes)
      PROVE  SubOptIAC' \in BOOLEAN /\ Some
  <2>1. CASE Len(SubOptBuff \o bytes) > SubOptMax
    <3>1. EndSub(WinSize, << >>)
      BY Zenon, <1>4, <2>1 DEF Collect
    <3>2. QED
      BY Zenon, <1>3, <3>1 DEF EndSub
  <2>2. CASE ~(Len(SubOptBuff \o bytes) > SubOptMax)
    <3>1. SubOptIAC' = FALSE /\ toHost' = toHost
      BY Zenon, <1>4, <2>2 DEF Collect
    <3>2. QED
      BY Zenon, <1>2, <3>1
  <2>3. QED
    BY Zenon, <2>1, <2>2
<1>5. ASSUME EndOfSub
      PROVE  SubOptIAC' \in BOOLEAN /\ Some
  <2> DEFINE asked == /\ Len(SubOptBuff) >= 2 /\ SubOptBuff[2] = "SEND"
                      /\ SubOptBuff[1] \in {"TERMTYPE", "TERMSPEED"} \cap MaxTelOpt
                      /\ MyOpt[SubOptBuff[1]].Status = "Yes"
  <2>1. /\ SubOptIAC' = FALSE
        /\ toHost' = toHost \o IF asked THEN << << "SB", SubOptBuff[1] >> >> ELSE << >>
    BY Zenon, <1>5 DEF EndOfSub, EndSub
  <2>2. CASE asked
    <3>1. SubOptBuff[1] \in Opts
      BY <2>2, TelConstants
    <3>2. << << "SB", SubOptBuff[1] >> >> \in Seq({"SB"} \X Opts)
      BY <3>1, ShortSeq
    <3>3. QED
      BY Zenon, <2>1, <2>2, <3>2
  <2>3. CASE ~asked
    <3>1. toHost' = toHost \o << >>
      BY Zenon, <2>1, <2>3
    <3>2. QED
      BY Zenon, <1>3, <2>1, <3>1
  <2>4. QED
    BY Zenon, <2>2, <2>3
<1> HIDE DEF Some
<1>6. CASE ~SubOptIAC /\ b = "IAC"
  <2>1. SubOptIAC' = TRUE /\ toHost' = toHost
    BY Zenon, <1>6 DEF ParseTelSB
  <2>2. QED
    BY Zenon, <1>2, <2>1 DEF Some
<1>7. CASE SubOptIAC /\ b = "SE"
  <2>1. EndOfSub
    BY <1>7 DEF ParseTelSB
  <2>2. QED
    BY Zenon, <1>5, <2>1 DEF Some
<1>8. CASE SubOptIAC /\ b \notin {"SE", "IAC"}
  <2>1. Collect(<< "IAC", b >>)
    BY <1>8 DEF ParseTelSB
  <2>2. QED
    BY Zenon, <1>4, <2>1 DEF Some
<1>9. CASE SubOptIAC = (b = "IAC")
  <2>1. Collect(<< b >>)
    BY <1>9 DEF ParseTelSB, Flags
  <2>2. QED
    BY Zenon, <1>4, <2>1 DEF Some
<1>10. QED
  BY <1>6, <1>7, <1>8, <1>9 DEF Flags

(* Tera Term reads a byte of a command.                                    *)
LEMMA ParseKeeps ==
    ASSUME TelInv, ParseTel
    PROVE  TelInv'
<1>1. /\ HisOpt \in [MaxTelOpt -> TelOpt] /\ MyOpt \in [MaxTelOpt -> TelOpt]
      /\ LocalEcho \in {0, 1} /\ TelBinRecv \in BOOLEAN /\ Flags
      /\ toHost \in Seq(Sent) /\ EchoWanted
  BY DEF TelInv, TelTypeOK, Flags
<1>2. PICK r : /\ Run(r, toTerm) /\ At(First(r))
               /\ All(toHost, r, HisWords, HisOpt, hostDoes)
               /\ All(toHost, r, MyWords, MyOpt, hostSees)
  BY Zenon DEF TelInv, Parsing
<1> DEFINE p == First(r)
           b == Head(toTerm)
<1>3. /\ r # << >> /\ r \in Seq(Mark) /\ r[1] = << p, b >>
      /\ Run(Tail(r), toTerm') /\ At(First(Tail(r)))'
      /\ Parsed(p, b)
  BY Zenon, <1>1, <1>2, ParseSplit
<1> HIDE DEF p, b
<1>4. /\ UNCHANGED << IACFlag, TelCRFlag, settings, TelFlag, host, shown, toggles >>
      /\ TelMode' = (TelStatus' # "TelIdle")
  BY Zenon DEF ParseTel
<1>5. UNCHANGED << IACFlag, TelCRFlag, TelEcho, began, TelFlag, hostDoes, hostSees, wishes, toggles >>
  BY Zenon, <1>4 DEF settings, host
<1>6. ASSUME r[1][1] \notin Verbs, NEW u \in Seq({"SB"} \X Opts), toHost' = toHost \o u,
             UNCHANGED options
      PROVE  Handled(Tail(r))
  <2>1. HisOpt' = HisOpt /\ MyOpt' = MyOpt /\ LocalEcho' = LocalEcho /\ TelBinRecv' = TelBinRecv
    BY Zenon, <1>6 DEF options
  <2>2. HisWords \in Sides /\ MyWords \in Sides
    BY Sets
  <2>3. /\ All(toHost \o u, Tail(r), HisWords, HisOpt, hostDoes) /\ toHost \o u \in Seq(Sent)
        /\ All(toHost \o u, Tail(r), MyWords, MyOpt, hostSees)
    BY <1>1, <1>2, <1>3, <1>6, <2>2, BothSkip
  <2>4. EchoWanted'
    BY Zenon, <1>1, <1>5, <2>1 DEF EchoWanted
  <2>5. QED
    BY Zenon, <1>1, <1>6, <2>1, <2>3, <2>4 DEF Handled
<1>7. Handled(Tail(r)) /\ SubOptIAC' \in BOOLEAN
  <2>1. CASE p = "iac" /\ ParseTelIAC(b)
    <3>1. toHost' = toHost \o << >> /\ << >> \in Seq({"SB"} \X Opts)
      <4>1. toHost' = toHost
        BY Zenon, <2>1 DEF ParseTelIAC
      <4>2. QED
        BY <1>1, <4>1, ShortSeq
    <3>2. UNCHANGED options /\ SubOptIAC' = SubOptIAC
      BY Zenon, <2>1 DEF ParseTelIAC
    <3>3. r[1][1] \notin Verbs
      BY <1>3, <2>1 DEF Verbs
    <3>4. Handled(Tail(r))
      BY Zenon, <1>6, <3>1, <3>2, <3>3
    <3>5. QED
      BY <1>1, <3>2, <3>4 DEF Flags
  <2>2. CASE p \in SubPhases /\ ParseTelSB(b)
    <3>1. UNCHANGED options
      BY Zenon, <2>2 DEF ParseTelSB
    <3>2. r[1][1] \notin Verbs
      BY <1>3, <2>2, Sets
    <3>3. SubOptIAC' \in BOOLEAN /\ \E u \in Seq({"SB"} \X Opts) : toHost' = toHost \o u
      BY <1>1, <2>2, SubSends
    <3>4. QED
      BY Zenon, <1>6, <3>1, <3>2, <3>3
  <2>3. CASE p \in Verbs /\ b \in Opts /\ Handler(p, b) /\ UNCHANGED << SubOptBuff, SubOptIAC, WinSize >>
    <3>1. UNCHANGED settings
      BY Zenon, <1>4
    <3>2. Handled(Tail(r))
      BY <1>1, <1>2, <1>3, <2>3, <3>1, HandlerKeeps
    <3>3. QED
      BY <1>1, <2>3, <3>2 DEF Flags
  <2>4. QED
    BY Zenon, <1>3, <2>1, <2>2, <2>3 DEF Parsed
<1>8. Parsing'
  <2>1. /\ All(toHost', Tail(r), HisWords, HisOpt', hostDoes')
        /\ All(toHost', Tail(r), MyWords, MyOpt', hostSees')
    BY Zenon, <1>5, <1>7 DEF Handled
  <2>2. QED
    BY Zenon, <1>3, <2>1 DEF Parsing
<1>9. TelTypeOK'
  <2>1. /\ TelStatus' \in {"TelIdle", "TelIAC", "SB", "WILL", "WONT", "DO", "DONT"}
        /\ Len(SubOptBuff') <= SubOptMax
    BY Zenon, <1>3, ParserTyped
  <2>2. {TelEcho, began, TelFlag, TelBinRecv, TelMode, IACFlag, TelCRFlag, SubOptIAC}' \subseteq BOOLEAN
    <3>1. {TelEcho, began, TelFlag, IACFlag, TelCRFlag} \subseteq BOOLEAN
      BY DEF TelInv, TelTypeOK
    <3>2. TelBinRecv' \in BOOLEAN /\ SubOptIAC' \in BOOLEAN /\ TelMode' \in BOOLEAN
      BY Zenon, <1>4, <1>7 DEF Handled
    <3>3. QED
      BY <1>5, <3>1, <3>2
  <2>3. /\ hostDoes' \in [Opts -> Status] /\ hostSees' \in [Opts -> Status]
        /\ wishes' \in 0 .. HostWishes /\ toggles' \in 0 .. UserToggles
    BY <1>5 DEF TelInv, TelTypeOK
  <2>4. /\ HisOpt' \in [MaxTelOpt -> TelOpt] /\ MyOpt' \in [MaxTelOpt -> TelOpt]
        /\ LocalEcho' \in {0, 1}
    BY Zenon, <1>7 DEF Handled
  <2>5. QED
    BY Zenon, <2>1, <2>2, <2>3, <2>4 DEF TelTypeOK
<1>10. (began => TelFlag)'
  BY <1>5 DEF TelInv
<1>11. QED
  BY Zenon, <1>7, <1>8, <1>9, <1>10 DEF TelInv, Handled

(* CommRead1Byte: where the parser stands next.                            *)
LEMMA CommSplit ==
    ASSUME Flags, NEW r, Run(r, toTerm), At(First(r)), CommRead1Byte
    PROVE  /\ r # << >> /\ r \in Seq(Mark)
           /\ \/ toTerm' = toTerm /\ At(First(r))'
              \/ /\ r[1][1] \notin Verbs
                 /\ Run(Tail(r), toTerm') /\ At(First(Tail(r)))'
<1> DEFINE p == First(r)
           b == Head(toTerm)
           next == First(Tail(r))
           dropped == TelCRFlag /\ b = "NUL"
           command == ~dropped /\ IACFlag /\ b # "IAC"
           iac == ~dropped /\ ~IACFlag /\ b = "IAC"
<1>1. toTerm # << >> /\ ~TelMode
  BY Zenon DEF CommRead1Byte
<1>2. r \in Seq(Mark) /\ toTerm \in Seq(Byte)
  BY Zenon DEF Run
<1>3. b = toTerm[1]
  BY <1>1, <1>2
<1>4. r # << >> /\ r[1] = << p, b >> /\ r[1] \in Mark /\ Leads(r[1], next) /\ Run(Tail(r), Tail(toTerm))
  <2>1. /\ r # << >> /\ r[1] = << First(r), toTerm[1] >> /\ r[1] \in Mark
        /\ Leads(r[1], First(Tail(r))) /\ Run(Tail(r), Tail(toTerm))
    BY <1>1, RunTail
  <2>2. QED
    BY Zenon, <1>1, <1>3, <2>1
<1>5. p \in Phase /\ b \in Byte /\ Leads(<< p, b >>, next)
  BY <1>4 DEF Mark
<1>6. /\ IACFlag' = (iac \/ (dropped /\ IACFlag))
      /\ TelMode' = command
      /\ toTerm' = IF command THEN toTerm ELSE Tail(toTerm)
      /\ TelCRFlag' = (~dropped /\ ~IACFlag /\ TelFlag /\ ~TelBinRecv /\ b = "CR")
  BY Zenon DEF CommRead1Byte
<1>7. UNCHANGED << TelStatus, SubOptBuff, SubOptIAC >>
  BY Zenon DEF CommRead1Byte
<1>8. At(p)
  OBVIOUS
<1> HIDE DEF p, b, next
<1>9. p = "text" \/ (p = "iac" /\ IACFlag)
  BY <1>1, <1>8 DEF At
<1>10. /\ TelStatus' = "TelIdle" /\ ~SubOptIAC' /\ SubOptBuff' = << >>
  <2>1. TelStatus = "TelIdle" /\ ~SubOptIAC /\ SubOptBuff = << >>
    BY <1>8, <1>9 DEF At, Holds, Verbs, SubPhases
  <2>2. QED
    BY Zenon, <1>7, <2>1
<1>11. ASSUME ~TelMode', ~IACFlag'
       PROVE  At("text")'
  BY <1>10, <1>11 DEF At, Holds, Verbs, SubPhases
<1>12. r[1][1] \notin Verbs
  BY <1>4, <1>9 DEF Verbs
<1>13. CASE p = "text" /\ b # "IAC"
  <2>1. ~IACFlag
    BY <1>8, <1>13 DEF At
  <2>2. ~IACFlag' /\ ~TelMode' /\ toTerm' = Tail(toTerm)
    BY Zenon, <1>6, <1>13, <2>1
  <2>3. next = "text"
    BY <1>5, <1>13 DEF Leads
  <2>4. QED
    BY Zenon, <1>2, <1>4, <1>11, <1>12, <2>2, <2>3 DEF next
<1>14. CASE p = "text" /\ b = "IAC"
  <2>1. ~IACFlag
    BY <1>8, <1>14 DEF At
  <2>2. ~dropped
    BY <1>14
  <2>3. IACFlag' /\ ~TelMode' /\ toTerm' = Tail(toTerm)
    BY Zenon, <1>6, <1>14, <2>1, <2>2
  <2>4. ~TelCRFlag'
    BY <1>6, <1>14
  <2>5. next = "iac"
    <3>1. Leads(<< "text", "IAC" >>, next)
      BY Zenon, <1>5, <1>14
    <3>2. QED
      BY <3>1 DEF Leads, Verbs
  <2>6. At("iac")'
    BY <1>10, <2>3, <2>4 DEF At, Holds, Verbs, SubPhases
  <2>7. QED
    BY Zenon, <1>2, <1>4, <1>12, <2>3, <2>5, <2>6 DEF next
<1>15. CASE p = "iac" /\ IACFlag /\ b = "IAC"
  <2>1. ~TelCRFlag
    BY <1>8, <1>15 DEF At
  <2>2. ~IACFlag' /\ ~TelMode' /\ toTerm' = Tail(toTerm)
    BY Zenon, <1>6, <1>15, <2>1
  <2>3. next = "text"
    BY <1>5, <1>15 DEF Leads, Verbs
  <2>4. QED
    BY Zenon, <1>2, <1>4, <1>11, <1>12, <2>2, <2>3 DEF next
<1>16. CASE p = "iac" /\ IACFlag /\ b # "IAC"
  <2>1. ~TelCRFlag
    BY <1>8, <1>16 DEF At
  <2>2. ~IACFlag' /\ TelMode' /\ toTerm' = toTerm
    BY Zenon, <1>6, <1>16, <2>1
  <2>3. At("iac")'
    <3>1. toTerm' # << >> /\ Head(toTerm') # "IAC"
      BY Zenon, <1>1, <1>16, <2>2 DEF b
    <3>2. QED
      BY <1>10, <2>2, <3>1 DEF At, Holds, Verbs, SubPhases
  <2>4. QED
    BY Zenon, <1>2, <1>4, <1>16, <2>2, <2>3 DEF p
<1>17. QED
  BY Zenon, <1>9, <1>13, <1>14, <1>15, <1>16

LEMMA CommKeeps ==
    ASSUME TelInv, CommRead1Byte
    PROVE  TelInv'
<1>1. toHost \in Seq(Sent) /\ Flags /\ {TelEcho, began, TelFlag, TelBinRecv} \subseteq BOOLEAN
  BY DEF TelInv, TelTypeOK, Flags
<1>2. PICK r : /\ Run(r, toTerm) /\ At(First(r))
               /\ All(toHost, r, HisWords, HisOpt, hostDoes)
               /\ All(toHost, r, MyWords, MyOpt, hostSees)
  BY Zenon DEF TelInv, Parsing
<1>3. /\ r # << >> /\ r \in Seq(Mark)
      /\ \/ toTerm' = toTerm /\ At(First(r))'
         \/ /\ r[1][1] \notin Verbs
            /\ Run(Tail(r), toTerm') /\ At(First(Tail(r)))'
  BY Zenon, <1>1, <1>2, CommSplit
<1>4. UNCHANGED << options, settings, TelStatus, SubOptBuff, SubOptIAC, WinSize,
                   toHost, host, toggles >>
  BY Zenon DEF CommRead1Byte
<1>5. UNCHANGED << HisOpt, MyOpt, LocalEcho, TelBinRecv, TelEcho, began, TelStatus, SubOptBuff,
                   SubOptIAC, toHost, hostDoes, hostSees, wishes, toggles >>
  BY Zenon, <1>4 DEF options, settings, host
<1>6. Parsing'
  <2>1. CASE toTerm' = toTerm /\ At(First(r))'
    BY Zenon, <1>2, <1>5, <2>1 DEF Parsing
  <2>2. CASE r[1][1] \notin Verbs /\ Run(Tail(r), toTerm') /\ At(First(Tail(r)))'
    <3>1. << >> \in Seq({"SB"} \X Opts) /\ toHost \o << >> = toHost
      BY <1>1, ShortSeq
    <3>2. HisWords \in Sides /\ MyWords \in Sides
      BY Sets
    <3>3. /\ All(toHost \o << >>, Tail(r), HisWords, HisOpt, hostDoes)
          /\ All(toHost \o << >>, Tail(r), MyWords, MyOpt, hostSees)
      <4> DEFINE u == << >>
      <4>1. u \in Seq({"SB"} \X Opts)
        BY <3>1
      <4> HIDE DEF u
      <4>2. /\ All(toHost \o u, Tail(r), HisWords, HisOpt, hostDoes)
            /\ All(toHost \o u, Tail(r), MyWords, MyOpt, hostSees)
        BY <1>1, <1>2, <1>3, <2>2, <3>2, <4>1, BothSkip
      <4>3. QED
        BY Zenon, <4>2 DEF u
    <3>4. /\ All(toHost', Tail(r), HisWords, HisOpt', hostDoes')
          /\ All(toHost', Tail(r), MyWords, MyOpt', hostSees')
      BY Zenon, <1>5, <3>1, <3>3
    <3>5. QED
      BY Zenon, <2>2, <3>4 DEF Parsing
  <2>3. QED
    BY Zenon, <1>3, <2>1, <2>2
<1>7. TelTypeOK'
  <2>1. TelFlag' \in BOOLEAN /\ TelMode' \in BOOLEAN /\ IACFlag' \in BOOLEAN /\ TelCRFlag' \in BOOLEAN
    BY Zenon DEF CommRead1Byte
  <2>2. SubOptIAC \in BOOLEAN
    BY DEF TelInv, TelTypeOK
  <2>3. {TelEcho, began, TelFlag, TelBinRecv, TelMode, IACFlag, TelCRFlag, SubOptIAC}' \subseteq BOOLEAN
    BY <1>1, <1>5, <2>1, <2>2
  <2>4. QED
    BY <1>5, <2>3 DEF TelInv, TelTypeOK
<1>8. (began => TelFlag)'
  <2>1. TelFlag => TelFlag'
    BY Zenon DEF CommRead1Byte
  <2>2. QED
    BY <1>5, <2>1 DEF TelInv
<1>9. QED
  <2>1. toHost' \in Seq(Sent) /\ EchoWanted'
    BY Zenon, <1>1, <1>5 DEF TelInv, EchoWanted
  <2>2. QED
    BY Zenon, <1>6, <1>7, <1>8, <2>1 DEF TelInv

(* The user switches the local echo.                                       *)
LEMMA AtStays ==
    ASSUME NEW p, At(p), UNCHANGED << parser, toTerm >>
    PROVE  At(p)'
<1>1. UNCHANGED << TelMode, IACFlag, TelCRFlag, TelStatus, SubOptBuff, SubOptIAC, toTerm >>
  BY Zenon DEF parser
<1>2. QED
  BY <1>1 DEF At, Holds

LEMMA EchoSwitched ==
    ASSUME NEW o \in TelOpt, Settled(o)
    PROVE  Wanted(Enabled(o).opt) /\ ~Wanted(Disabled(o).opt)
<1>1. o.Status \in Status /\ o.Que \in {"Empty", "Opposite"}
  BY DEF TelOpt
<1>2. QED
  BY <1>1 DEF Enabled, Disabled, To, Settled, Wanted, Status

(* An event of the user on one option of side s: the other side does not   *)
(* notice.                                                                 *)
LEMMA BothWished ==
    ASSUME NEW q \in Seq(Sent), NEW r \in Seq(Mark),
           NEW s \in Sides, NEW f \in [MaxTelOpt -> TelOpt], NEW g,
           NEW t \in Sides, s # t, NEW f2, NEW g2,
           All(q, r, s, f, g), All(q, r, t, f2, g2),
           NEW b \in MaxTelOpt, b \in Opts, NEW e \in {Enabled(f[b]), Disabled(f[b])}
    PROVE  /\ Both(q \o SendBack(e.answer, s.askYes, s.askNo, b), r, s,
                   [f EXCEPT ![b] = e.opt], g, t, f2, g2)
           /\ Settled(f[b])
<1> DEFINE u == SendBack(e.answer, s.askYes, s.askNo, b)
<1>1. /\ q \o u \in Seq(Sent) /\ [f EXCEPT ![b] = e.opt] \in [MaxTelOpt -> TelOpt]
      /\ All(q \o u, r, s, [f EXCEPT ![b] = e.opt], g)
  <2>1. Asking(Sent, b)
    BY Sets
  <2>2. QED
    BY <2>1, AllWished
<1>2. Settled(f[b])
  <2>1. Kept(f, b) = f[b]
    BY DEF Kept
  <2>2. Side(q, r, s, b, Kept(f, b), g[b])
    BY Zenon DEF All
  <2>3. QED
    BY Zenon, <2>1, <2>2 DEF Side
<1>3. e.answer \in {"", "yes", "no"}
  <2>1. f[b] \in TelOpt
    OBVIOUS
  <2>2. f[b].Status \in Status /\ f[b].Que \in {"Empty", "Opposite"}
    BY <2>1 DEF TelOpt
  <2>3. ASSUME NEW o, o.Status \in Status, o.Que \in {"Empty", "Opposite"}
        PROVE  Enabled(o).answer \in {"", "yes", "no"} /\ Disabled(o).answer \in {"", "yes", "no"}
    BY <2>3 DEF Enabled, Disabled, To, Status
  <2>4. QED
    BY <2>2, <2>3
<1>4. u \in Seq(Sent) /\ Quietly(u, t.askYes, t.askNo)
  <2>1. {s.askYes, s.askNo} \cap {t.askYes, t.askNo} = {}
    BY SidesDiffer
  <2>2. ASSUME NEW c \in Opts
        PROVE  Silent(u, t.askYes, t.askNo, c)
    BY <1>3, <2>1, OtherOption
  <2>3. s.askYes \in Verbs /\ s.askNo \in Verbs
    BY WordsDiffer
  <2>4. << s.askYes, b >> \in Sent /\ << s.askNo, b >> \in Sent
    BY <2>3 DEF Sent
  <2>5. u \in Seq(Sent)
    BY <1>3, <2>4, ShortSeq DEF SendBack
  <2>6. QED
    BY Zenon, <2>2, <2>5 DEF Quietly
<1>5. All(q \o u, r, t, f2, g2)
  <2> HIDE DEF u
  <2>1. QED
    BY <1>4, AllQuietly
<1>6. QED
  BY Zenon, <1>1, <1>2, <1>5 DEF Both

LEMMA SwitchKeeps ==
    ASSUME TelInv, IdCmdLocalEcho
    PROVE  TelInv'
<1>1. /\ HisOpt \in [MaxTelOpt -> TelOpt] /\ toHost \in Seq(Sent) /\ LocalEcho \in {0, 1}
      /\ "ECHO" \in MaxTelOpt /\ "ECHO" \in Opts
  BY TelConstants DEF TelInv, TelTypeOK
<1>2. PICK r : /\ Run(r, toTerm) /\ At(First(r))
               /\ All(toHost, r, HisWords, HisOpt, hostDoes)
               /\ All(toHost, r, MyWords, MyOpt, hostSees)
  BY Zenon DEF TelInv, Parsing
<1>3. r \in Seq(Mark)
  BY Zenon, <1>2 DEF Run
<1>4. /\ UNCHANGED << MyOpt, settings, TelFlag, TelBinRecv, parser, WinSize, toTerm, host, shown >>
      /\ LocalEcho' = 1 - LocalEcho /\ toggles < UserToggles /\ toggles' = toggles + 1
  BY Zenon DEF IdCmdLocalEcho
<1>5. UNCHANGED << MyOpt, TelEcho, began, TelFlag, TelBinRecv, TelMode, IACFlag, TelCRFlag, TelStatus,
                   SubOptBuff, SubOptIAC, toTerm, hostDoes, hostSees, wishes >>
  BY Zenon, <1>4 DEF settings, parser, host
<1>6. At(First(r))'
  BY Zenon, <1>2, <1>4, AtStays
<1>7. LocalEcho' \in {0, 1}
  BY <1>1, <1>4
<1>8. /\ toHost' \in Seq(Sent) /\ HisOpt' \in [MaxTelOpt -> TelOpt] /\ EchoWanted'
      /\ All(toHost', r, HisWords, HisOpt', hostDoes) /\ All(toHost', r, MyWords, MyOpt, hostSees)
  <2>1. CASE TelFlag /\ TelEcho
    <3> DEFINE e == IF LocalEcho' = 0 THEN Enabled(HisOpt["ECHO"]) ELSE Disabled(HisOpt["ECHO"])
    <3>1. /\ HisOpt' = [HisOpt EXCEPT !["ECHO"] = e.opt]
          /\ toHost' = toHost \o SendBack(e.answer, "DO", "DONT", "ECHO")
      BY Zenon, <2>1 DEF IdCmdLocalEcho, TelChangeEcho
    <3>2. /\ HisWords \in Sides /\ MyWords \in Sides /\ HisWords # MyWords
          /\ HisWords.askYes = "DO" /\ HisWords.askNo = "DONT"
      BY Sets
    <3>3. e \in {Enabled(HisOpt["ECHO"]), Disabled(HisOpt["ECHO"])}
      BY Zenon
    <3>4. /\ LocalEcho' = 0 => e = Enabled(HisOpt["ECHO"])
          /\ LocalEcho' # 0 => e = Disabled(HisOpt["ECHO"])
      BY Zenon
    <3> HIDE DEF e
    <3>5. /\ Both(toHost \o SendBack(e.answer, HisWords.askYes, HisWords.askNo, "ECHO"), r, HisWords,
                  [HisOpt EXCEPT !["ECHO"] = e.opt], hostDoes, MyWords, MyOpt, hostSees)
          /\ Settled(HisOpt["ECHO"])
      BY <1>1, <1>2, <1>3, <3>2, <3>3, BothWished
    <3>6. /\ toHost' \in Seq(Sent) /\ HisOpt' \in [MaxTelOpt -> TelOpt]
          /\ All(toHost', r, HisWords, HisOpt', hostDoes) /\ All(toHost', r, MyWords, MyOpt, hostSees)
      BY Zenon, <3>1, <3>2, <3>5 DEF Both
    <3>7. HisOpt'["ECHO"] = e.opt
      BY <1>1, <3>1
    <3>8. LocalEcho' = 0 <=> Wanted(e.opt)
      <4>1. HisOpt["ECHO"] \in TelOpt
        BY <1>1
      <4>2. Wanted(Enabled(HisOpt["ECHO"]).opt) /\ ~Wanted(Disabled(HisOpt["ECHO"]).opt)
        BY Zenon, <3>5, <4>1, EchoSwitched
      <4>3. QED
        BY Zenon, <3>4, <4>2
    <3>9. EchoWanted'
      BY Zenon, <3>7, <3>8 DEF EchoWanted
    <3>10. QED
      BY Zenon, <3>6, <3>9
  <2>2. CASE ~(TelFlag /\ TelEcho)
    <3>1. HisOpt' = HisOpt /\ toHost' = toHost
      BY Zenon, <2>2 DEF IdCmdLocalEcho
    <3>2. ~(began' /\ TelEcho')
      BY <1>5, <2>2 DEF TelInv
    <3>3. EchoWanted'
      BY Zenon, <3>2 DEF EchoWanted
    <3>4. QED
      BY Zenon, <1>1, <1>2, <3>1, <3>3
  <2>3. QED
    BY Zenon, <2>1, <2>2
<1>9. Parsing'
  BY Zenon, <1>2, <1>5, <1>6, <1>8 DEF Parsing
<1>10. TelTypeOK'
  <2>1. toggles' \in 0 .. UserToggles
    <3>1. toggles \in 0 .. UserToggles /\ UserToggles \in Nat
      BY TelConstants DEF TelInv, TelTypeOK
    <3>2. QED
      BY <1>4, <3>1
  <2>2. {TelEcho, began, TelFlag, TelBinRecv, TelMode, IACFlag, TelCRFlag, SubOptIAC}' \subseteq BOOLEAN
    BY <1>5 DEF TelInv, TelTypeOK
  <2>3. QED
    BY <1>5, <1>7, <1>8, <2>1, <2>2 DEF TelInv, TelTypeOK
<1>11. (began => TelFlag)'
  BY <1>5 DEF TelInv
<1>12. QED
  BY Zenon, <1>8, <1>9, <1>10, <1>11 DEF TelInv
-----------------------------------------------------------------------------
(* The host: what it says about an option, as bytes and as the parser will *)
(* read them.                                                              *)
Bytes(answer, yes, no, b) ==
    CASE answer = "yes" -> << "IAC", yes, b >>
      [] answer = "no" -> << "IAC", no, b >>
      [] answer = "" -> << >>

LEMMA TripleIn ==
    ASSUME NEW S, NEW d \in S, NEW e \in S, NEW h \in S
    PROVE  << d, e, h >> \in Seq(S) /\ Len(<< d, e, h >>) = 3
OBVIOUS

LEMMA CommandRuns ==
    ASSUME NEW c \in Verbs, NEW b \in Opts
    PROVE  Run(Command(c, b), << "IAC", c, b >>) /\ First(Command(c, b)) = "text"
<1>1. PICK d \in Mark, e \in Mark, h \in Mark :
         /\ d = << "text", "IAC" >> /\ e = << "iac", c >> /\ h = << c, b >>
  BY DEF Mark, Phase, Byte
<1> DEFINE r == << d, e, h >>
           z == << "IAC", c, b >>
<1>2. Command(c, b) = r
  BY Zenon, <1>1 DEF Command
<1>3. /\ d[1] = "text" /\ d[2] = "IAC" /\ e[1] = "iac" /\ e[2] = c /\ h[1] = c /\ h[2] = b
      /\ Leads(d, "iac") /\ Leads(e, c) /\ Leads(h, "text")
  <2>1. d[1] = "text" /\ d[2] = "IAC" /\ e[1] = "iac" /\ e[2] = c /\ h[1] = c /\ h[2] = b
    BY <1>1
  <2>2. Leads(d, "iac") /\ Leads(e, c) /\ Leads(h, "text")
    BY Zenon, <1>1, LeadsSteps
  <2>3. QED
    BY Zenon, <2>1, <2>2
<1>4. r \in Seq(Mark) /\ Len(r) = 3 /\ r[1] = d /\ r[2] = e /\ r[3] = h
  BY TripleIn
<1>5. z \in Seq(Byte) /\ Len(z) = 3 /\ z[1] = "IAC" /\ z[2] = c /\ z[3] = b
  <2>1. "IAC" \in Byte /\ c \in Byte /\ b \in Byte
    BY DEF Byte
  <2>2. QED
    BY <2>1, TripleIn
<1> HIDE DEF r, z
<1>6. /\ 1 .. Len(r) = {1, 2, 3} /\ Len(r) = Len(z)
  BY <1>4, <1>5
<1>7. \A i \in 1 .. Len(r) : r[i][2] = z[i]
  BY Zenon, <1>3, <1>4, <1>5, <1>6
<1>8. \A i \in 1 .. Len(r) : Leads(r[i], IF i = Len(r) THEN "text" ELSE r[i + 1][1])
  <2>1. Leads(r[1], r[2][1]) /\ Leads(r[2], r[3][1]) /\ Leads(r[3], "text")
    BY Zenon, <1>3, <1>4
  <2>2. ASSUME NEW i \in 1 .. Len(r)
        PROVE  Leads(r[i], IF i = Len(r) THEN "text" ELSE r[i + 1][1])
    <3>1. CASE i = 1
      <4>1. i # Len(r) /\ i + 1 = 2
        BY <1>4, <3>1
      <4>2. QED
        BY Zenon, <2>1, <3>1, <4>1
    <3>2. CASE i = 2
      <4>1. i # Len(r) /\ i + 1 = 3
        BY <1>4, <3>2
      <4>2. QED
        BY Zenon, <2>1, <3>2, <4>1
    <3>3. CASE i = 3
      <4>1. i = Len(r)
        BY <1>4, <3>3
      <4>2. QED
        BY Zenon, <2>1, <3>3, <4>1
    <3>4. QED
      BY Zenon, <1>6, <3>1, <3>2, <3>3
  <2>3. QED
    BY Zenon, <2>2
<1>9. r # << >>
  BY <1>4
<1>10. First(r) = "text"
  BY Zenon, <1>3, <1>4, <1>9 DEF First
<1>11. Run(r, z)
  BY Zenon, <1>4, <1>5, <1>6, <1>7, <1>8 DEF Run
<1>12. QED
  BY Zenon, <1>2, <1>10, <1>11 DEF z

LEMMA AnswerRuns ==
    ASSUME NEW y \in Verbs, NEW n \in Verbs, NEW b \in Opts, NEW answer \in {"", "yes", "no"}
    PROVE  /\ Run(Answered(answer, y, n, b), Bytes(answer, y, n, b))
           /\ First(Answered(answer, y, n, b)) = "text"
<1>1. CASE answer = "yes"
  <2>1. Answered(answer, y, n, b) = Command(y, b) /\ Bytes(answer, y, n, b) = << "IAC", y, b >>
    BY <1>1 DEF Answered, Bytes
  <2>2. QED
    BY Zenon, <2>1, CommandRuns
<1>2. CASE answer = "no"
  <2>1. Answered(answer, y, n, b) = Command(n, b) /\ Bytes(answer, y, n, b) = << "IAC", n, b >>
    BY <1>2 DEF Answered, Bytes
  <2>2. QED
    BY Zenon, <2>1, CommandRuns
<1>3. CASE answer = ""
  <2>1. Answered(answer, y, n, b) = << >> /\ Bytes(answer, y, n, b) = << >>
    BY <1>3 DEF Answered, Bytes
  <2>2. Run(<< >>, << >>) /\ First(<< >>) = "text"
    BY NothingRuns
  <2>3. QED
    BY Zenon, <2>1, <2>2
<1>4. QED
  BY <1>1, <1>2, <1>3

(* What the host makes of one side of an option and says of it, while q is *)
(* then on its way to the host: the other side does not notice.            *)
Heard(q, r, s, f, g, b, result, t, f2, g2) ==
    /\ result[2] \in {"", "yes", "no"}
    /\ [g EXCEPT ![b] = result[1]] \in [Opts -> Status]
    /\ All(q, r \o Answered(result[2], s.tellYes, s.tellNo, b), s, f, [g EXCEPT ![b] = result[1]])
    /\ All(q, r \o Answered(result[2], s.tellYes, s.tellNo, b), t, f2, g2)

LEMMA BothHear ==
    ASSUME NEW q \in Seq(Sent), NEW q2 \in Seq(Sent), NEW r \in Seq(Mark),
           NEW s \in Sides, NEW f, NEW g \in [Opts -> Status],
           NEW t \in Sides, s # t, NEW f2, NEW g2,
           All(q, r, s, f, g), All(q2, r, t, f2, g2),
           NEW b \in Opts, NEW result, Hears(Mark, q2, r, s, b, Kept(f, b), result),
           b \notin MaxTelOpt => result[1] # "WantNo",
           \/ q2 = q
           \/ q # << >> /\ q2 = Tail(q) /\ q[1] \in {<< s.askYes, b >>, << s.askNo, b >>}
    PROVE  Heard(q2, r, s, f, g, b, result, t, f2, g2)
<1> DEFINE u == Answered(result[2], s.tellYes, s.tellNo, b)
<1>1. result[2] \in {"", "yes", "no"}
  BY Zenon DEF Hears
<1>2. Spells(Mark, b)
  BY Sets
<1>3. /\ [g EXCEPT ![b] = result[1]] \in [Opts -> Status]
      /\ All(q2, r \o u, s, f, [g EXCEPT ![b] = result[1]])
  BY <1>2, AllHears
<1>4. s.tellYes \in Verbs /\ s.tellNo \in Verbs /\ t.tellYes \in Verbs /\ t.tellNo \in Verbs
  BY WordsDiffer
<1>5. Quietly(u, t.tellYes, t.tellNo)
  <2>1. {s.tellYes, s.tellNo} \cap {t.tellYes, t.tellNo} = {}
    BY SidesDiffer
  <2>2. ASSUME NEW c \in Opts
        PROVE  Silent(u, t.tellYes, t.tellNo, c)
    BY <1>1, <1>4, <2>1, OtherCommand
  <2>3. QED
    BY Zenon, <2>2 DEF Quietly
<1>6. u \in Seq(Mark)
  <2>1. Run(u, Bytes(result[2], s.tellYes, s.tellNo, b))
    BY <1>1, <1>4, AnswerRuns
  <2>2. QED
    BY Zenon, <2>1 DEF Run
<1>7. All(q2, r \o u, t, f2, g2)
  <2> HIDE DEF u
  <2>1. QED
    BY <1>5, <1>6, AllQuietly
<1>8. QED
  BY Zenon, <1>1, <1>3, <1>7 DEF Heard

(* The host reads what Tera Term asks of one side.                         *)
LEMMA HostHears ==
    ASSUME NEW q \in Seq(Sent), q # << >>, NEW r \in Seq(Mark),
           NEW s \in Sides, NEW f, NEW g \in [Opts -> Status],
           NEW t \in Sides, s # t, NEW f2, NEW g2,
           All(q, r, s, f, g), All(q, r, t, f2, g2), NEW b \in Opts, NEW result,
           \/ q[1] = << s.askYes, b >> /\ \E agree \in BOOLEAN : result = HostAsked(g[b], agree)
           \/ q[1] = << s.askNo, b >> /\ result = HostTold(g[b])
    PROVE  Heard(Tail(q), r, s, f, g, b, result, t, f2, g2)
<1>1. Hears(Mark, Tail(q), r, s, b, Kept(f, b), result)
  <2>1. Side(q, r, s, b, Kept(f, b), g[b])
    BY Zenon DEF All
  <2>2. Spells(Mark, b)
    BY Sets
  <2> DEFINE o == Kept(f, b)
             state == g[b]
  <2>3. /\ Side(q, r, s, b, o, state)
        /\ \/ q[1] = << s.askYes, b >> /\ \E agree \in BOOLEAN : result = HostAsked(state, agree)
           \/ q[1] = << s.askNo, b >> /\ result = HostTold(state)
    BY Zenon, <2>1
  <2> HIDE DEF o, state
  <2>4. Hears(Mark, Tail(q), r, s, b, o, result)
    BY <2>2, <2>3, SideHears
  <2>5. QED
    BY Zenon, <2>4 DEF o
<1>2. q[1] \in {<< s.askYes, b >>, << s.askNo, b >>}
  OBVIOUS
<1>3. All(Tail(q), r, t, f2, g2) /\ Tail(q) \in Seq(Sent)
  <2>1. \A c \in Opts : q[1] \notin {<< t.askYes, c >>, << t.askNo, c >>}
    <3>1. s.askYes \notin {t.askYes, t.askNo} /\ s.askNo \notin {t.askYes, t.askNo}
      BY SidesDiffer
    <3>2. QED
      BY <1>2, <3>1
  <2>2. QED
    BY <2>1, AllSkips, HeadTailProperties
<1>4. result[1] # "WantNo"
  <2>1. g[b] \in Status
    OBVIOUS
  <2>2. ASSUME NEW state \in Status, NEW agree \in BOOLEAN
        PROVE  HostAsked(state, agree)[1] # "WantNo" /\ HostTold(state)[1] # "WantNo"
    BY DEF HostAsked, HostTold, Status
  <2>3. QED
    BY Zenon, <2>1, <2>2
<1>5. QED
  BY <1>1, <1>2, <1>3, <1>4, BothHear

(* The host changes its mind about one side.                               *)
LEMMA HostChanges ==
    ASSUME NEW q \in Seq(Sent), NEW r \in Seq(Mark),
           NEW s \in Sides, NEW f, NEW g \in [Opts -> Status],
           NEW t \in Sides, s # t, NEW f2, NEW g2,
           All(q, r, s, f, g), All(q, r, t, f2, g2), NEW b \in Opts, g[b] \in {"No", "Yes"},
           NEW result,
           result = IF g[b] = "No" THEN << "WantYes", "yes" >> ELSE << "WantNo", "no" >>
    PROVE  Heard(q, r, s, f, g, b, result, t, f2, g2)
<1>1. Hears(Mark, q, r, s, b, Kept(f, b), result)
  <2>1. Side(q, r, s, b, Kept(f, b), g[b])
    BY Zenon DEF All
  <2>2. Spells(Mark, b)
    BY Sets
  <2> DEFINE o == Kept(f, b)
             state == g[b]
  <2>3. /\ Side(q, r, s, b, o, state) /\ state \in {"No", "Yes"}
        /\ result = IF state = "No" THEN << "WantYes", "yes" >> ELSE << "WantNo", "no" >>
    BY Zenon, <2>1
  <2> HIDE DEF o, state
  <2>4. Hears(Mark, q, r, s, b, o, result)
    <3>1. Hears(Mark, q, r, s, b, o, IF state = "No" THEN << "WantYes", "yes" >> ELSE << "WantNo", "no" >>)
      BY <2>2, <2>3, SideWants
    <3>2. QED
      BY Zenon, <2>3, <3>1
  <2>5. QED
    BY Zenon, <2>4 DEF o
<1>2. b \notin MaxTelOpt => result[1] # "WantNo"
  <2>1. ASSUME b \notin MaxTelOpt
        PROVE  g[b] = "No"
    <3>1. g[b] \in {"No", "WantYes"}
      BY <2>1, AllOutside
    <3>2. QED
      BY <3>1
  <2>2. << "WantYes", "yes" >>[1] # "WantNo"
    OBVIOUS
  <2>3. QED
    BY Zenon, <2>1, <2>2
<1>3. QED
  BY <1>1, <1>2, BothHear

(* More comes behind: the parser stands where it stood.                    *)
LEMMA AtMore ==
    ASSUME NEW p, At(p), UNCHANGED parser, toTerm \in Seq(Byte), NEW y \in Seq(Byte),
           toTerm' = toTerm \o y
    PROVE  At(p)'
<1>1. UNCHANGED << TelMode, IACFlag, TelCRFlag, TelStatus, SubOptBuff, SubOptIAC >>
  BY Zenon DEF parser
<1>2. toTerm # << >> => toTerm' # << >> /\ Head(toTerm') = Head(toTerm)
  OBVIOUS
<1>3. Holds(p)'
  BY <1>1 DEF At, Holds
<1>4. QED
  BY <1>1, <1>2, <1>3 DEF At

(* A step of the host that says the bytes y, which the parser will read as *)
(* u, keeps the invariant if both sides stay in step.                      *)
LEMMA HostKeeps ==
    ASSUME TelInv, UNCHANGED << options, settings, TelFlag, parser, toggles >>,
           NEW r, Run(r, toTerm), At(First(r)),
           NEW u, NEW y, Run(u, y), First(u) = "text", toTerm' = toTerm \o y,
           toHost' \in Seq(Sent), wishes' \in 0 .. HostWishes,
           hostDoes' \in [Opts -> Status], hostSees' \in [Opts -> Status],
           All(toHost', r \o u, HisWords, HisOpt, hostDoes'),
           All(toHost', r \o u, MyWords, MyOpt, hostSees')
    PROVE  TelInv'
<1>1. UNCHANGED << HisOpt, MyOpt, LocalEcho, TelBinRecv, TelEcho, began, TelFlag, TelMode, IACFlag,
                   TelCRFlag, TelStatus, SubOptBuff, SubOptIAC, toggles >>
  BY Zenon DEF options, settings, parser
<1>2. Run(r \o u, toTerm') /\ First(r \o u) = First(r)
  <2>1. Run(r \o u, toTerm \o y) /\ First(r \o u) = First(r)
    BY RunMore
  <2>2. QED
    BY Zenon, <2>1
<1>3. At(First(r \o u))'
  <2> DEFINE p == First(r)
  <2>1. toTerm \in Seq(Byte) /\ y \in Seq(Byte)
    BY Zenon DEF Run
  <2>2. At(p) /\ UNCHANGED parser
    BY Zenon
  <2> HIDE DEF p
  <2>3. At(p)'
    BY <2>1, <2>2, AtMore
  <2>4. QED
    BY Zenon, <1>2, <2>3 DEF p
<1>4. Parsing'
  <2>1. /\ All(toHost', r \o u, HisWords, HisOpt', hostDoes')
        /\ All(toHost', r \o u, MyWords, MyOpt', hostSees')
    BY Zenon, <1>1
  <2> DEFINE w == r \o u
  <2>2. /\ Run(w, toTerm') /\ At(First(w))'
        /\ All(toHost', w, HisWords, HisOpt', hostDoes')
        /\ All(toHost', w, MyWords, MyOpt', hostSees')
    BY Zenon, <1>2, <1>3, <2>1
  <2> HIDE DEF w
  <2>3. QED
    BY Zenon, <2>2 DEF Parsing
<1>5. TelTypeOK'
  BY <1>1 DEF TelInv, TelTypeOK
<1>6. EchoWanted' /\ (began => TelFlag)'
  <2>1. EchoWanted /\ (began => TelFlag)
    BY Zenon DEF TelInv
  <2>2. HisOpt' = HisOpt /\ LocalEcho' = LocalEcho /\ TelEcho' = TelEcho /\ began' = began /\ TelFlag' = TelFlag
    BY <1>1
  <2>3. EchoWanted'
    BY Zenon, <2>1, <2>2 DEF EchoWanted
  <2>4. QED
    BY <2>1, <2>2, <2>3
<1>7. QED
  BY Zenon, <1>4, <1>5, <1>6 DEF TelInv

(* What the host says that is about no option.                             *)
LEMMA PlainKeeps ==
    ASSUME TelInv,
           UNCHANGED << options, settings, TelFlag, parser, toggles, toHost, hostDoes, hostSees >>,
           NEW y, Plain(y, "text"), toTerm' = toTerm \o y, wishes' \in 0 .. HostWishes
    PROVE  TelInv'
<1>1. PICK r : /\ Run(r, toTerm) /\ At(First(r))
               /\ All(toHost, r, HisWords, HisOpt, hostDoes)
               /\ All(toHost, r, MyWords, MyOpt, hostSees)
  BY Zenon DEF TelInv, Parsing
<1>2. PICK u : Run(u, y) /\ First(u) = "text" /\ \A i \in 1 .. Len(u) : u[i][1] \notin Verbs
  BY Zenon DEF Plain
<1>3. r \in Seq(Mark) /\ u \in Seq(Mark)
  BY Zenon, <1>1, <1>2 DEF Run
<1>4. /\ toHost \in Seq(Sent) /\ hostDoes \in [Opts -> Status] /\ hostSees \in [Opts -> Status]
      /\ HisWords \in Sides /\ MyWords \in Sides
  BY Sets DEF TelInv, TelTypeOK
<1>5. ASSUME NEW s \in Sides
      PROVE  Quietly(u, s.tellYes, s.tellNo)
  <2>1. s.tellYes \in Verbs /\ s.tellNo \in Verbs
    BY WordsDiffer
  <2>2. ASSUME NEW b \in Opts, NEW i \in 1 .. Len(u)
        PROVE  u[i] \notin {<< s.tellYes, b >>, << s.tellNo, b >>}
    <3>1. u[i][1] \notin Verbs
      BY Zenon, <1>2
    <3>2. QED
      BY <2>1, <3>1
  <2>3. QED
    BY Zenon, <2>2 DEF Quietly, Silent
<1>6. /\ All(toHost, r \o u, HisWords, HisOpt, hostDoes)
      /\ All(toHost, r \o u, MyWords, MyOpt, hostSees)
  <2>1. Quietly(u, HisWords.tellYes, HisWords.tellNo) /\ Quietly(u, MyWords.tellYes, MyWords.tellNo)
    BY Zenon, <1>4, <1>5
  <2>2. QED
    BY <1>1, <1>3, <1>4, <2>1, AllQuietly
<1>7. /\ toHost' \in Seq(Sent) /\ hostDoes' \in [Opts -> Status] /\ hostSees' \in [Opts -> Status]
      /\ All(toHost', r \o u, HisWords, HisOpt, hostDoes')
      /\ All(toHost', r \o u, MyWords, MyOpt, hostSees')
  BY Zenon, <1>4, <1>6
<1>8. QED
  BY <1>1, <1>2, <1>7, HostKeeps

(* What the host says of one side (s) of an option b.                      *)
LEMMA SpokenKeeps ==
    ASSUME TelInv, UNCHANGED << options, settings, TelFlag, parser, toggles >>,
           NEW r, Run(r, toTerm), At(First(r)), NEW result, NEW b \in Opts,
           toHost' \in Seq(Sent), wishes' \in 0 .. HostWishes,
           \/ /\ Heard(toHost', r, HisWords, HisOpt, hostDoes, b, result, MyWords, MyOpt, hostSees)
              /\ hostDoes' = [hostDoes EXCEPT ![b] = result[1]] /\ hostSees' = hostSees
              /\ toTerm' = toTerm \o Bytes(result[2], "WILL", "WONT", b)
           \/ /\ Heard(toHost', r, MyWords, MyOpt, hostSees, b, result, HisWords, HisOpt, hostDoes)
              /\ hostSees' = [hostSees EXCEPT ![b] = result[1]] /\ hostDoes' = hostDoes
              /\ toTerm' = toTerm \o Bytes(result[2], "DO", "DONT", b)
    PROVE  TelInv'
<1>1. /\ hostDoes \in [Opts -> Status] /\ hostSees \in [Opts -> Status]
      /\ HisWords.tellYes = "WILL" /\ HisWords.tellNo = "WONT"
      /\ MyWords.tellYes = "DO" /\ MyWords.tellNo = "DONT"
      /\ {"WILL", "WONT", "DO", "DONT"} \subseteq Verbs
  BY Sets DEF TelInv, TelTypeOK, Verbs
<1>2. PICK u, y :
        /\ Run(u, y) /\ First(u) = "text" /\ toTerm' = toTerm \o y
        /\ hostDoes' \in [Opts -> Status] /\ hostSees' \in [Opts -> Status]
        /\ All(toHost', r \o u, HisWords, HisOpt, hostDoes')
        /\ All(toHost', r \o u, MyWords, MyOpt, hostSees')
  <2>1. CASE /\ Heard(toHost', r, HisWords, HisOpt, hostDoes, b, result, MyWords, MyOpt, hostSees)
             /\ hostDoes' = [hostDoes EXCEPT ![b] = result[1]] /\ hostSees' = hostSees
             /\ toTerm' = toTerm \o Bytes(result[2], "WILL", "WONT", b)
    <3> DEFINE u == Answered(result[2], "WILL", "WONT", b)
               y == Bytes(result[2], "WILL", "WONT", b)
    <3>1. /\ result[2] \in {"", "yes", "no"}
          /\ [hostDoes EXCEPT ![b] = result[1]] \in [Opts -> Status]
          /\ All(toHost', r \o u, HisWords, HisOpt, [hostDoes EXCEPT ![b] = result[1]])
          /\ All(toHost', r \o u, MyWords, MyOpt, hostSees)
      BY Zenon, <1>1, <2>1 DEF Heard
    <3>2. Run(u, y) /\ First(u) = "text"
      <4>1. "WILL" \in Verbs /\ "WONT" \in Verbs
        BY <1>1
      <4>2. QED
        BY Zenon, <3>1, <4>1, AnswerRuns
    <3> HIDE DEF u
    <3>3. QED
      BY Zenon, <1>1, <2>1, <3>1, <3>2
  <2>2. CASE /\ Heard(toHost', r, MyWords, MyOpt, hostSees, b, result, HisWords, HisOpt, hostDoes)
             /\ hostSees' = [hostSees EXCEPT ![b] = result[1]] /\ hostDoes' = hostDoes
             /\ toTerm' = toTerm \o Bytes(result[2], "DO", "DONT", b)
    <3> DEFINE u == Answered(result[2], "DO", "DONT", b)
               y == Bytes(result[2], "DO", "DONT", b)
    <3>1. /\ result[2] \in {"", "yes", "no"}
          /\ [hostSees EXCEPT ![b] = result[1]] \in [Opts -> Status]
          /\ All(toHost', r \o u, MyWords, MyOpt, [hostSees EXCEPT ![b] = result[1]])
          /\ All(toHost', r \o u, HisWords, HisOpt, hostDoes)
      BY Zenon, <1>1, <2>2 DEF Heard
    <3>2. Run(u, y) /\ First(u) = "text"
      <4>1. "DO" \in Verbs /\ "DONT" \in Verbs
        BY <1>1
      <4>2. QED
        BY Zenon, <3>1, <4>1, AnswerRuns
    <3> HIDE DEF u
    <3>3. QED
      BY Zenon, <1>1, <2>2, <3>1, <3>2
  <2>3. QED
    BY Zenon, <2>1, <2>2
<1>3. QED
  BY <1>2, HostKeeps

(* The host reads a command.                                               *)
LEMMA ReadsKeeps ==
    ASSUME TelInv, HostReads
    PROVE  TelInv'
<1>1. PICK r : /\ Run(r, toTerm) /\ At(First(r))
               /\ All(toHost, r, HisWords, HisOpt, hostDoes)
               /\ All(toHost, r, MyWords, MyOpt, hostSees)
  BY Zenon DEF TelInv, Parsing
<1>2. r \in Seq(Mark) /\ toTerm \in Seq(Byte)
  BY Zenon, <1>1 DEF Run
<1>3. /\ toHost \in Seq(Sent) /\ hostDoes \in [Opts -> Status] /\ hostSees \in [Opts -> Status]
      /\ wishes \in 0 .. HostWishes
  BY DEF TelInv, TelTypeOK
<1>4. /\ HisWords \in Sides /\ MyWords \in Sides /\ HisWords # MyWords
      /\ HisWords.askYes = "DO" /\ HisWords.askNo = "DONT"
      /\ MyWords.askYes = "WILL" /\ MyWords.askNo = "WONT"
  BY Sets
<1>5. /\ toHost # << >> /\ toHost' = Tail(toHost)
      /\ UNCHANGED << options, settings, TelFlag, parser, WinSize, said, shown, wishes, toggles >>
  BY Zenon DEF HostReads
<1>6. PICK c, b :
        /\ c \in Verbs \cup {"SB"} /\ b \in Opts /\ toHost[1] = << c, b >>
        /\ c = Head(toHost)[1] /\ b = Head(toHost)[2]
  <2>1. Head(toHost) = toHost[1] /\ toHost[1] \in Sent
    BY <1>3, <1>5
  <2>2. PICK c \in Verbs \cup {"SB"}, b \in Opts : toHost[1] = << c, b >>
    BY <2>1 DEF Sent
  <2>3. c = Head(toHost)[1] /\ b = Head(toHost)[2]
    BY <2>1, <2>2
  <2>4. QED
    BY Zenon, <2>2, <2>3
<1>7. Tail(toHost) \in Seq(Sent) /\ toHost' \in Seq(Sent)
  BY <1>3, <1>5, HeadTailProperties
<1>8. wishes' \in 0 .. HostWishes
  BY <1>3, <1>5
<1>9. CASE c \in {"DO", "DONT"}
  <2>1. PICK agree \in BOOLEAN :
          LET result == IF c = "DO" THEN HostAsked(hostDoes[b], agree) ELSE HostTold(hostDoes[b])
          IN  /\ hostDoes' = [hostDoes EXCEPT ![b] = result[1]]
              /\ HostAnswer(result[2], "WILL", "WONT", b)
    <3>1. c \notin {"WILL", "WONT"} /\ c # "SB"
      BY <1>9
    <3>2. QED
      BY Zenon, <1>6, <1>9, <3>1 DEF HostReads
  <2>2. hostSees' = hostSees
    <3>1. c \notin {"WILL", "WONT"} /\ c # "SB"
      BY <1>9
    <3>2. QED
      BY Zenon, <1>6, <1>9, <3>1 DEF HostReads
  <2> DEFINE result == IF c = "DO" THEN HostAsked(hostDoes[b], agree) ELSE HostTold(hostDoes[b])
  <2>3. /\ hostDoes' = [hostDoes EXCEPT ![b] = result[1]]
        /\ toTerm' = toTerm \o Bytes(result[2], "WILL", "WONT", b)
    BY Zenon, <2>1 DEF HostAnswer, HostSays, Bytes
  <2>4. \/ c = "DO" /\ \E a \in BOOLEAN : result = HostAsked(hostDoes[b], a)
        \/ c = "DONT" /\ result = HostTold(hostDoes[b])
    <3>1. c = "DO" => result = HostAsked(hostDoes[b], agree)
      BY Zenon
    <3>2. c # "DO" => result = HostTold(hostDoes[b])
      BY Zenon
    <3> HIDE DEF result
    <3>3. QED
      BY Zenon, <1>9, <2>1, <3>1, <3>2
  <2> HIDE DEF result
  <2>5. \/ toHost[1] = << HisWords.askYes, b >> /\ \E a \in BOOLEAN : result = HostAsked(hostDoes[b], a)
        \/ toHost[1] = << HisWords.askNo, b >> /\ result = HostTold(hostDoes[b])
    BY Zenon, <1>4, <1>6, <2>4
  <2>6. Heard(Tail(toHost), r, HisWords, HisOpt, hostDoes, b, result, MyWords, MyOpt, hostSees)
    BY <1>1, <1>2, <1>3, <1>4, <1>5, <1>6, <2>5, HostHears
  <2>7. Heard(toHost', r, HisWords, HisOpt, hostDoes, b, result, MyWords, MyOpt, hostSees)
    BY Zenon, <1>5, <2>6
  <2>8. QED
    BY <1>1, <1>5, <1>6, <1>7, <1>8, <2>2, <2>3, <2>7, SpokenKeeps
<1>10. CASE c \in {"WILL", "WONT"}
  <2>1. PICK agree \in BOOLEAN :
          LET result == IF c = "WILL" THEN HostAsked(hostSees[b], agree) ELSE HostTold(hostSees[b])
          IN  /\ hostSees' = [hostSees EXCEPT ![b] = result[1]]
              /\ HostAnswer(result[2], "DO", "DONT", b)
    <3>1. c \notin {"DO", "DONT"} /\ c # "SB"
      BY <1>10
    <3>2. QED
      BY Zenon, <1>6, <1>10, <3>1 DEF HostReads
  <2>2. hostDoes' = hostDoes
    <3>1. c \notin {"DO", "DONT"} /\ c # "SB"
      BY <1>10
    <3>2. QED
      BY Zenon, <1>6, <1>10, <3>1 DEF HostReads
  <2> DEFINE result == IF c = "WILL" THEN HostAsked(hostSees[b], agree) ELSE HostTold(hostSees[b])
  <2>3. /\ hostSees' = [hostSees EXCEPT ![b] = result[1]]
        /\ toTerm' = toTerm \o Bytes(result[2], "DO", "DONT", b)
    BY Zenon, <2>1 DEF HostAnswer, HostSays, Bytes
  <2>4. \/ c = "WILL" /\ \E a \in BOOLEAN : result = HostAsked(hostSees[b], a)
        \/ c = "WONT" /\ result = HostTold(hostSees[b])
    <3>1. c = "WILL" => result = HostAsked(hostSees[b], agree)
      BY Zenon
    <3>2. c # "WILL" => result = HostTold(hostSees[b])
      BY Zenon
    <3> HIDE DEF result
    <3>3. QED
      BY Zenon, <1>10, <2>1, <3>1, <3>2
  <2> HIDE DEF result
  <2>5. \/ toHost[1] = << MyWords.askYes, b >> /\ \E a \in BOOLEAN : result = HostAsked(hostSees[b], a)
        \/ toHost[1] = << MyWords.askNo, b >> /\ result = HostTold(hostSees[b])
    BY Zenon, <1>4, <1>6, <2>4
  <2>6. Heard(Tail(toHost), r, MyWords, MyOpt, hostSees, b, result, HisWords, HisOpt, hostDoes)
    BY <1>1, <1>2, <1>3, <1>4, <1>5, <1>6, <2>5, HostHears
  <2>7. Heard(toHost', r, MyWords, MyOpt, hostSees, b, result, HisWords, HisOpt, hostDoes)
    BY Zenon, <1>5, <2>6
  <2>8. QED
    BY <1>1, <1>5, <1>6, <1>7, <1>8, <2>2, <2>3, <2>7, SpokenKeeps
<1>11. CASE c = "SB"
  <2>1. UNCHANGED << hostDoes, hostSees, toTerm >>
    <3>1. c \notin {"DO", "DONT", "WILL", "WONT"}
      BY <1>11
    <3>2. QED
      BY Zenon, <1>6, <1>11, <3>1 DEF HostReads
  <2>2. ASSUME NEW s \in Sides, NEW f, NEW g, All(toHost, r, s, f, g)
        PROVE  All(Tail(toHost), r, s, f, g)
    <3>1. \A d \in Opts : toHost[1] \notin {<< s.askYes, d >>, << s.askNo, d >>}
      <4>1. s.askYes \in Verbs /\ s.askNo \in Verbs /\ c \notin Verbs
        BY <1>11, WordsDiffer DEF Verbs
      <4>2. QED
        BY <1>6, <4>1
    <3>2. QED
      BY <1>2, <1>3, <1>5, <2>2, <3>1, AllSkips
  <2>3. /\ All(toHost', r, HisWords, HisOpt, hostDoes') /\ All(toHost', r, MyWords, MyOpt, hostSees')
        /\ hostDoes' \in [Opts -> Status] /\ hostSees' \in [Opts -> Status]
    BY Zenon, <1>1, <1>3, <1>4, <1>5, <2>1, <2>2
  <2>4. r \o << >> = r /\ toTerm' = toTerm \o << >>
    BY <1>2, <2>1
  <2>5. PICK u, y : u = << >> /\ y = << >>
    OBVIOUS
  <2>6. Run(u, y) /\ First(u) = "text"
    BY Zenon, <2>5, NothingRuns
  <2>7. /\ All(toHost', r \o u, HisWords, HisOpt, hostDoes') /\ toTerm' = toTerm \o y
        /\ All(toHost', r \o u, MyWords, MyOpt, hostSees')
    BY Zenon, <2>3, <2>4, <2>5
  <2>8. QED
    BY <1>1, <1>5, <1>7, <1>8, <2>3, <2>6, <2>7, HostKeeps
<1>12. QED
  BY <1>6, <1>9, <1>10, <1>11 DEF Verbs

(* The host changes its mind, or says something that is about no option.   *)
LEMMA WantsKeeps ==
    ASSUME TelInv, HostWants
    PROVE  TelInv'
<1>1. PICK r : /\ Run(r, toTerm) /\ At(First(r))
               /\ All(toHost, r, HisWords, HisOpt, hostDoes)
               /\ All(toHost, r, MyWords, MyOpt, hostSees)
  BY Zenon DEF TelInv, Parsing
<1>2. r \in Seq(Mark)
  BY Zenon, <1>1 DEF Run
<1>3. /\ toHost \in Seq(Sent) /\ hostDoes \in [Opts -> Status] /\ hostSees \in [Opts -> Status]
      /\ wishes \in 0 .. HostWishes
  BY DEF TelInv, TelTypeOK
<1>4. HisWords \in Sides /\ MyWords \in Sides /\ HisWords # MyWords
  BY Sets
<1>5. /\ wishes < HostWishes /\ wishes' = wishes + 1 /\ toHost' = toHost
      /\ UNCHANGED << options, settings, TelFlag, parser, WinSize, said, shown, toggles >>
  BY Zenon DEF HostWants
<1>6. toHost' \in Seq(Sent) /\ wishes' \in 0 .. HostWishes
  <2>1. HostWishes \in Nat
    BY TelConstants
  <2>2. QED
    BY <1>3, <1>5, <2>1
<1>7. ASSUME NEW b \in Opts, hostDoes[b] \in {"No", "Yes"},
             hostDoes' = [hostDoes EXCEPT ![b] = IF hostDoes[b] = "No" THEN "WantYes" ELSE "WantNo"],
             HostSays(<< "IAC", IF hostDoes[b] = "No" THEN "WILL" ELSE "WONT", b >>),
             hostSees' = hostSees
      PROVE  TelInv'
  <2> DEFINE result == IF hostDoes[b] = "No" THEN << "WantYes", "yes" >> ELSE << "WantNo", "no" >>
  <2>1. /\ hostDoes[b] = "No" => result[1] = "WantYes" /\ result[2] = "yes"
        /\ hostDoes[b] # "No" => result[1] = "WantNo" /\ result[2] = "no"
    OBVIOUS
  <2>2. result = IF hostDoes[b] = "No" THEN << "WantYes", "yes" >> ELSE << "WantNo", "no" >>
    BY Zenon
  <2> HIDE DEF result
  <2>3. /\ hostDoes' = [hostDoes EXCEPT ![b] = result[1]]
        /\ toTerm' = toTerm \o Bytes(result[2], "WILL", "WONT", b)
    <3>1. /\ Bytes("yes", "WILL", "WONT", b) = << "IAC", "WILL", b >>
          /\ Bytes("no", "WILL", "WONT", b) = << "IAC", "WONT", b >>
      BY DEF Bytes
    <3>2. CASE hostDoes[b] = "No"
      BY Zenon, <1>7, <2>1, <3>1, <3>2 DEF HostSays
    <3>3. CASE hostDoes[b] # "No"
      BY Zenon, <1>7, <2>1, <3>1, <3>3 DEF HostSays
    <3>4. QED
      BY Zenon, <3>2, <3>3
  <2>4. Heard(toHost, r, HisWords, HisOpt, hostDoes, b, result, MyWords, MyOpt, hostSees)
    BY <1>1, <1>2, <1>3, <1>4, <1>7, <2>2, HostChanges
  <2>5. Heard(toHost', r, HisWords, HisOpt, hostDoes, b, result, MyWords, MyOpt, hostSees)
    BY Zenon, <1>5, <2>4
  <2>6. QED
    BY <1>1, <1>3, <1>5, <1>6, <1>7, <2>3, <2>5, SpokenKeeps
<1>8. ASSUME NEW b \in Opts, hostSees[b] \in {"No", "Yes"},
             hostSees' = [hostSees EXCEPT ![b] = IF hostSees[b] = "No" THEN "WantYes" ELSE "WantNo"],
             HostSays(<< "IAC", IF hostSees[b] = "No" THEN "DO" ELSE "DONT", b >>),
             hostDoes' = hostDoes
      PROVE  TelInv'
  <2> DEFINE result == IF hostSees[b] = "No" THEN << "WantYes", "yes" >> ELSE << "WantNo", "no" >>
  <2>1. /\ hostSees[b] = "No" => result[1] = "WantYes" /\ result[2] = "yes"
        /\ hostSees[b] # "No" => result[1] = "WantNo" /\ result[2] = "no"
    OBVIOUS
  <2>2. result = IF hostSees[b] = "No" THEN << "WantYes", "yes" >> ELSE << "WantNo", "no" >>
    BY Zenon
  <2> HIDE DEF result
  <2>3. /\ hostSees' = [hostSees EXCEPT ![b] = result[1]]
        /\ toTerm' = toTerm \o Bytes(result[2], "DO", "DONT", b)
    <3>1. /\ Bytes("yes", "DO", "DONT", b) = << "IAC", "DO", b >>
          /\ Bytes("no", "DO", "DONT", b) = << "IAC", "DONT", b >>
      BY DEF Bytes
    <3>2. CASE hostSees[b] = "No"
      BY Zenon, <1>8, <2>1, <3>1, <3>2 DEF HostSays
    <3>3. CASE hostSees[b] # "No"
      BY Zenon, <1>8, <2>1, <3>1, <3>3 DEF HostSays
    <3>4. QED
      BY Zenon, <3>2, <3>3
  <2>4. Heard(toHost, r, MyWords, MyOpt, hostSees, b, result, HisWords, HisOpt, hostDoes)
    BY <1>1, <1>2, <1>3, <1>4, <1>8, <2>2, HostChanges
  <2>5. Heard(toHost', r, MyWords, MyOpt, hostSees, b, result, HisWords, HisOpt, hostDoes)
    BY Zenon, <1>5, <2>4
  <2>6. QED
    BY <1>1, <1>3, <1>5, <1>6, <1>8, <2>3, <2>5, SpokenKeeps
<1>9. ASSUME NEW y, Plain(y, "text"), HostSays(y), UNCHANGED << hostDoes, hostSees >>
      PROVE  TelInv'
  <2>1. toTerm' = toTerm \o y
    BY Zenon, <1>9 DEF HostSays
  <2>2. QED
    BY <1>5, <1>6, <1>9, <2>1, PlainKeeps
<1>10. \/ \E b \in Opts :
            \/ /\ hostDoes[b] \in {"No", "Yes"}
               /\ hostDoes' = [hostDoes EXCEPT ![b] = IF hostDoes[b] = "No" THEN "WantYes" ELSE "WantNo"]
               /\ HostSays(<< "IAC", IF hostDoes[b] = "No" THEN "WILL" ELSE "WONT", b >>)
               /\ hostSees' = hostSees
            \/ /\ hostSees[b] \in {"No", "Yes"}
               /\ hostSees' = [hostSees EXCEPT ![b] = IF hostSees[b] = "No" THEN "WantYes" ELSE "WantNo"]
               /\ HostSays(<< "IAC", IF hostSees[b] = "No" THEN "DO" ELSE "DONT", b >>)
               /\ hostDoes' = hostDoes
            \/ /\ b \in {"TERMTYPE", "TERMSPEED"}
               /\ HostSays(<< "IAC", "SB", b, "SEND", "IAC", "SE" >>)
               /\ UNCHANGED << hostDoes, hostSees >>
       \/ /\ HostSays(<< "IAC", "SB", "NAWS", "a", "IAC", "IAC", "a", "a", "IAC", "SE" >>)
          /\ UNCHANGED << hostDoes, hostSees >>
       \/ HostSays(<< "IAC", "NOP" >>) /\ UNCHANGED << hostDoes, hostSees >>
  BY Zenon DEF HostWants
<1>11. ASSUME NEW b \in {"TERMTYPE", "TERMSPEED"},
              HostSays(<< "IAC", "SB", b, "SEND", "IAC", "SE" >>), UNCHANGED << hostDoes, hostSees >>
       PROVE  TelInv'
  BY Zenon, <1>9, <1>11, PlainQuestion
<1>12. ASSUME HostSays(<< "IAC", "SB", "NAWS", "a", "IAC", "IAC", "a", "a", "IAC", "SE" >>),
              UNCHANGED << hostDoes, hostSees >>
       PROVE  TelInv'
  BY Zenon, <1>9, <1>12, PlainSize
<1>13. ASSUME HostSays(<< "IAC", "NOP" >>), UNCHANGED << hostDoes, hostSees >>
       PROVE  TelInv'
  BY Zenon, <1>9, <1>13, PlainNop
<1>14. QED
  BY Zenon, <1>7, <1>8, <1>10, <1>11, <1>12, <1>13

(* The host says a character of the session.                               *)
LEMMA SpeaksKeeps ==
    ASSUME TelInv, HostSpeaks
    PROVE  TelInv'
<1>1. UNCHANGED << options, settings, TelFlag, parser, WinSize, toHost, hostDoes, hostSees, shown,
                   wishes, toggles >>
  BY Zenon DEF HostSpeaks
<1>2. wishes' \in 0 .. HostWishes
  BY <1>1 DEF TelInv, TelTypeOK
<1>3. PICK c \in {"a", "CR", "IAC"} :
         HostSays(CASE c = "a" -> << c >>
                    [] c = "CR" -> IF hostDoes["BINARY"] = "Yes" THEN << c >> ELSE << c, "NUL" >>
                    [] c = "IAC" -> << c, c >>)
  BY Zenon DEF HostSpeaks
<1>4. PICK y : /\ HostSays(y)
               /\ y = CASE c = "a" -> << c >>
                        [] c = "CR" -> IF hostDoes["BINARY"] = "Yes" THEN << c >> ELSE << c, "NUL" >>
                        [] c = "IAC" -> << c, c >>
  BY Zenon, <1>3
<1>5. \/ y = << "a" >> \/ y = << "CR" >> \/ y = << "CR", "NUL" >> \/ y = << "IAC", "IAC" >>
  <2>1. CASE c = "a"
    BY <1>4, <2>1
  <2>2. CASE c = "CR"
    BY <1>4, <2>2
  <2>3. CASE c = "IAC"
    BY <1>4, <2>3
  <2>4. QED
    BY <1>3, <2>1, <2>2, <2>3
<1>6. Plain(y, "text")
  BY Zenon, <1>5, PlainLetter, PlainReturn, PlainReturnNul, PlainTwice
<1>7. toTerm' = toTerm \o y
  BY Zenon, <1>4 DEF HostSays
<1>8. QED
  BY <1>1, <1>2, <1>6, <1>7, PlainKeeps
-----------------------------------------------------------------------------
(* The start: q has asked for the options of D of the host's and for those *)
(* of M of our own.                                                        *)
Spelt(q, yes, no, b, S) == Word(q, << yes, b >>, << no, b >>, IF b \in S THEN "y" ELSE "")

Begun(q, D, M) ==
    /\ q \in Seq(Sent)
    /\ \A b \in Opts : Spelt(q, "DO", "DONT", b, D) /\ Spelt(q, "WILL", "WONT", b, M)

LEMMA BegunNothing == Begun(<< >>, {}, {})
<1>1. << >> \in Seq(Sent)
  BY ShortSeq
<1>2. ASSUME NEW b \in Opts
      PROVE  Spelt(<< >>, "DO", "DONT", b, {}) /\ Spelt(<< >>, "WILL", "WONT", b, {})
  <2>1. b \notin {}
    OBVIOUS
  <2>2. \A yes, no : Word(<< >>, yes, no, "")
    BY Zenon, WordEmpty
  <2>3. QED
    BY Zenon, <2>1, <2>2 DEF Spelt
<1>3. QED
  BY Zenon, <1>1, <1>2 DEF Begun

LEMMA LoneOther ==
    ASSUME NEW m, NEW y, NEW z, m \notin {y, z}
    PROVE  \A k \in 1 .. Len(<< m >>) : << m >>[k] \notin {y, z}
<1>1. 1 .. Len(<< m >>) = {1} /\ << m >>[1] = m
  OBVIOUS
<1>2. QED
  BY Zenon, <1>1

(* One more is asked for: m is the word y, or none of both.                *)
LEMMA OneMore ==
    ASSUME NEW q \in Seq(Sent), NEW m \in Sent, NEW y, NEW z, y # z,
           NEW w, Word(q, y, z, w), NEW w2,
           \/ m = y /\ w = "" /\ w2 = "y"
           \/ m \notin {y, z} /\ w2 = w
    PROVE  Word(q \o << m >>, y, z, w2)
<1>1. << m >> \in Seq(Sent) /\ q \o << m >> = Append(q, m)
  BY AppendOne
<1>2. CASE m = y /\ w = "" /\ w2 = "y"
  <2>1. Word(Append(q, m), y, z, "y")
    BY <1>2, WordAppend
  <2>2. QED
    BY Zenon, <1>1, <1>2, <2>1
<1>3. CASE m \notin {y, z} /\ w2 = w
  <2> DEFINE u == << m >>
  <2>1. u \in Seq(Sent) /\ \A k \in 1 .. Len(u) : u[k] \notin {y, z}
    BY Zenon, <1>1, <1>3, LoneOther
  <2> HIDE DEF u
  <2>2. Word(q \o u, y, z, w)
    BY <2>1, WordSilent
  <2>3. QED
    BY Zenon, <1>3, <2>2 DEF u
<1>4. QED
  BY Zenon, <1>2, <1>3

(* The same for all options, when option e is asked for on the side of yes *)
(* and no, of which those of S were before.                                *)
LEMMA OneAsked ==
    ASSUME NEW q \in Seq(Sent), NEW v, NEW e, NEW m \in Sent, m = << v, e >>,
           NEW yes, NEW no, yes # no, NEW b, NEW S, NEW T,
           Spelt(q, yes, no, b, S),
           \/ v = yes /\ e \notin S /\ T = S \cup {e}
           \/ v \notin {yes, no} /\ T = S
    PROVE  Spelt(q \o << m >>, yes, no, b, T)
<1> DEFINE y == << yes, b >>
           z == << no, b >>
           w == IF b \in S THEN "y" ELSE ""
           w2 == IF b \in T THEN "y" ELSE ""
<1>1. y # z
  OBVIOUS
<1>2. \/ m = y /\ w = "" /\ w2 = "y"
      \/ m \notin {y, z} /\ w2 = w
  <2>1. CASE v = yes /\ e = b /\ e \notin S /\ T = S \cup {e}
    <3>1. b \notin S /\ b \in T /\ m = y
      BY <2>1
    <3>2. QED
      BY Zenon, <3>1
  <2>2. CASE (v = yes /\ e # b /\ T = S \cup {e}) \/ (v \notin {yes, no} /\ T = S)
    <3>1. ((b \in T) <=> (b \in S)) /\ m # y /\ m # z
      BY <2>2
    <3>2. QED
      BY Zenon, <3>1
  <2>3. QED
    BY <2>1, <2>2
<1>3. Word(q, y, z, w)
  BY Zenon DEF Spelt
<1> HIDE DEF y, z, w, w2
<1>4. Word(q \o << m >>, y, z, w2)
  BY <1>1, <1>2, <1>3, OneMore
<1>5. QED
  BY Zenon, <1>4 DEF Spelt, y, z, w2

LEMMA BegunHis ==
    ASSUME NEW q, NEW D, NEW M, Begun(q, D, M), NEW e, NEW his \in SUBSET Opts, e \notin D
    PROVE  Begun(q \o IF e \in his THEN << << "DO", e >> >> ELSE << >>,
                 IF e \in his THEN D \cup {e} ELSE D, M)
<1>1. q \in Seq(Sent)
  BY Zenon DEF Begun
<1>2. CASE e \in his
  <2>1. PICK m \in Sent : m = << "DO", e >>
    BY <1>2 DEF Sent, Verbs
  <2>2. << m >> \in Seq(Sent) /\ q \o << m >> \in Seq(Sent)
    BY <1>1
  <2>3. ASSUME NEW b \in Opts
        PROVE  /\ Spelt(q \o << m >>, "DO", "DONT", b, D \cup {e})
               /\ Spelt(q \o << m >>, "WILL", "WONT", b, M)
    <3>1. /\ Spelt(q, "DO", "DONT", b, D)
          /\ Spelt(q, "WILL", "WONT", b, M)
      BY Zenon DEF Begun
    <3>2. PICK T : T = D \cup {e}
      OBVIOUS
    <3>3. Spelt(q \o << m >>, "DO", "DONT", b, T)
      BY <1>1, <2>1, <3>1, <3>2, OneAsked
    <3>4. Spelt(q \o << m >>, "WILL", "WONT", b, M)
      BY <1>1, <2>1, <3>1, OneAsked
    <3>5. QED
      BY Zenon, <3>2, <3>3, <3>4
  <2>4. Begun(q \o << m >>, D \cup {e}, M)
    BY Zenon, <2>2, <2>3 DEF Begun
  <2>5. QED
    BY Zenon, <1>2, <2>1, <2>4
<1>3. CASE e \notin his
  <2>1. q \o << >> = q
    BY <1>1
  <2>2. QED
    BY Zenon, <1>3, <2>1
<1>4. QED
  BY <1>2, <1>3

LEMMA BegunMine ==
    ASSUME NEW q, NEW D, NEW M, Begun(q, D, M), NEW e, NEW my \in SUBSET Opts, e \notin M
    PROVE  Begun(q \o IF e \in my THEN << << "WILL", e >> >> ELSE << >>,
                 D, IF e \in my THEN M \cup {e} ELSE M)
<1>1. q \in Seq(Sent)
  BY Zenon DEF Begun
<1>2. CASE e \in my
  <2>1. PICK m \in Sent : m = << "WILL", e >>
    BY <1>2 DEF Sent, Verbs
  <2>2. << m >> \in Seq(Sent) /\ q \o << m >> \in Seq(Sent)
    BY <1>1
  <2>3. ASSUME NEW b \in Opts
        PROVE  /\ Spelt(q \o << m >>, "DO", "DONT", b, D)
               /\ Spelt(q \o << m >>, "WILL", "WONT", b, M \cup {e})
    <3>1. /\ Spelt(q, "DO", "DONT", b, D)
          /\ Spelt(q, "WILL", "WONT", b, M)
      BY Zenon DEF Begun
    <3>2. PICK T : T = M \cup {e}
      OBVIOUS
    <3>3. Spelt(q \o << m >>, "WILL", "WONT", b, T)
      BY <1>1, <2>1, <3>1, <3>2, OneAsked
    <3>4. Spelt(q \o << m >>, "DO", "DONT", b, D)
      BY <1>1, <2>1, <3>1, OneAsked
    <3>5. QED
      BY Zenon, <3>2, <3>3, <3>4
  <2>4. Begun(q \o << m >>, D, M \cup {e})
    BY Zenon, <2>2, <2>3 DEF Begun
  <2>5. QED
    BY Zenon, <1>2, <2>1, <2>4
<1>3. CASE e \notin my
  <2>1. q \o << >> = q
    BY <1>1
  <2>2. QED
    BY Zenon, <1>3, <2>1
<1>4. QED
  BY <1>2, <1>3

(* All that OnCommOpen asks for, in its order.                             *)
LEMMA AllAsked ==
    ASSUME NEW his \in SUBSET Opts, NEW my \in SUBSET Opts,
           his \subseteq {"ECHO", "BINARY"},
           my \subseteq {"TERMTYPE", "NAWS", "TERMSPEED", "BINARY"}
    PROVE  LET Will(b) == IF b \in my THEN << << "WILL", b >> >> ELSE << >>
               Do(b) == IF b \in his THEN << << "DO", b >> >> ELSE << >>
           IN  \E D, M :
                 /\ Begun(Will("TERMTYPE") \o Do("ECHO") \o Will("NAWS") \o Will("BINARY")
                            \o Do("BINARY") \o Will("TERMSPEED"), D, M)
                 /\ \A b : (b \in D <=> b \in his) /\ (b \in M <=> b \in my)
<1> DEFINE Will(b) == IF b \in my THEN << << "WILL", b >> >> ELSE << >>
           Do(b) == IF b \in his THEN << << "DO", b >> >> ELSE << >>
<1>1. \A q, D, M, e : Begun(q, D, M) /\ e \notin D => Begun(q \o Do(e), IF e \in his THEN D \cup {e} ELSE D, M)
  BY Zenon, BegunHis
<1>2. \A q, D, M, e : Begun(q, D, M) /\ e \notin M => Begun(q \o Will(e), D, IF e \in my THEN M \cup {e} ELSE M)
  BY Zenon, BegunMine
<1>3. Will("TERMTYPE") = << >> \o Will("TERMTYPE")
  OBVIOUS
<1> DEFINE q1 == Will("TERMTYPE")
           q2 == q1 \o Do("ECHO")
           q3 == q2 \o Will("NAWS")
           q4 == q3 \o Will("BINARY")
           q5 == q4 \o Do("BINARY")
           q6 == q5 \o Will("TERMSPEED")
<1> HIDE DEF Will, Do
<1>4. PICK M1 : /\ Begun(q1, {}, M1)
                /\ \A b : b \in M1 <=> (b \in my /\ b \in {"TERMTYPE"})
  <2>1. Begun(q1, {}, IF "TERMTYPE" \in my THEN {} \cup {"TERMTYPE"} ELSE {})
    <3>1. "TERMTYPE" \notin {}
      OBVIOUS
    <3>2. Begun(<< >> \o Will("TERMTYPE"), {}, IF "TERMTYPE" \in my THEN {} \cup {"TERMTYPE"} ELSE {})
      BY Zenon, <1>2, <3>1, BegunNothing
    <3>3. QED
      BY Zenon, <1>3, <3>2
  <2>2. \A b : b \in (IF "TERMTYPE" \in my THEN {} \cup {"TERMTYPE"} ELSE {})
                 <=> (b \in my /\ b \in {"TERMTYPE"})
    OBVIOUS
  <2>3. QED
    BY Zenon, <2>1, <2>2
<1>5. PICK D2 : /\ Begun(q2, D2, M1)
                /\ \A b : b \in D2 <=> (b \in his /\ b \in {"ECHO"})
  <2>1. Begun(q2, IF "ECHO" \in his THEN {} \cup {"ECHO"} ELSE {}, M1)
    <3>1. "ECHO" \notin {}
      OBVIOUS
    <3>2. QED
      BY Zenon, <1>1, <1>4, <3>1
  <2>2. \A b : b \in (IF "ECHO" \in his THEN {} \cup {"ECHO"} ELSE {})
                 <=> (b \in his /\ b \in {"ECHO"})
    OBVIOUS
  <2>3. QED
    BY Zenon, <2>1, <2>2
<1>6. PICK M3 : /\ Begun(q3, D2, M3)
                /\ \A b : b \in M3 <=> (b \in my /\ b \in {"TERMTYPE", "NAWS"})
  <2>1. Begun(q3, D2, IF "NAWS" \in my THEN M1 \cup {"NAWS"} ELSE M1)
    <3>1. "NAWS" \notin M1
      BY <1>4
    <3>2. QED
      BY Zenon, <1>2, <1>5, <3>1
  <2>2. \A b : b \in (IF "NAWS" \in my THEN M1 \cup {"NAWS"} ELSE M1)
                 <=> (b \in my /\ b \in {"TERMTYPE", "NAWS"})
    BY <1>4
  <2>3. QED
    BY Zenon, <2>1, <2>2
<1>7. PICK M4 : /\ Begun(q4, D2, M4)
                /\ \A b : b \in M4 <=> (b \in my /\ b \in {"TERMTYPE", "NAWS", "BINARY"})
  <2>1. Begun(q4, D2, IF "BINARY" \in my THEN M3 \cup {"BINARY"} ELSE M3)
    <3>1. "BINARY" \notin M3
      BY <1>6
    <3>2. QED
      BY Zenon, <1>2, <1>6, <3>1
  <2>2. \A b : b \in (IF "BINARY" \in my THEN M3 \cup {"BINARY"} ELSE M3)
                 <=> (b \in my /\ b \in {"TERMTYPE", "NAWS", "BINARY"})
    BY <1>6
  <2>3. QED
    BY Zenon, <2>1, <2>2
<1>8. PICK D5 : /\ Begun(q5, D5, M4)
                /\ \A b : b \in D5 <=> (b \in his /\ b \in {"ECHO", "BINARY"})
  <2>1. Begun(q5, IF "BINARY" \in his THEN D2 \cup {"BINARY"} ELSE D2, M4)
    <3>1. "BINARY" \notin D2
      BY <1>5
    <3>2. QED
      BY Zenon, <1>1, <1>7, <3>1
  <2>2. \A b : b \in (IF "BINARY" \in his THEN D2 \cup {"BINARY"} ELSE D2)
                 <=> (b \in his /\ b \in {"ECHO", "BINARY"})
    BY <1>5
  <2>3. QED
    BY Zenon, <2>1, <2>2
<1>9. PICK M6 : /\ Begun(q6, D5, M6)
                /\ \A b : b \in M6 <=> (b \in my /\ b \in {"TERMTYPE", "NAWS", "BINARY", "TERMSPEED"})
  <2>1. Begun(q6, D5, IF "TERMSPEED" \in my THEN M4 \cup {"TERMSPEED"} ELSE M4)
    <3>1. "TERMSPEED" \notin M4
      BY <1>7
    <3>2. QED
      BY Zenon, <1>2, <1>8, <3>1
  <2>2. \A b : b \in (IF "TERMSPEED" \in my THEN M4 \cup {"TERMSPEED"} ELSE M4)
                 <=> (b \in my /\ b \in {"TERMTYPE", "NAWS", "BINARY", "TERMSPEED"})
    BY <1>7
  <2>3. QED
    BY Zenon, <2>1, <2>2
<1>10. \A b : (b \in D5 <=> b \in his) /\ (b \in M6 <=> b \in my)
  BY <1>8, <1>9
<1>11. QED
  BY Zenon, <1>9, <1>10 DEF Will, Do

(* Of each option nothing is said yet, or Tera Term waits for an answer:   *)
(* one side as TelSendEnable leaves it, and the host before it has read.   *)
Opened(f, S) == f = [b \in MaxTelOpt |-> IF b \in S THEN Enabled(Off).opt ELSE Off]
AllOff(g) == g = [b \in Opts |-> "No"]
SpeltOf(q, s, D) == \A b \in Opts : Spelt(q, s.askYes, s.askNo, b, D)
SameSet(D, S) == \A b : b \in D <=> b \in S

LEMMA SpeltAll ==
    ASSUME NEW q, NEW s \in Sides, NEW S \in SUBSET MaxTelOpt, NEW D,
           SpeltOf(q, s, D), SameSet(D, S),
           NEW f, Opened(f, S),
           NEW g, AllOff(g)
    PROVE  All(q, << >>, s, f, g) /\ f \in [MaxTelOpt -> TelOpt]
<1>0. /\ f = [b \in MaxTelOpt |-> IF b \in S THEN Enabled(Off).opt ELSE Off]
      /\ g = [b \in Opts |-> "No"]
      /\ \A b \in Opts : Spelt(q, s.askYes, s.askNo, b, D)
      /\ \A b : b \in D <=> b \in S
  BY Zenon DEF Opened, AllOff, SpeltOf, SameSet
<1>1. /\ Enabled(Off).opt.Status = "WantYes" /\ Enabled(Off).opt.Que = "Empty" /\ Enabled(Off).opt \in TelOpt
      /\ Off.Status = "No" /\ Off.Que = "Empty" /\ Off \in TelOpt
  BY DEF Enabled, Off, To, TelOpt, Status
<1>2. f \in [MaxTelOpt -> TelOpt]
  BY <1>0, <1>1
<1>3. ASSUME NEW b \in Opts
      PROVE  Side(q, << >>, s, b, Kept(f, b), g[b]) /\ g[b] # "WantNo"
  <2>1. g[b] = "No"
    BY <1>0
  <2>2. Word(<< >>, << s.tellYes, b >>, << s.tellNo, b >>, "")
    BY Zenon, WordEmpty
  <2>3. Spelt(q, s.askYes, s.askNo, b, D)
    BY Zenon, <1>0
  <2>4. CASE b \in S
    <3>1. Kept(f, b) = Enabled(Off).opt
      BY <1>0, <2>4 DEF Kept
    <3>2. Word(q, << s.askYes, b >>, << s.askNo, b >>, "y")
      BY Zenon, <1>0, <2>3, <2>4 DEF Spelt
    <3>3. Corresponds("WantYes", "No", "y", "") /\ Settled(Enabled(Off).opt)
      BY <1>1 DEF Corresponds, Settled
    <3>4. QED
      BY Zenon, <1>1, <2>1, <2>2, <3>1, <3>2, <3>3 DEF Side
  <2>5. CASE b \notin S
    <3>1. Kept(f, b) = Off
      BY <1>0, <2>5 DEF Kept
    <3>2. Word(q, << s.askYes, b >>, << s.askNo, b >>, "")
      BY Zenon, <1>0, <2>3, <2>5 DEF Spelt
    <3>3. Corresponds("No", "No", "", "") /\ Settled(Off)
      BY <1>1 DEF Corresponds, Settled
    <3>4. QED
      BY Zenon, <1>1, <2>1, <2>2, <3>1, <3>2, <3>3 DEF Side
  <2>6. QED
    BY <2>1, <2>4, <2>5
<1>4. QED
  BY Zenon, <1>2, <1>3 DEF All

(* The connection as it is opened.                                         *)
LEMMA TelStarts ==
    ASSUME TelInit
    PROVE  TelInv
<1>1. /\ TelEcho \in BOOLEAN /\ LocalEcho \in {0, 1} /\ TelFlag \in BOOLEAN
      /\ began \in BOOLEAN /\ (began => TelFlag)
      /\ TelBinRecv = FALSE /\ TelMode = FALSE /\ IACFlag = FALSE /\ TelCRFlag = FALSE
      /\ TelStatus = "TelIdle" /\ SubOptBuff = << >> /\ SubOptIAC = FALSE
      /\ toTerm = << >> /\ wishes = 0 /\ toggles = 0
      /\ hostDoes = [b \in Opts |-> "No"] /\ hostSees = [b \in Opts |-> "No"]
  BY Zenon DEF TelInit, OnCommOpen
<1>2. /\ {"ECHO", "BINARY"} \subseteq MaxTelOpt /\ MaxTelOpt \subseteq Opts
      /\ SubOptMax \in Nat /\ HostWishes \in Nat /\ UserToggles \in Nat
  BY TelConstants
<1>3. /\ HisWords \in Sides /\ MyWords \in Sides
      /\ HisWords.askYes = "DO" /\ HisWords.askNo = "DONT"
      /\ MyWords.askYes = "WILL" /\ MyWords.askNo = "WONT"
  BY Sets
<1>4. PICK D, M, his, my :
        /\ his \in SUBSET MaxTelOpt /\ my \in SUBSET MaxTelOpt
        /\ Begun(toHost, D, M)
        /\ \A b : (b \in D <=> b \in his) /\ (b \in M <=> b \in my)
        /\ HisOpt = [b \in MaxTelOpt |-> IF b \in his THEN Enabled(Off).opt ELSE Off]
        /\ MyOpt = [b \in MaxTelOpt |-> IF b \in my THEN Enabled(Off).opt ELSE Off]
        /\ began /\ TelEcho => (LocalEcho = 0 <=> "ECHO" \in his)
  <2>1. CASE began
    <3>1. PICK binary \in BOOLEAN : Asks(binary)
      BY Zenon, <2>1 DEF TelInit, OnCommOpen
    <3> DEFINE echo == ~TelEcho \/ LocalEcho = 0
               his == (IF echo THEN {"ECHO"} ELSE {}) \cup (IF binary THEN {"BINARY"} ELSE {})
               my == ({"TERMTYPE", "NAWS", "TERMSPEED"} \cap MaxTelOpt)
                     \cup (IF binary THEN {"BINARY"} ELSE {})
               Will(b) == IF b \in my THEN << << "WILL", b >> >> ELSE << >>
               Do(b) == IF b \in his THEN << << "DO", b >> >> ELSE << >>
    <3>2. /\ HisOpt = [b \in MaxTelOpt |-> IF b \in his THEN Enabled(Off).opt ELSE Off]
          /\ MyOpt = [b \in MaxTelOpt |-> IF b \in my THEN Enabled(Off).opt ELSE Off]
          /\ toHost = Will("TERMTYPE") \o Do("ECHO") \o Will("NAWS") \o Will("BINARY")
                        \o Do("BINARY") \o Will("TERMSPEED")
      BY Zenon, <3>1 DEF Asks
    <3>3. /\ his \in SUBSET MaxTelOpt /\ my \in SUBSET MaxTelOpt
          /\ his \subseteq {"ECHO", "BINARY"}
          /\ my \subseteq {"TERMTYPE", "NAWS", "TERMSPEED", "BINARY"}
      BY <1>2
    <3>4. TelEcho => (LocalEcho = 0 <=> "ECHO" \in his)
      <4>1. "ECHO" \in his <=> echo
        BY DEF echo
      <4>2. QED
        BY Zenon, <4>1
    <3> HIDE DEF his, my
    <3>5. his \in SUBSET Opts /\ my \in SUBSET Opts
      BY <1>2, <3>3
    <3>6. \E D, M :
             /\ Begun(Will("TERMTYPE") \o Do("ECHO") \o Will("NAWS") \o Will("BINARY")
                        \o Do("BINARY") \o Will("TERMSPEED"), D, M)
             /\ \A b : (b \in D <=> b \in his) /\ (b \in M <=> b \in my)
      BY Zenon, <3>3, <3>5, AllAsked
    <3> HIDE DEF Will, Do
    <3>7. PICK D, M :
             /\ Begun(toHost, D, M)
             /\ \A b : (b \in D <=> b \in his) /\ (b \in M <=> b \in my)
      BY Zenon, <3>2, <3>6
    <3>8. QED
      BY Zenon, <3>2, <3>3, <3>4, <3>7
  <2>2. CASE ~began
    <3>1. PICK S : S = {}
      OBVIOUS
    <3>2. toHost = << >> /\ HisOpt = [b \in MaxTelOpt |-> Off] /\ MyOpt = [b \in MaxTelOpt |-> Off]
      BY Zenon, <2>2 DEF TelInit, OnCommOpen
    <3>3. [b \in MaxTelOpt |-> Off] = [b \in MaxTelOpt |-> IF b \in S THEN Enabled(Off).opt ELSE Off]
      BY <3>1
    <3>4. Begun(toHost, S, S)
      BY Zenon, <3>1, <3>2, BegunNothing
    <3>5. S \in SUBSET MaxTelOpt
      BY <3>1
    <3>6. HisOpt = [b \in MaxTelOpt |-> IF b \in S THEN Enabled(Off).opt ELSE Off]
      BY Zenon, <3>2, <3>3
    <3>7. MyOpt = [b \in MaxTelOpt |-> IF b \in S THEN Enabled(Off).opt ELSE Off]
      BY Zenon, <3>2, <3>3
    <3>8. QED
      BY Zenon, <2>2, <3>4, <3>5, <3>6, <3>7
  <2>3. QED
    BY Zenon, <1>1, <2>1, <2>2
<1>5. /\ toHost \in Seq(Sent)
      /\ \A b \in Opts : Spelt(toHost, HisWords.askYes, HisWords.askNo, b, D)
      /\ \A b \in Opts : Spelt(toHost, MyWords.askYes, MyWords.askNo, b, M)
  BY Zenon, <1>3, <1>4 DEF Begun
<1>6. All(toHost, << >>, HisWords, HisOpt, hostDoes) /\ HisOpt \in [MaxTelOpt -> TelOpt]
  <2>1. SameSet(D, his) /\ SpeltOf(toHost, HisWords, D)
    BY Zenon, <1>4, <1>5 DEF SameSet, SpeltOf
  <2>2. Opened(HisOpt, his) /\ AllOff(hostDoes)
    BY Zenon, <1>1, <1>4 DEF Opened, AllOff
  <2>3. his \in SUBSET MaxTelOpt /\ HisWords \in Sides
    BY Zenon, <1>3, <1>4
  <2>4. QED
    BY <2>1, <2>2, <2>3, SpeltAll
<1>7. All(toHost, << >>, MyWords, MyOpt, hostSees) /\ MyOpt \in [MaxTelOpt -> TelOpt]
  <2>1. SameSet(M, my) /\ SpeltOf(toHost, MyWords, M)
    BY Zenon, <1>4, <1>5 DEF SameSet, SpeltOf
  <2>2. Opened(MyOpt, my) /\ AllOff(hostSees)
    BY Zenon, <1>1, <1>4 DEF Opened, AllOff
  <2>3. my \in SUBSET MaxTelOpt /\ MyWords \in Sides
    BY Zenon, <1>3, <1>4
  <2>4. QED
    BY <2>1, <2>2, <2>3, SpeltAll
<1>8. Parsing
  <2>1. At("text")
    BY <1>1 DEF At, Holds, Verbs, SubPhases
  <2>2. Run(<< >>, toTerm) /\ First(<< >>) = "text"
    BY Zenon, <1>1, NothingRuns
  <2>3. PICK r : r = << >>
    OBVIOUS
  <2>4. /\ Run(r, toTerm) /\ At(First(r))
        /\ All(toHost, r, HisWords, HisOpt, hostDoes) /\ All(toHost, r, MyWords, MyOpt, hostSees)
    BY Zenon, <1>6, <1>7, <2>1, <2>2, <2>3
  <2>5. QED
    BY Zenon, <2>4 DEF Parsing
<1>9. EchoWanted
  <2>1. CASE "ECHO" \in his
    <3>1. HisOpt["ECHO"] = Enabled(Off).opt
      BY <1>2, <1>4, <2>1
    <3>2. Wanted(Enabled(Off).opt)
      BY DEF Enabled, Off, To, Wanted
    <3>3. QED
      BY Zenon, <1>4, <2>1, <3>1, <3>2 DEF EchoWanted
  <2>2. CASE "ECHO" \notin his
    <3>1. HisOpt["ECHO"] = Off
      BY <1>2, <1>4, <2>2
    <3>2. ~Wanted(Off)
      BY DEF Off, Wanted
    <3>3. QED
      BY Zenon, <1>4, <2>2, <3>1, <3>2 DEF EchoWanted
  <2>3. QED
    BY <2>1, <2>2
<1>10. TelTypeOK
  <2>1. hostDoes \in [Opts -> Status] /\ hostSees \in [Opts -> Status]
    BY <1>1 DEF Status
  <2>2. Len(SubOptBuff) <= SubOptMax
    <3>1. Len(<< >>) = 0
      OBVIOUS
    <3>2. QED
      BY <1>1, <1>2, <3>1
  <2>3. wishes \in 0 .. HostWishes /\ toggles \in 0 .. UserToggles
    BY <1>1, <1>2
  <2>4. QED
    BY <1>1, <1>6, <1>7, <2>1, <2>2, <2>3 DEF TelTypeOK
<1>11. QED
  BY Zenon, <1>1, <1>5, <1>8, <1>9, <1>10 DEF TelInv
-----------------------------------------------------------------------------
(* When nothing is on its way, every side of every option is on for both   *)
(* ends or off for both.                                                   *)
LEMMA QuietAgreed ==
    ASSUME NEW s, NEW f, NEW g, All(<< >>, << >>, s, f, g), NEW b \in Opts
    PROVE  /\ Kept(f, b).Status = g[b] /\ Kept(f, b).Status \in {"No", "Yes"}
           /\ Kept(f, b).Que # "Opposite"
<1>1. Side(<< >>, << >>, s, b, Kept(f, b), g[b])
  BY Zenon DEF All
<1>2. PICK out, in :
        /\ Word(<< >>, << s.askYes, b >>, << s.askNo, b >>, out)
        /\ Word(<< >>, << s.tellYes, b >>, << s.tellNo, b >>, in)
        /\ Corresponds(Kept(f, b).Status, g[b], out, in)
        /\ Settled(Kept(f, b))
  BY Zenon, <1>1 DEF Side
<1>3. out = "" /\ in = ""
  BY Zenon, <1>2, WordEmpty
<1>4. Corresponds(Kept(f, b).Status, g[b], "", "")
  BY Zenon, <1>2, <1>3
<1> DEFINE o == Kept(f, b)
           state == g[b]
<1>5. Corresponds(o.Status, state, "", "") /\ Settled(o)
  BY Zenon, <1>2, <1>4
<1> HIDE DEF o, state
<1>6. o.Status = state /\ o.Status \in {"No", "Yes"} /\ o.Que # "Opposite"
  BY <1>5 DEF Corresponds, Settled
<1>7. QED
  BY Zenon, <1>6 DEF o, state

LEMMA QuietParts ==
    ASSUME TelInv, Quiet
    PROVE  /\ All(<< >>, << >>, HisWords, HisOpt, hostDoes)
           /\ All(<< >>, << >>, MyWords, MyOpt, hostSees)
<1>1. PICK r : /\ Run(r, toTerm)
               /\ All(toHost, r, HisWords, HisOpt, hostDoes)
               /\ All(toHost, r, MyWords, MyOpt, hostSees)
  BY Zenon DEF TelInv, Parsing
<1>2. toHost = << >> /\ toTerm = << >>
  BY Zenon DEF Quiet
<1>3. r = << >>
  BY <1>1, <1>2 DEF Run
<1>4. QED
  BY Zenon, <1>1, <1>2, <1>3

LEMMA TelInvAgreement ==
    ASSUME TelInv
    PROVE  Agreement
<1> SUFFICES ASSUME Quiet
             PROVE  /\ \A b \in MaxTelOpt : Agreed(HisOpt[b], hostDoes[b]) /\ Agreed(MyOpt[b], hostSees[b])
                    /\ \A b \in Opts \ MaxTelOpt : hostDoes[b] = "No" /\ hostSees[b] = "No"
  BY Zenon DEF Agreement
<1>1. HisOpt \in [MaxTelOpt -> TelOpt] /\ MyOpt \in [MaxTelOpt -> TelOpt] /\ MaxTelOpt \subseteq Opts
  BY TelConstants DEF TelInv, TelTypeOK
<1>2. ASSUME NEW s, NEW f \in [MaxTelOpt -> TelOpt], NEW g, All(<< >>, << >>, s, f, g)
      PROVE  /\ \A b \in MaxTelOpt : Agreed(f[b], g[b])
             /\ \A b \in Opts \ MaxTelOpt : g[b] = "No"
  <2>1. ASSUME NEW b \in MaxTelOpt
        PROVE  Agreed(f[b], g[b])
    <3>1. b \in Opts /\ f[b] \in TelOpt
      BY <1>1
    <3>2. Kept(f, b) = f[b]
      BY DEF Kept
    <3>3. f[b].Status = g[b] /\ f[b].Status \in {"No", "Yes"} /\ f[b].Que # "Opposite"
      <4>1. /\ Kept(f, b).Status = g[b] /\ Kept(f, b).Status \in {"No", "Yes"}
            /\ Kept(f, b).Que # "Opposite"
        <5>1. All(<< >>, << >>, s, f, g)
          BY Zenon, <1>2
        <5>2. b \in Opts
          BY Zenon, <3>1
        <5>3. QED
          BY <5>1, <5>2, QuietAgreed
      <4>2. QED
        BY Zenon, <3>2, <4>1
    <3>4. f[b].Que \in {"Empty", "Opposite"}
      BY <3>1 DEF TelOpt
    <3>5. QED
      BY <3>3, <3>4 DEF Agreed
  <2>2. ASSUME NEW b \in Opts \ MaxTelOpt
        PROVE  g[b] = "No"
    <3>1. Kept(f, b) = Off /\ b \in Opts
      BY DEF Kept
    <3>2. Off.Status = g[b]
      <4>1. Kept(f, b).Status = g[b]
        <5>1. All(<< >>, << >>, s, f, g)
          BY Zenon, <1>2
        <5>2. b \in Opts
          BY Zenon, <3>1
        <5>3. QED
          BY <5>1, <5>2, QuietAgreed
      <4>2. QED
        BY Zenon, <3>1, <4>1
    <3>3. QED
      BY <3>2 DEF Off
  <2>3. QED
    BY Zenon, <2>1, <2>2
<1>3. QED
  BY Zenon, <1>1, <1>2, QuietParts

LEMMA TelInvEcho ==
    ASSUME TelInv
    PROVE  EchoOnce
<1> SUFFICES ASSUME Quiet, began, TelEcho
             PROVE  LocalEcho = 0 <=> HisOpt["ECHO"].Status = "Yes"
  BY Zenon DEF EchoOnce
<1>1. LocalEcho = 0 <=> Wanted(HisOpt["ECHO"])
  BY Zenon DEF TelInv, EchoWanted
<1>2. Agreed(HisOpt["ECHO"], hostDoes["ECHO"])
  <2>1. "ECHO" \in MaxTelOpt
    BY TelConstants
  <2>2. Agreement
    BY Zenon, TelInvAgreement
  <2>3. QED
    BY Zenon, <2>1, <2>2 DEF Agreement
<1>3. QED
  BY <1>1, <1>2 DEF Agreed, Wanted

(* Every step keeps the invariant.                                         *)
LEMMA TelSteps == TelInv /\ [TelNext]_telVars => TelInv'
<1> SUFFICES ASSUME TelInv, [TelNext]_telVars
             PROVE  TelInv'
  OBVIOUS
<1>1. CASE ParseTel
  BY <1>1, ParseKeeps
<1>2. CASE CommRead1Byte
  BY <1>2, CommKeeps
<1>3. CASE IdCmdLocalEcho
  BY <1>3, SwitchKeeps
<1>4. CASE HostReads
  BY <1>4, ReadsKeeps
<1>5. CASE HostWants
  BY <1>5, WantsKeeps
<1>6. CASE HostSpeaks
  BY <1>6, SpeaksKeeps
<1>7. CASE UNCHANGED telVars
  <2>1. UNCHANGED << HisOpt, MyOpt, LocalEcho, TelEcho, began, TelFlag, TelBinRecv,
                     TelMode, IACFlag, TelCRFlag, TelStatus, SubOptBuff, SubOptIAC,
                     toTerm, toHost, hostDoes, hostSees, wishes, toggles >>
    BY Zenon, <1>7 DEF telVars
  <2>2. PICK r : /\ Run(r, toTerm) /\ At(First(r))
                 /\ All(toHost, r, HisWords, HisOpt, hostDoes)
                 /\ All(toHost, r, MyWords, MyOpt, hostSees)
    BY Zenon DEF TelInv, Parsing
  <2>3. At(First(r))'
    <3>1. UNCHANGED << parser, toTerm >>
      BY Zenon, <2>1 DEF parser
    <3>2. QED
      BY Zenon, <2>2, <3>1, AtStays
  <2>4. Parsing'
    BY Zenon, <2>1, <2>2, <2>3 DEF Parsing
  <2>5. TelTypeOK'
    BY <2>1 DEF TelInv, TelTypeOK
  <2>6. EchoWanted' /\ (began => TelFlag)' /\ toHost' \in Seq(Sent)
    <3>1. EchoWanted /\ (began => TelFlag) /\ toHost \in Seq(Sent)
      BY Zenon DEF TelInv
    <3>2. EchoWanted'
      BY Zenon, <2>1, <3>1 DEF EchoWanted
    <3>3. QED
      BY <2>1, <3>1, <3>2
  <2>7. QED
    BY Zenon, <2>4, <2>5, <2>6 DEF TelInv
<1>8. QED
  BY Zenon, <1>1, <1>2, <1>3, <1>4, <1>5, <1>6, <1>7 DEF TelNext, OnIdle

LEMMA TelAlways == TelSpec => []TelInv
<1>1. TelInit => TelInv
  BY TelStarts
<1>2. QED
  BY <1>1, TelSteps, PTL DEF TelSpec

(* The options, the state of the parser and what it collects are of their  *)
(* types.  SubOptBuff stays within its array for a host that sends window  *)
(* sizes and questions for the terminal, however the bytes are cut:        *)
(* ParseTelSB finds its end of each, also behind an IAC that is doubled.   *)
THEOREM TelTypeCorrect == TelSpec => []TelTypeOK
<1>1. TelInv => TelTypeOK
  BY Zenon DEF TelInv
<1>2. QED
  BY <1>1, TelAlways, PTL

(* Once nothing is on its way, Tera Term (ParseTelWill .. ParseTelDont,    *)
(* TelChangeEcho) and the host agree on every option, however their        *)
(* requests crossed, and no wish is left over in Que.                      *)
THEOREM EndsAgree == TelSpec => []Agreement
<1>1. TelInv => Agreement
  BY TelInvAgreement
<1>2. QED
  BY <1>1, TelAlways, PTL

(* And then what is typed is echoed by one end, and by one only: local     *)
(* echo is off exactly if the host echoes.                                 *)
THEOREM EchoIsOnce == TelSpec => []EchoOnce
<1>1. TelInv => EchoOnce
  BY TelInvEcho
<1>2. QED
  BY <1>1, TelAlways, PTL
=============================================================================
