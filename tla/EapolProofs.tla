----------------------------- MODULE EapolProofs -----------------------------
(***************************************************************************)
(* Whoever passes SAE shares its master key with the access point, and     *)
(* whoever completes the handshake its session keys, for any number of     *)
(* connections, repeats and losses; and what is typed at the console       *)
(* reaches it, for any ring, fifo and keys.                                *)
(***************************************************************************)
EXTENDS Eapol, Uart, SequenceTheorems, WellFoundedInduction, TLAPS

(***************************************************************************)
(* Types.                                                                  *)
(***************************************************************************)
Pmk == Int \X Int
Ptk == Pmk \X Int \X Int
ApFrames ==
  [type : {"auth"}, seq : {1}, status : {"h2e"}, body : [commit : Nat, token : {"misplaced", "none"}]]
  \cup [type : {"auth"}, seq : {2}, status : {"success"}, body : Pmk]
  \cup [type : {"m2"}, snonce : Int, replay : Int, mic : Ptk]
  \cup [type : {"m4"}, replay : Int, mic : Ptk]
StaFrames ==
  [type : {"auth"}, seq : {1}, status : {"token", "h2e"}, body : Int]
  \cup [type : {"auth"}, seq : {2}, status : {"success"}, body : Pmk]
  \cup [type : {"m1"}, anonce : Int, replay : Int]
  \cup [type : {"m3"}, anonce : Int, replay : Int, mic : Ptk, data : KeyData]
Groups == [id : Nat, gtk : Seq(Nat), igtk : Seq(Nat)]
Givens == SUBSET (Pmk \X Seq(Nat))

Stas == [at : {"failed", "commit", "committed", "confirm", "confirmed", "handshake", "up"},
         tries : Int, token : BOOLEAN, session : Nat]
Sessions == [own : Nat, theirs : Int, pmk : Pmk \cup {None}]
Supps == [ptk : Ptk \cup {None}, anonce : Int, snonce : Int, replay : Int, group : Groups, complete : BOOLEAN]
Peers == [busy : BOOLEAN, theirs : Int, own : Int, pmk : Pmk \cup {None}, confirmed : BOOLEAN,
          stage : {"idle", "m1", "m3"}, anonce : Int, replay : Int, from : Int,
          ptk : Ptk \cup {None}, resends : Int, given : Givens]
Skies == [sta : Seq(StaFrames), ap : Seq(ApFrames)]

TypeOK ==
  /\ sta \in Stas /\ sess \in Sessions /\ sess.own = sta.session
  /\ supp \in Supps /\ peer \in Peers /\ sky \in Skies

(***************************************************************************)
(* The inductive invariant.                                                *)
(***************************************************************************)
Secured   == sta.at \in {"handshake", "up"}
IsCommit(f)  == f.type = "auth" /\ f.seq = 1
IsConfirm(f) == f.type = "auth" /\ f.seq = 2
Keyed(f)     == f.type \in {"m2", "m3", "m4"}
\* Made in the present session of the station.
OwnConfirm(f) == IsConfirm(f) /\ f.body[1] = sess.own
OwnKey(k)     == k[1][1] = sess.own
OwnM2(f)      == f.type = "m2" /\ OwnKey(f.mic)
OwnKeyed(f)   == Keyed(f) /\ OwnKey(f.mic)

\* Before the session's confirm goes out, and before its handshake.
Early   == sta.at \in {"commit", "committed", "confirm"}
Unkeyed == sta.at \in {"commit", "committed", "confirm", "confirmed"}

\* Nothing on its way is of a later session, nor of this one before its confirm or its keys.
Past(f) ==
  /\ IsConfirm(f) => f.body[1] <= sess.own /\ (Early => f.body[1] # sess.own)
  /\ Keyed(f) => f.mic[1][1] <= sess.own /\ (Unkeyed => ~OwnKey(f.mic))
Pasts ==
  /\ \A i \in 1 .. Len(sky.ap) : Past(sky.ap[i])
  /\ \A i \in 1 .. Len(sky.sta) : Past(sky.sta[i])
  /\ peer.ptk # None => peer.ptk[1][1] <= sess.own /\ (Unkeyed => ~OwnKey(peer.ptk))

NoCommits == \A i \in 1 .. Len(sky.ap) : ~IsCommit(sky.ap[i])
NoOwnM2   == \A i \in 1 .. Len(sky.ap) : ~OwnM2(sky.ap[i])

\* SAE: the station commits no more once it confirms, and the access point has heard all it sent
\* before when it confirms in turn.
Mine      == sta.at \in {"confirm", "confirmed", "handshake", "up"} => sess.pmk # None /\ sess.pmk[1] = sess.own
LastCommit == \A i, j \in 1 .. Len(sky.ap) : i < j /\ OwnConfirm(sky.ap[i]) => ~IsCommit(sky.ap[j])
Confirmation == \A i \in 1 .. Len(sky.sta) :
                OwnConfirm(sky.sta[i]) => peer.confirmed /\ peer.pmk = sky.sta[i].body /\ NoCommits
Shared    == Secured => peer.confirmed /\ peer.pmk = sess.pmk /\ NoCommits
Sae       == Mine /\ LastCommit /\ Confirmation /\ Shared

\* The handshake: a message 2 for the station's latest nonce is its last, so that the access point
\* which took it, and any message 3 made for it, has the key the station has.
Nonces  == \A i \in 1 .. Len(sky.ap) : sky.ap[i].type = "m2" => sky.ap[i].mic[3] = sky.ap[i].snonce
Offered == peer.stage = "m3" => peer.ptk # None /\ peer.ptk[1] = peer.pmk

\* No nonce but the station's latest is later.
Bounded ==
  /\ supp.ptk # None => supp.ptk[1] = sess.pmk /\ supp.ptk[3] = supp.snonce
  /\ \A i \in 1 .. Len(sky.ap) : OwnKeyed(sky.ap[i]) => sky.ap[i].mic[3] <= supp.snonce
  /\ \A i \in 1 .. Len(sky.sta) : OwnKeyed(sky.sta[i]) => sky.sta[i].mic[3] <= supp.snonce
  /\ peer.ptk # None /\ OwnKey(peer.ptk) => peer.ptk[3] <= supp.snonce
Latest ==
  /\ \A i, j \in 1 .. Len(sky.ap) :
       i < j /\ OwnM2(sky.ap[i]) /\ sky.ap[i].mic[3] = supp.snonce => ~OwnM2(sky.ap[j])
  /\ peer.ptk # None /\ OwnKey(peer.ptk) /\ peer.ptk[3] = supp.snonce => NoOwnM2
  /\ \A i \in 1 .. Len(sky.sta) :
       OwnKeyed(sky.sta[i]) /\ sky.sta[i].mic[3] = supp.snonce => peer.ptk = sky.sta[i].mic
\* The access point does not start over while the station has yet to complete.
Awaited ==
  sta.at = "handshake" =>
    /\ \A i \in 1 .. Len(sky.sta) : OwnKeyed(sky.sta[i]) => peer.stage = "m3"
    /\ \A i \in 1 .. Len(sky.ap) : ~(sky.ap[i].type = "m4" /\ OwnKey(sky.ap[i].mic))
Installed == sta.at = "up" => supp.ptk # None /\ supp.group.gtk # None /\ supp.ptk = peer.ptk
Handshake == Nonces /\ Offered /\ (Secured => Bounded /\ Latest /\ Awaited) /\ Installed

\* The access point gave the group keys of every message 3 under the master key that message is
\* authentic under, and so all that the station has kept of them.
Gave(given, f) == f.type = "m3" => \A k \in Gtks(f.data) : <<f.mic[1], k>> \in given
Given ==
  /\ \A i \in 1 .. Len(sky.sta) : Gave(peer.given, sky.sta[i])
  /\ Secured /\ supp.group.gtk # None => <<sess.pmk, supp.group.gtk>> \in peer.given

Agreed == TypeOK /\ Pasts /\ Sae /\ Handshake /\ Given
-----------------------------------------------------------------------------
(***************************************************************************)
(* Key data.                                                               *)
(***************************************************************************)
\* Some number of a nonempty set of numbers is the least.
LEMMA LeastNat ==
  ASSUME NEW T \in SUBSET Nat, T # {}
  PROVE  \E x \in T : \A y \in T : x <= y
<1> DEFINE R == OpToRel(<, Nat)
<1>1. IsWellFoundedOn(R, Nat)
  BY NatLessThanWellFounded
<1>2. \A x, y \in Nat : y < x => <<y, x>> \in R
  BY DEF OpToRel
<1> HIDE DEF R
<1>3. PICK x \in T : \A y \in T : ~ (<<y, x>> \in R)
  BY <1>1, WFMin
<1>4. \A y \in T : x <= y
  <2> TAKE y \in T
  <2>1. x \in Nat /\ y \in Nat /\ ~ (<<y, x>> \in R)
    BY <1>3
  <2>2. ~(y < x)
    BY <1>2, <2>1
  <2> QED
    BY <2>1, <2>2
<1> QED
  BY <1>4

\* And some number of a bounded one the greatest.
LEMMA GreatestIn ==
  ASSUME NEW n \in Nat, NEW T \in SUBSET (1 .. n), T # {}
  PROVE  Max(T) \in T
<1> DEFINE U == {n - t : t \in T}
<1>1. U \in SUBSET Nat /\ U # {}
  OBVIOUS
<1>2. PICK u \in U : \A v \in U : u <= v
  BY <1>1, LeastNat
<1>3. PICK t \in T : u = n - t
  BY <1>2
<1>4. \A v \in T : t >= v
  <2> TAKE v \in T
  <2>1. n - v \in U /\ v \in Int /\ t \in Int
    OBVIOUS
  <2>2. n - t <= n - v
    BY <1>2, <1>3, <2>1
  <2> QED
    BY <2>1, <2>2
<1>5. \E x \in T : \A y \in T : x >= y
  BY <1>3, <1>4
<1> HIDE DEF U
<1> QED
  BY <1>5 DEF Max

\* The elements the walk comes to are among those of the key data.
LEMMA WalkedIn ==
  ASSUME NEW kd \in Seq(Elements), NEW kinds, Walked(kd, kinds) # {}
  PROVE  /\ Max(Walked(kd, kinds)) \in DOMAIN kd
         /\ kd[Max(Walked(kd, kinds))].kind \in kinds
         /\ kd[Max(Walked(kd, kinds))] \in Elements
<1> DEFINE w == Walked(kd, kinds)
<1>1. Len(kd) \in Nat /\ DOMAIN kd = 1 .. Len(kd) /\ w \in SUBSET (1 .. Len(kd))
  BY DEF Walked
<1>2. Max(w) \in w
  BY <1>1, GreatestIn
<1>3. \A i \in w : i \in DOMAIN kd /\ kd[i].kind \in kinds
  BY DEF Walked
<1>4. \A i \in DOMAIN kd : kd[i] \in Elements
  OBVIOUS
<1> HIDE DEF w
<1> QED
  BY <1>2, <1>3, <1>4 DEF w

\* What the walk writes is group keys again, and their GTK is the one there was or one it read.
LEMMA ParsedIs ==
  ASSUME NEW kd \in Seq(Elements), NEW group \in Groups
  PROVE  /\ ParseKeyData(kd, group) \in Groups
         /\ ParseKeyData(kd, group).gtk = group.gtk \/ ParseKeyData(kd, group).gtk \in Gtks(kd)
<1> DEFINE ids   == Walked(kd, {"gtk", "long"})
           gtks  == Walked(kd, {"gtk"})
           igtks == Walked(kd, {"igtk"})
           i == IF ids = {} THEN group.id ELSE kd[Max(ids)].id
           g == IF gtks = {} THEN group.gtk ELSE kd[Max(gtks)].key
           h == IF igtks = {} THEN group.igtk ELSE kd[Max(igtks)].key
<1>1. ids # {} => kd[Max(ids)] \in Elements
  BY WalkedIn
<1>2. gtks # {} => Max(gtks) \in DOMAIN kd /\ kd[Max(gtks)].kind = "gtk" /\ kd[Max(gtks)] \in Elements
  BY WalkedIn
<1>3. igtks # {} => kd[Max(igtks)] \in Elements
  BY WalkedIn
<1>4. ParseKeyData(kd, group) = [id |-> i, gtk |-> g, igtk |-> h]
  BY DEF ParseKeyData
<1> HIDE DEF ids, gtks, igtks
<1>5. i \in Nat /\ g \in Seq(Nat) /\ h \in Seq(Nat)
  BY <1>1, <1>2, <1>3 DEF Elements, Groups
<1>6. g = group.gtk \/ g \in Gtks(kd)
  BY <1>2 DEF Gtks
<1> HIDE DEF i, g, h
<1> QED
  BY <1>4, <1>5, <1>6 DEF Groups

\* The parts of a session key.
LEMMA PtkIs ==
  ASSUME NEW k \in Ptk
  PROVE  k # None /\ k[1] \in Pmk /\ k[1][1] \in Int /\ k[3] \in Int
BY DEF Pmk, Ptk, None

\* What giving key data changes of the access point.
LEMMA GivingIs ==
  ASSUME EapolSizes, NEW p \in Peers, p.ptk \in Ptk, NEW kd \in KeyData
  PROVE  /\ Giving(p, kd) \in Peers
         /\ Giving(p, kd).stage = p.stage /\ Giving(p, kd).ptk = p.ptk /\ Giving(p, kd).pmk = p.pmk
         /\ Giving(p, kd).confirmed = p.confirmed
         /\ p.given \subseteq Giving(p, kd).given
         /\ \A k \in Gtks(kd) : <<p.ptk[1], k>> \in Giving(p, kd).given
<1> DEFINE new == p.given \cup ({p.ptk[1]} \X Gtks(kd))
<1>1. kd \in Seq(Elements)
  BY DEF EapolSizes
<1>2. Gtks(kd) \subseteq Seq(Nat)
  <2>1. \A i \in DOMAIN kd : kd[i] \in Elements
    BY <1>1
  <2> QED
    BY <2>1 DEF Gtks, Elements
<1>3. p.ptk[1] \in Pmk
  BY PtkIs
<1>4. new \in Givens /\ p.given \subseteq new /\ \A k \in Gtks(kd) : <<p.ptk[1], k>> \in new
  BY <1>2, <1>3 DEF Peers, Givens
<1>5. Giving(p, kd) = [p EXCEPT !.given = new]
  BY DEF Giving
<1> HIDE DEF new
<1> QED
  BY <1>4, <1>5 DEF Peers

-----------------------------------------------------------------------------
(***************************************************************************)
(* Frames on their way.                                                    *)
(***************************************************************************)
Dropped(s, t)  == Len(s) \in Nat \ {0} /\ Len(t) = Len(s) - 1 /\ \A i \in 1 .. Len(t) : t[i] = s[i + 1]
Added(s, t, f) == Len(s) \in Nat /\ Len(t) = Len(s) + 1 /\ t[Len(t)] = f /\ \A i \in 1 .. Len(s) : t[i] = s[i]

LEMMA TailDrops ==
  ASSUME NEW S, NEW s \in Seq(S), s # <<>>
  PROVE  Tail(s) \in Seq(S) /\ Dropped(s, Tail(s)) /\ Head(s) = s[1] /\ Head(s) \in S
<1>1. Len(s) \in Nat /\ Len(s) # 0
  OBVIOUS
<1>2. Tail(s) \in Seq(S) /\ Len(Tail(s)) = Len(s) - 1
  OBVIOUS
<1>3. \A i \in 1 .. Len(s) - 1 : Tail(s)[i] = s[i + 1]
  OBVIOUS
<1>4. Head(s) = s[1] /\ 1 \in 1 .. Len(s)
  BY <1>1
<1>5. s[1] \in S
  BY <1>4
<1> QED
  BY <1>1, <1>2, <1>3, <1>4, <1>5 DEF Dropped

LEMMA AppendAdds ==
  ASSUME NEW S, NEW s \in Seq(S), NEW f \in S
  PROVE  Append(s, f) \in Seq(S) /\ Added(s, Append(s, f), f)
BY DEF Added

\* What a frame of each direction carries.
LEMMA StaFrameIs ==
  ASSUME NEW f \in StaFrames
  PROVE  /\ IsConfirm(f) => f.body \in Pmk
         /\ Keyed(f) => f.type = "m3" /\ f.mic \in Ptk /\ f.data \in KeyData
         /\ f.type = "m1" \/ f.type = "m3" => f.anonce \in Int /\ f.replay \in Int
         /\ f.type = "auth" /\ f.seq = 1 => f.body \in Int
         /\ f.type = "auth" => f.seq \in {1, 2}
<1>1. CASE f \in [type : {"auth"}, seq : {1}, status : {"token", "h2e"}, body : Int]
  BY <1>1 DEF IsConfirm, Keyed
<1>2. CASE f \in [type : {"auth"}, seq : {2}, status : {"success"}, body : Pmk]
  BY <1>2 DEF IsConfirm, Keyed
<1>3. CASE f \in [type : {"m1"}, anonce : Int, replay : Int]
  BY <1>3 DEF IsConfirm, Keyed
<1>4. CASE f \in [type : {"m3"}, anonce : Int, replay : Int, mic : Ptk, data : KeyData]
  BY <1>4 DEF IsConfirm, Keyed
<1> QED
  BY <1>1, <1>2, <1>3, <1>4 DEF StaFrames

LEMMA ApFrameIs ==
  ASSUME NEW f \in ApFrames
  PROVE  /\ IsConfirm(f) => f.body \in Pmk
         /\ Keyed(f) => f.mic \in Ptk
         /\ f.type = "m2" => f.snonce \in Int /\ f.replay \in Int
         /\ IsCommit(f) => f.body.commit \in Nat
         /\ f.type = "auth" => f.seq \in {1, 2}
<1>1. CASE f \in [type : {"auth"}, seq : {1}, status : {"h2e"}, body : [commit : Nat, token : {"misplaced", "none"}]]
  BY <1>1 DEF IsConfirm, Keyed, IsCommit
<1>2. CASE f \in [type : {"auth"}, seq : {2}, status : {"success"}, body : Pmk]
  BY <1>2 DEF IsConfirm, Keyed, IsCommit
<1>3. CASE f \in [type : {"m2"}, snonce : Int, replay : Int, mic : Ptk]
  BY <1>3 DEF IsConfirm, Keyed, IsCommit
<1>4. CASE f \in [type : {"m4"}, replay : Int, mic : Ptk]
  BY <1>4 DEF IsConfirm, Keyed, IsCommit
<1> QED
  BY <1>1, <1>2, <1>3, <1>4 DEF ApFrames

\* The frames the two send.
LEMMA Commits ==
  ASSUME TypeOK, NEW token \in BOOLEAN
  PROVE  Auth(1, "h2e", WriteCommit(token)) \in ApFrames
<1>1. sess.own \in Nat
  BY DEF TypeOK, Sessions
<1> QED
  BY <1>1 DEF Auth, WriteCommit, ApFrames

LEMMA Confirms ==
  ASSUME NEW k \in Pmk
  PROVE  Auth(2, "success", k) \in ApFrames /\ Auth(2, "success", k) \in StaFrames
BY DEF Auth, ApFrames, StaFrames

LEMMA Answers ==
  ASSUME NEW status \in {"token", "h2e"}, NEW c \in Int
  PROVE  Auth(1, status, c) \in StaFrames
BY DEF Auth, StaFrames

LEMMA Messages ==
  ASSUME NEW a \in Int, NEW r \in Int, NEW k \in Ptk
  PROVE  /\ M1(a, r) \in StaFrames /\ M2(a, r, k) \in ApFrames /\ M4(r, k) \in ApFrames
         /\ \A kd \in KeyData : M3(a, r, k, kd) \in StaFrames
BY DEF M1, M2, M3, M4, StaFrames, ApFrames

LEMMA SkyIs ==
  ASSUME NEW s \in Skies, NEW t \in Seq(StaFrames), NEW a \in Seq(ApFrames)
  PROVE  /\ s.sta \in Seq(StaFrames) /\ s.ap \in Seq(ApFrames)
         /\ [s EXCEPT !.sta = t] = [sta |-> t, ap |-> s.ap]
         /\ [s EXCEPT !.ap = a] = [sta |-> s.sta, ap |-> a]
         /\ [sta |-> t, ap |-> a] \in Skies
BY DEF Skies

LEMMA KeyParts ==
  ASSUME NEW k \in Pmk, NEW a \in Int, NEW n \in Int
  PROVE  /\ k # None /\ k[1] \in Int /\ k[2] \in Int
         /\ <<k, a, n>> \in Ptk /\ <<k, a, n>> # None /\ <<k, a, n>>[1] = k /\ <<k, a, n>>[3] = n
BY DEF Pmk, Ptk, None
-----------------------------------------------------------------------------
(***************************************************************************)
(* Types.                                                                  *)
(***************************************************************************)
LEMMA TypeInit ==
  ASSUME EapolSizes, Init
  PROVE  TypeOK
<1>1. sta \in Stas /\ sess \in Sessions /\ sess.own = sta.session
  BY DEF Init, Stas, Sessions, NoKeys, None
<1>2. supp \in Supps /\ peer \in Peers
  BY DEF EapolSizes, Init, Supps, Peers, NewSupp, NoGroup, Groups, Givens, None
<1>3. sky \in Skies
  BY DEF Init, Skies
<1> QED
  BY <1>1, <1>2, <1>3 DEF TypeOK


(***************************************************************************)
(* What each step does.                                                    *)
(***************************************************************************)
LEMMA ConnectDoes ==
  ASSUME EapolSizes, TypeOK, Connect
  PROVE  /\ TypeOK' /\ sess'.own = sess.own + 1 /\ sta'.at = "commit"
         /\ sky' = sky /\ peer' = peer
<1>1. sess.own = sta.session /\ sta.session \in Nat /\ AuthTries \in Nat
  BY DEF TypeOK, Stas, EapolSizes
<1>2. sta' \in Stas /\ sta'.at = "commit" /\ sta'.session = sta.session + 1
  BY <1>1 DEF Connect, StartSession, Stas
<1>3. sess' \in Sessions /\ sess'.own = sta.session + 1
  BY <1>1 DEF Connect, StartSession, NoKeys, Sessions, None
<1>4. supp' \in Supps
  BY DEF Connect, NewSupp, NoGroup, Supps, Groups, None
<1>5. sky' = sky /\ peer' = peer
  BY DEF Connect
<1> QED
  BY <1>1, <1>2, <1>3, <1>4, <1>5 DEF TypeOK

LEMMA SendCommitDoes ==
  ASSUME TypeOK, SendCommit
  PROVE  /\ TypeOK' /\ UNCHANGED <<sess, supp, peer>> /\ sta.at = "commit" /\ sky'.sta = sky.sta
         /\ \/ sta'.at = "failed" /\ sky' = sky
            \/ sta'.at = "committed" /\ \E f : IsCommit(f) /\ Added(sky.ap, sky'.ap, f)
<1> DEFINE f == Auth(1, "h2e", WriteCommit(sta.token))
<1>1. f \in ApFrames
  BY Commits DEF TypeOK, Stas
<1>2. IsCommit(f)
  BY DEF IsCommit, Auth
<1>3. UNCHANGED <<sess, supp, peer>> /\ sta.at = "commit"
  BY DEF SendCommit
<1>4. CASE sta.tries = 0
  <2>1. sta' = [sta EXCEPT !.at = "failed"] /\ sky' = sky
    BY <1>4 DEF SendCommit, Fail
  <2>2. sta' \in Stas /\ sta'.at = "failed" /\ sta'.session = sta.session
    BY <2>1 DEF TypeOK, Stas
  <2> QED
    BY <1>3, <2>1, <2>2 DEF TypeOK
<1>5. CASE sta.tries # 0
  <2>1. sta' = [sta EXCEPT !.at = "committed", !.tries = sta.tries - 1]
        /\ sky' = [sky EXCEPT !.ap = Append(sky.ap, f)]
    BY <1>5 DEF SendCommit, ToAp
  <2> HIDE DEF f
  <2> DEFINE n == sta.tries - 1
             q == Append(sky.ap, f)
  <2>2. n \in Int /\ sta \in Stas /\ sky \in Skies
    BY DEF TypeOK, Stas
  <2>3. sky.sta \in Seq(StaFrames) /\ sky.ap \in Seq(ApFrames) /\ q \in Seq(ApFrames)
        /\ Added(sky.ap, q, f)
    BY <1>1, AppendAdds DEF TypeOK, Skies
  <2>4. sta' = [sta EXCEPT !.at = "committed", !.tries = n] /\ sky' = [sky EXCEPT !.ap = q]
    BY <2>1
  <2> HIDE DEF n, q
  <2>5. sta' \in Stas /\ sta'.at = "committed" /\ sta'.session = sta.session
    BY <2>2, <2>4 DEF Stas
  <2>6. sky' = [sta |-> sky.sta, ap |-> q] /\ [sta |-> sky.sta, ap |-> q] \in Skies
    BY <2>2, <2>3, <2>4, SkyIs
  <2> QED
    BY <1>2, <1>3, <2>3, <2>5, <2>6 DEF TypeOK
<1> QED
  BY <1>4, <1>5

\* The station takes the first frame that is on its way to it.
LEMMA Takes ==
  ASSUME sky \in Skies, sky.sta # <<>>, Taken
  PROVE  sky' \in Skies /\ sky'.ap = sky.ap /\ Dropped(sky.sta, sky'.sta)
         /\ Head(sky.sta) = sky.sta[1] /\ Head(sky.sta) \in StaFrames
<1>1. sky.sta \in Seq(StaFrames) /\ sky.ap \in Seq(ApFrames)
  BY DEF Skies
<1>2. Tail(sky.sta) \in Seq(StaFrames) /\ Dropped(sky.sta, Tail(sky.sta))
      /\ Head(sky.sta) = sky.sta[1] /\ Head(sky.sta) \in StaFrames
  BY <1>1, TailDrops
<1>3. sky' = [sky EXCEPT !.sta = Tail(sky.sta)]
  BY DEF Taken
<1>4. sky' = [sta |-> Tail(sky.sta), ap |-> sky.ap]
  BY <1>1, <1>2, <1>3, SkyIs
<1> QED
  BY <1>1, <1>2, <1>4, SkyIs

LEMMA AnswersIt ==
  ASSUME sky \in Skies, sky.sta # <<>>, NEW f \in ApFrames, Answer(f)
  PROVE  sky' \in Skies /\ Added(sky.ap, sky'.ap, f) /\ Dropped(sky.sta, sky'.sta)
         /\ Head(sky.sta) = sky.sta[1] /\ Head(sky.sta) \in StaFrames
<1>1. sky.sta \in Seq(StaFrames) /\ sky.ap \in Seq(ApFrames)
  BY DEF Skies
<1>2. Tail(sky.sta) \in Seq(StaFrames) /\ Dropped(sky.sta, Tail(sky.sta))
      /\ Head(sky.sta) = sky.sta[1] /\ Head(sky.sta) \in StaFrames
  BY <1>1, TailDrops
<1>3. Append(sky.ap, f) \in Seq(ApFrames) /\ Added(sky.ap, Append(sky.ap, f), f)
  BY <1>1, AppendAdds
<1>4. sky' = [sta |-> Tail(sky.sta), ap |-> Append(sky.ap, f)]
  BY DEF Answer
<1> QED
  BY <1>1, <1>2, <1>3, <1>4, SkyIs

\* The access point takes the first frame that is on its way to it.
LEMMA ApTakes ==
  ASSUME sky \in Skies, sky.ap # <<>>, ApDrops
  PROVE  sky' \in Skies /\ sky'.sta = sky.sta /\ Dropped(sky.ap, sky'.ap)
         /\ Head(sky.ap) = sky.ap[1] /\ Head(sky.ap) \in ApFrames
<1>1. sky.sta \in Seq(StaFrames) /\ sky.ap \in Seq(ApFrames)
  BY DEF Skies
<1>2. Tail(sky.ap) \in Seq(ApFrames) /\ Dropped(sky.ap, Tail(sky.ap))
      /\ Head(sky.ap) = sky.ap[1] /\ Head(sky.ap) \in ApFrames
  BY <1>1, TailDrops
<1>3. sky' = [sky EXCEPT !.ap = Tail(sky.ap)]
  BY DEF ApDrops
<1>4. sky' = [sta |-> sky.sta, ap |-> Tail(sky.ap)]
  BY <1>1, <1>2, <1>3, SkyIs
<1> QED
  BY <1>1, <1>2, <1>4, SkyIs

LEMMA ApSaysIt ==
  ASSUME sky \in Skies, sky.ap # <<>>, NEW f \in StaFrames, ApSays(f)
  PROVE  sky' \in Skies /\ Added(sky.sta, sky'.sta, f) /\ Dropped(sky.ap, sky'.ap)
         /\ Head(sky.ap) = sky.ap[1] /\ Head(sky.ap) \in ApFrames
<1>1. sky.sta \in Seq(StaFrames) /\ sky.ap \in Seq(ApFrames)
  BY DEF Skies
<1>2. Tail(sky.ap) \in Seq(ApFrames) /\ Dropped(sky.ap, Tail(sky.ap))
      /\ Head(sky.ap) = sky.ap[1] /\ Head(sky.ap) \in ApFrames
  BY <1>1, TailDrops
<1>3. Append(sky.sta, f) \in Seq(StaFrames) /\ Added(sky.sta, Append(sky.sta, f), f)
  BY <1>1, AppendAdds
<1>4. sky' = [sta |-> Append(sky.sta, f), ap |-> Tail(sky.ap)]
  BY DEF ApSays
<1> QED
  BY <1>1, <1>2, <1>3, <1>4, SkyIs

LEMMA ApAdds ==
  ASSUME sky \in Skies, NEW f \in StaFrames, sky' = [sky EXCEPT !.sta = Append(sky.sta, f)]
  PROVE  sky' \in Skies /\ Added(sky.sta, sky'.sta, f) /\ sky'.ap = sky.ap
<1>1. sky.sta \in Seq(StaFrames) /\ sky.ap \in Seq(ApFrames)
  BY DEF Skies
<1>2. Append(sky.sta, f) \in Seq(StaFrames) /\ Added(sky.sta, Append(sky.sta, f), f)
  BY <1>1, AppendAdds
<1> DEFINE q == Append(sky.sta, f)
<1>3. sky' = [sky EXCEPT !.sta = q] /\ q \in Seq(StaFrames) /\ Added(sky.sta, q, f)
  BY <1>2
<1> HIDE DEF q
<1>4. sky' = [sta |-> q, ap |-> sky.ap] /\ [sta |-> q, ap |-> sky.ap] \in Skies
  BY <1>1, <1>3, SkyIs
<1> QED
  BY <1>3, <1>4

LEMMA CommittedDoes ==
  ASSUME TypeOK, Committed
  PROVE  /\ TypeOK' /\ UNCHANGED <<supp, peer>> /\ sta.at = "committed" /\ sess'.own = sess.own
         /\ sta'.at \in {"failed", "commit", "committed", "confirm"}
         /\ sta'.at = "confirm" => sess'.pmk # None /\ sess'.pmk[1] = sess.own
         /\ sky'.ap = sky.ap /\ Dropped(sky.sta, sky'.sta)
<1> DEFINE g == Head(sky.sta)
<1>1. sky.sta # <<>> /\ Taken /\ UNCHANGED <<supp, peer>> /\ sta.at = "committed" /\ sky \in Skies
  BY DEF Committed, TypeOK
<1>2. sky' \in Skies /\ sky'.ap = sky.ap /\ Dropped(sky.sta, sky'.sta) /\ g \in StaFrames
  BY <1>1, Takes
<1>3. \/ UNCHANGED <<sta, sess>>
      \/ Goto("commit") /\ UNCHANGED sess
      \/ sta' = [sta EXCEPT !.at = "commit", !.token = TRUE] /\ UNCHANGED sess
      \/ /\ g.type = "auth" /\ g.seq = 1 /\ Goto("confirm")
         /\ sess' = [sess EXCEPT !.theirs = g.body, !.pmk = <<sess.own, g.body>>]
      \/ Fail /\ UNCHANGED sess
  BY DEF Committed, Heard
<1>4. g.type = "auth" /\ g.seq = 1 => g.body \in Int
  BY <1>2, StaFrameIs
<1> HIDE DEF g
<1>5. sta \in Stas /\ sess \in Sessions /\ sess.own \in Nat /\ sess.own = sta.session
  BY DEF TypeOK, Sessions
<1>6. CASE UNCHANGED <<sta, sess>>
  BY <1>1, <1>2, <1>6 DEF TypeOK
<1>7. CASE Goto("commit") /\ UNCHANGED sess
  <2>1. sta' \in Stas /\ sta'.at = "commit" /\ sta'.session = sta.session
    BY <1>5, <1>7 DEF Goto, Stas
  <2> QED
    BY <1>1, <1>2, <1>7, <2>1 DEF TypeOK
<1>8. CASE sta' = [sta EXCEPT !.at = "commit", !.token = TRUE] /\ UNCHANGED sess
  <2>1. sta' \in Stas /\ sta'.at = "commit" /\ sta'.session = sta.session
    BY <1>5, <1>8 DEF Stas
  <2> QED
    BY <1>1, <1>2, <1>8, <2>1 DEF TypeOK
<1>9. CASE /\ g.type = "auth" /\ g.seq = 1 /\ Goto("confirm")
           /\ sess' = [sess EXCEPT !.theirs = g.body, !.pmk = <<sess.own, g.body>>]
  <2>1. sta' \in Stas /\ sta'.at = "confirm" /\ sta'.session = sta.session
    BY <1>5, <1>9 DEF Goto, Stas
  <2> DEFINE c == g.body
             k == <<sess.own, c>>
  <2>2. c \in Int /\ k \in Pmk /\ k # None /\ k[1] = sess.own
    BY <1>4, <1>5, <1>9 DEF Pmk, None
  <2>3. sess' = [sess EXCEPT !.theirs = c, !.pmk = k]
    BY <1>9
  <2> HIDE DEF c, k
  <2>4. sess' \in Sessions /\ sess'.own = sess.own /\ sess'.pmk = k
    BY <1>5, <2>2, <2>3 DEF Sessions
  <2> QED
    BY <1>1, <1>2, <2>1, <2>2, <2>4 DEF TypeOK
<1>10. CASE Fail /\ UNCHANGED sess
  <2>1. sta' \in Stas /\ sta'.at = "failed" /\ sta'.session = sta.session
    BY <1>5, <1>10 DEF Fail, Stas
  <2> QED
    BY <1>1, <1>2, <1>10, <2>1 DEF TypeOK
<1> QED
  BY <1>3, <1>6, <1>7, <1>8, <1>9, <1>10

LEMMA SendConfirmDoes ==
  ASSUME TypeOK, SendConfirm, sess.pmk # None
  PROVE  /\ TypeOK' /\ UNCHANGED <<sess, supp, peer>> /\ sta.at = "confirm" /\ sta'.at = "confirmed"
         /\ sky'.sta = sky.sta
         /\ \E f : IsConfirm(f) /\ f.body = sess.pmk /\ Added(sky.ap, sky'.ap, f)
<1> DEFINE f == Auth(2, "success", sess.pmk)
           q == Append(sky.ap, f)
<1>1. sess.pmk \in Pmk /\ sky \in Skies /\ sta \in Stas
  BY DEF TypeOK, Sessions
<1>2. f \in ApFrames
  BY <1>1, Confirms
<1>3. IsConfirm(f) /\ f.body = sess.pmk
  BY DEF IsConfirm, Auth
<1>4. sta' = [sta EXCEPT !.at = "confirmed"] /\ sky' = [sky EXCEPT !.ap = q] /\ sta.at = "confirm"
      /\ UNCHANGED <<sess, supp, peer>>
  BY DEF SendConfirm, Goto, ToAp
<1> HIDE DEF f
<1>5. sky.sta \in Seq(StaFrames) /\ sky.ap \in Seq(ApFrames) /\ q \in Seq(ApFrames) /\ Added(sky.ap, q, f)
  BY <1>1, <1>2, AppendAdds DEF Skies
<1> HIDE DEF q
<1>6. sky' = [sta |-> sky.sta, ap |-> q] /\ [sta |-> sky.sta, ap |-> q] \in Skies
  BY <1>1, <1>4, <1>5, SkyIs
<1>7. sta' \in Stas /\ sta'.at = "confirmed" /\ sta'.session = sta.session
  BY <1>1, <1>4 DEF Stas
<1> QED
  BY <1>3, <1>4, <1>5, <1>6, <1>7 DEF TypeOK

LEMMA ConfirmedDoes ==
  ASSUME TypeOK, Confirmed
  PROVE  /\ TypeOK' /\ UNCHANGED <<sess, peer>> /\ sta.at = "confirmed"
         /\ sky'.ap = sky.ap /\ Dropped(sky.sta, sky'.sta)
         /\ \/ sta'.at \in {"confirmed", "failed"}
            \/ /\ sta'.at = "handshake" /\ supp'.ptk = None
               /\ IsConfirm(sky.sta[1]) /\ sky.sta[1].body = sess.pmk
<1> DEFINE g == Head(sky.sta)
<1>1. sky.sta # <<>> /\ Taken /\ UNCHANGED <<sess, peer>> /\ sta.at = "confirmed" /\ sky \in Skies
      /\ sta \in Stas
  BY DEF Confirmed, TypeOK
<1>2. sky' \in Skies /\ sky'.ap = sky.ap /\ Dropped(sky.sta, sky'.sta) /\ g = sky.sta[1] /\ g \in StaFrames
  BY <1>1, Takes
<1>3. \/ UNCHANGED <<sta, supp>>
      \/ g.type = "auth" /\ VerifyConfirm(g) /\ Goto("handshake") /\ supp' = NewSupp
      \/ Fail /\ UNCHANGED supp
  BY DEF Confirmed, Heard
<1> HIDE DEF g
<1>4. CASE UNCHANGED <<sta, supp>>
  BY <1>1, <1>2, <1>4 DEF TypeOK
<1>5. CASE g.type = "auth" /\ VerifyConfirm(g) /\ Goto("handshake") /\ supp' = NewSupp
  <2>1. sta' \in Stas /\ sta'.at = "handshake" /\ sta'.session = sta.session
    BY <1>1, <1>5 DEF Goto, Stas
  <2>2. supp' \in Supps /\ supp'.ptk = None
    BY <1>5 DEF NewSupp, NoGroup, Supps, Groups, None
  <2>3. IsConfirm(g) /\ g.body = sess.pmk
    BY <1>5 DEF VerifyConfirm, IsConfirm
  <2> QED
    BY <1>1, <1>2, <2>1, <2>2, <2>3 DEF TypeOK
<1>6. CASE Fail /\ UNCHANGED supp
  <2>1. sta' \in Stas /\ sta'.at = "failed" /\ sta'.session = sta.session
    BY <1>1, <1>6 DEF Fail, Stas
  <2> QED
    BY <1>1, <1>2, <1>6, <2>1 DEF TypeOK
<1> QED
  BY <1>3, <1>4, <1>5, <1>6

\* A frame in the handshake: message 1, a message 3 that completes it, or one that is dropped; a
\* message 3 that is authentic writes in the group keys either way.
LEMMA OnFrameDoes ==
  ASSUME EapolSizes, TypeOK, OnFrame, sess.pmk # None
  PROVE  /\ TypeOK' /\ UNCHANGED <<sess, peer>> /\ sta.at = "handshake" /\ Dropped(sky.sta, sky'.sta)
         /\ \/ supp'.group = supp.group
            \/ /\ sky.sta[1].type = "m3" /\ sky.sta[1].mic = supp.ptk /\ supp.ptk # None
               /\ supp'.group.gtk = supp.group.gtk \/ supp'.group.gtk \in Gtks(sky.sta[1].data)
         /\ \/ /\ sta' = sta /\ supp'.snonce = supp.snonce + 1 /\ supp'.ptk # None
               /\ supp'.ptk[1] = sess.pmk /\ supp'.ptk[3] = supp'.snonce
               /\ \E f : /\ f.type = "m2" /\ f.mic = supp'.ptk /\ f.snonce = supp'.snonce
                         /\ Added(sky.ap, sky'.ap, f)
            \/ /\ sta'.at = "up" /\ supp.ptk # None
               /\ supp'.ptk = supp.ptk /\ supp'.snonce = supp.snonce /\ supp'.group.gtk # None
               /\ sky.sta[1].type = "m3" /\ sky.sta[1].mic = supp.ptk
               /\ \E f : f.type = "m4" /\ f.mic = supp.ptk /\ Added(sky.ap, sky'.ap, f)
            \/ /\ sta' = sta /\ supp'.ptk = supp.ptk /\ supp'.snonce = supp.snonce
               /\ sky'.ap = sky.ap
<1> DEFINE f == Head(sky.sta)
<1>1. sky.sta # <<>> /\ UNCHANGED <<sess, peer>> /\ sta.at = "handshake" /\ sky \in Skies
      /\ sta \in Stas /\ supp \in Supps /\ sess.pmk \in Pmk
  BY DEF OnFrame, TypeOK, Sessions
<1>2. \/ f.type = "m1" /\ OnM1(f)
      \/ f.type = "m3" /\ Accepts(f) /\ OnM3(f)
      \/ Taken /\ UNCHANGED <<sta, supp>>
  BY DEF OnFrame, Heard
<1>3. f \in StaFrames /\ f = sky.sta[1]
  BY <1>1, TailDrops DEF Skies
<1> HIDE DEF f
<1>4. CASE f.type = "m1" /\ OnM1(f)
  <2> DEFINE n == supp.snonce + 1
             k == <<sess.pmk, f.anonce, n>>
             m == M2(n, f.replay, k)
  <2>1. f.anonce \in Int /\ f.replay \in Int /\ n \in Int
    BY <1>1, <1>3, <1>4, StaFrameIs DEF Supps
  <2>2. /\ supp' = [supp EXCEPT !.anonce = f.anonce, !.replay = f.replay, !.snonce = n, !.ptk = k]
        /\ Answer(m) /\ sta' = sta
    BY <1>4 DEF OnM1
  <2>3. m.type = "m2" /\ m.mic = k /\ m.snonce = n
    BY DEF M2
  <2>4. n = supp.snonce + 1
    OBVIOUS
  <2> HIDE DEF n
  <2>5. k \in Ptk /\ k # None /\ k[1] = sess.pmk /\ k[3] = n
    BY <1>1, <2>1, KeyParts
  <2> HIDE DEF k
  <2>6. m \in ApFrames
    BY <2>1, <2>5, Messages
  <2> HIDE DEF m
  <2>7. sky' \in Skies /\ Added(sky.ap, sky'.ap, m) /\ Dropped(sky.sta, sky'.sta)
    BY <1>1, <2>2, <2>6, AnswersIt
  <2>8. supp' \in Supps /\ supp'.snonce = n /\ supp'.ptk = k /\ supp'.group = supp.group
    BY <1>1, <2>1, <2>2, <2>5 DEF Supps
  <2> QED
    BY <1>1, <2>2, <2>3, <2>4, <2>5, <2>7, <2>8 DEF TypeOK
<1>5. CASE f.type = "m3" /\ Accepts(f) /\ OnM3(f)
  <2> DEFINE gk == ParseKeyData(f.data, supp.group)
             m  == M4(f.replay, supp.ptk)
  <2>1. supp.ptk \in Ptk /\ supp.ptk # None /\ f.mic = supp.ptk
    BY <1>1, <1>5 DEF Accepts, Supps
  <2>2. f.replay \in Int /\ gk \in Groups /\ (gk.gtk = supp.group.gtk \/ gk.gtk \in Gtks(f.data))
    <3>1. Keyed(f)
      BY <1>5 DEF Keyed
    <3>2. f.replay \in Int /\ f.data \in KeyData
      BY <1>3, <1>5, <3>1, StaFrameIs
    <3>3. f.data \in Seq(Elements) /\ supp.group \in Groups
      BY <1>1, <3>2 DEF EapolSizes, Supps
    <3> QED
      BY <3>2, <3>3, ParsedIs
  <2>3. \/ /\ supp' = [supp EXCEPT !.replay = f.replay, !.group = gk, !.complete = TRUE]
           /\ sta' = [sta EXCEPT !.at = "up"] /\ Answer(m) /\ gk.gtk # None
        \/ supp' = [supp EXCEPT !.group = gk] /\ Taken /\ sta' = sta
    BY <1>5 DEF OnM3, Goto, Parsed
  <2>4. m.type = "m4" /\ m.mic = supp.ptk
    BY DEF M4
  <2>5. m \in ApFrames
    BY <2>1, <2>2, Messages
  <2> HIDE DEF gk, m
  <2>6. CASE /\ supp' = [supp EXCEPT !.replay = f.replay, !.group = gk, !.complete = TRUE]
             /\ sta' = [sta EXCEPT !.at = "up"] /\ Answer(m) /\ gk.gtk # None
    <3>1. sky' \in Skies /\ Added(sky.ap, sky'.ap, m) /\ Dropped(sky.sta, sky'.sta)
      BY <1>1, <2>5, <2>6, AnswersIt
    <3>2. supp' \in Supps /\ supp'.snonce = supp.snonce /\ supp'.ptk = supp.ptk /\ supp'.group = gk
      BY <1>1, <2>2, <2>6 DEF Supps
    <3>3. sta' \in Stas /\ sta'.at = "up" /\ sta'.session = sta.session
      BY <1>1, <2>6 DEF Stas
    <3> QED
      BY <1>1, <1>3, <1>5, <2>1, <2>2, <2>4, <2>6, <3>1, <3>2, <3>3 DEF TypeOK
  <2>7. CASE supp' = [supp EXCEPT !.group = gk] /\ Taken /\ sta' = sta
    <3>1. sky' \in Skies /\ sky'.ap = sky.ap /\ Dropped(sky.sta, sky'.sta)
      BY <1>1, <2>7, Takes
    <3>2. supp' \in Supps /\ supp'.snonce = supp.snonce /\ supp'.ptk = supp.ptk /\ supp'.group = gk
      BY <1>1, <2>2, <2>7 DEF Supps
    <3> QED
      BY <1>1, <1>3, <1>5, <2>1, <2>2, <2>7, <3>1, <3>2 DEF TypeOK
  <2> QED
    BY <2>3, <2>6, <2>7
<1>6. CASE Taken /\ UNCHANGED <<sta, supp>>
  <2>1. sky' \in Skies /\ sky'.ap = sky.ap /\ Dropped(sky.sta, sky'.sta)
    BY <1>1, <1>6, Takes
  <2> QED
    BY <1>1, <1>6, <2>1 DEF TypeOK
<1> QED
  BY <1>2, <1>4, <1>5, <1>6

LEMMA TimeoutDoes ==
  ASSUME TypeOK, Timeout
  PROVE  /\ TypeOK' /\ UNCHANGED <<sess, supp, peer, sky>>
         /\ sta'.at = "failed" \/ (sta.at = "committed" /\ sta'.at = "commit")
<1>1. \/ sta.at = "committed" /\ sta' = [sta EXCEPT !.at = "commit"]
      \/ sta' = [sta EXCEPT !.at = "failed"]
  BY DEF Timeout, Goto, Fail
<1>2. sta \in Stas /\ UNCHANGED <<sess, supp, peer, sky>>
  BY DEF TypeOK, Timeout
<1>3. CASE sta.at = "committed" /\ sta' = [sta EXCEPT !.at = "commit"]
  <2>1. sta' \in Stas /\ sta'.session = sta.session /\ sta'.at = "commit"
    BY <1>2, <1>3 DEF Stas
  <2> QED
    BY <1>2, <1>3, <2>1 DEF TypeOK
<1>4. CASE sta' = [sta EXCEPT !.at = "failed"]
  <2>1. sta' \in Stas /\ sta'.session = sta.session /\ sta'.at = "failed"
    BY <1>2, <1>4 DEF Stas
  <2> QED
    BY <1>2, <2>1 DEF TypeOK
<1> QED
  BY <1>1, <1>3, <1>4

LEMMA TxFailsDoes ==
  ASSUME TypeOK, TxFails
  PROVE  TypeOK' /\ UNCHANGED <<sess, supp, peer, sky>> /\ sta'.at = "failed"
<1>1. sta' = [sta EXCEPT !.at = "failed"]
  BY DEF TxFails, Fail
<1>2. sta' \in Stas /\ sta'.session = sta.session /\ sta'.at = "failed"
  BY <1>1 DEF TypeOK, Stas
<1> QED
  BY <1>2 DEF TxFails, TypeOK

\* A commit is answered with a request for a token, or with a commit and new keys.
LEMMA ApCommitsDoes ==
  ASSUME TypeOK, ApCommits
  PROVE  /\ TypeOK' /\ UNCHANGED <<sta, sess, supp>> /\ peer'.ptk = peer.ptk
         /\ IsCommit(sky.ap[1]) /\ Dropped(sky.ap, sky'.ap)
         /\ \E f : f.type = "auth" /\ f.seq = 1 /\ Added(sky.sta, sky'.sta, f)
         /\ (peer' = peer \/ peer'.stage = "idle")
<1> DEFINE g == Head(sky.ap)
<1>1. sky.ap # <<>> /\ g.type = "auth" /\ g.seq = 1 /\ UNCHANGED <<sta, sess, supp>> /\ sky \in Skies
      /\ peer \in Peers
  BY DEF ApCommits, ApHears, TypeOK
<1>2. g \in ApFrames /\ g = sky.ap[1]
  BY <1>1, TailDrops DEF Skies
<1>3. CASE peer.busy
  <2> DEFINE f == Auth(1, "token", 0)
  <2>1. ApSays(f) /\ UNCHANGED peer
    BY <1>3 DEF ApCommits
  <2>2. f \in StaFrames /\ f.type = "auth" /\ f.seq = 1
    BY Answers DEF Auth
  <2> HIDE DEF f
  <2>3. sky' \in Skies /\ Added(sky.sta, sky'.sta, f) /\ Dropped(sky.ap, sky'.ap)
    BY <1>1, <2>1, <2>2, ApSaysIt
  <2> HIDE DEF g
  <2> QED
    BY <1>1, <1>2, <2>1, <2>2, <2>3 DEF TypeOK, IsCommit
<1>4. CASE ~peer.busy
  <2> DEFINE b == g.body.commit
             own == IF b = peer.theirs THEN peer.own ELSE peer.own + 1
             k == <<b, own>>
  <2>1. IsCommit(g)
    BY <1>1 DEF IsCommit
  <2>2. b \in Int /\ own \in Int
    BY <1>1, <1>2, <2>1, ApFrameIs DEF Peers
  <2>3. /\ peer' = [peer EXCEPT !.theirs = b, !.own = own, !.pmk = k,
                                !.confirmed = FALSE, !.stage = "idle", !.resends = 0]
        /\ \E c \in {own, 0, b} : ApSays(Auth(1, "h2e", c))
    BY <1>4 DEF ApCommits
  <2> HIDE DEF b, own
  <2>4. k \in Pmk
    BY <2>2 DEF Pmk
  <2> HIDE DEF k
  <2>5. PICK c \in {own, 0, b} : ApSays(Auth(1, "h2e", c))
    BY <2>3
  <2>6. c \in Int
    BY <2>2
  <2> DEFINE f == Auth(1, "h2e", c)
  <2>7. f \in StaFrames /\ f.type = "auth" /\ f.seq = 1
    BY <2>6, Answers DEF Auth
  <2>8. ApSays(f)
    BY <2>5
  <2> HIDE DEF f
  <2>9. sky' \in Skies /\ Added(sky.sta, sky'.sta, f) /\ Dropped(sky.ap, sky'.ap)
    BY <1>1, <2>7, <2>8, ApSaysIt
  <2>10. peer' \in Peers /\ peer'.ptk = peer.ptk /\ peer'.stage = "idle"
    <3> DEFINE idle == "idle"
               no   == FALSE
               zero == 0
    <3>1. idle \in {"idle", "m1", "m3"} /\ no \in BOOLEAN /\ zero \in Int /\ idle = "idle"
      OBVIOUS
    <3>2. peer' = [peer EXCEPT !.theirs = b, !.own = own, !.pmk = k, !.confirmed = no, !.stage = idle,
                               !.resends = zero]
      BY <2>3
    <3> HIDE DEF idle, no, zero
    <3>3. peer' \in Peers /\ peer'.ptk = peer.ptk /\ peer'.stage = idle
      BY <1>1, <2>2, <2>4, <3>1, <3>2 DEF Peers
    <3> QED
      BY <3>1, <3>3
  <2> HIDE DEF g
  <2> QED
    BY <1>1, <1>2, <2>1, <2>7, <2>9, <2>10 DEF TypeOK
<1> QED
  BY <1>3, <1>4

LEMMA ApConfirmsDoes ==
  ASSUME TypeOK, ApConfirms
  PROVE  /\ TypeOK' /\ UNCHANGED <<sta, sess, supp>> /\ Dropped(sky.ap, sky'.ap) /\ IsConfirm(sky.ap[1])
         /\ \/ /\ sky.ap[1].body = peer.pmk
               /\ peer'.pmk = peer.pmk /\ peer'.ptk = peer.ptk /\ peer'.stage = peer.stage /\ peer'.confirmed
               /\ \E f : IsConfirm(f) /\ f.body = peer.pmk /\ Added(sky.sta, sky'.sta, f)
            \/ peer' = peer /\ sky'.sta = sky.sta
<1> DEFINE g == Head(sky.ap)
           f == Auth(2, "success", peer.pmk)
<1>1. sky.ap # <<>> /\ IsConfirm(g) /\ UNCHANGED <<sta, sess, supp>> /\ sky \in Skies /\ peer \in Peers
  BY DEF ApConfirms, ApHears, TypeOK, IsConfirm
<1>2. g \in ApFrames /\ g = sky.ap[1]
  BY <1>1, TailDrops DEF Skies
<1>3. \/ g.body = peer.pmk /\ peer' = [peer EXCEPT !.confirmed = TRUE] /\ ApSays(f)
      \/ ApDrops /\ UNCHANGED peer
  BY DEF ApConfirms
<1>4. g.body \in Pmk
  BY <1>1, <1>2, ApFrameIs
<1> HIDE DEF g
<1>5. CASE g.body = peer.pmk /\ peer' = [peer EXCEPT !.confirmed = TRUE] /\ ApSays(f)
  <2>1. f \in StaFrames /\ IsConfirm(f) /\ f.body = peer.pmk
    BY <1>4, <1>5, Confirms DEF Auth, IsConfirm
  <2> HIDE DEF f
  <2>2. sky' \in Skies /\ Added(sky.sta, sky'.sta, f) /\ Dropped(sky.ap, sky'.ap)
    BY <1>1, <1>5, <2>1, ApSaysIt
  <2>3. /\ peer' \in Peers /\ peer'.pmk = peer.pmk /\ peer'.ptk = peer.ptk
        /\ peer'.stage = peer.stage /\ peer'.confirmed
    BY <1>1, <1>5 DEF Peers
  <2> QED
    BY <1>1, <1>2, <1>5, <2>1, <2>2, <2>3 DEF TypeOK
<1>6. CASE ApDrops /\ UNCHANGED peer
  <2>1. sky' \in Skies /\ sky'.sta = sky.sta /\ Dropped(sky.ap, sky'.ap)
    BY <1>1, <1>6, ApTakes
  <2> QED
    BY <1>1, <1>2, <1>6, <2>1 DEF TypeOK
<1> QED
  BY <1>3, <1>5, <1>6

LEMMA ApStartsDoes ==
  ASSUME TypeOK, ApStarts
  PROVE  /\ TypeOK' /\ UNCHANGED <<sta, sess, supp>> /\ sta.at = "handshake" /\ peer.stage # "m3"
         /\ peer'.stage = "m1" /\ peer'.ptk = None /\ peer'.pmk = peer.pmk /\ peer'.confirmed = peer.confirmed
         /\ sky'.ap = sky.ap /\ \E f : f.type = "m1" /\ Added(sky.sta, sky'.sta, f)
<1> DEFINE a    == IF peer.stage = "idle" THEN peer.anonce + 1 ELSE peer.anonce
           r    == peer.replay + 1
           from == IF peer.stage = "idle" THEN peer.replay + 1 ELSE peer.from
           n    == peer.resends + 1
           p    == [peer EXCEPT !.stage = "m1", !.replay = r, !.resends = n, !.ptk = None,
                                !.anonce = a, !.from = from]
           f    == M1(p.anonce, p.replay)
<1>1. peer \in Peers /\ sky \in Skies /\ sta.at = "handshake" /\ peer.stage \in {"idle", "m1"}
      /\ UNCHANGED <<sta, sess, supp>>
  BY DEF TypeOK, ApStarts
<1>2. a \in Int /\ r \in Int /\ from \in Int /\ n \in Int
  BY <1>1 DEF Peers
<1>3. peer' = p /\ sky' = [sky EXCEPT !.sta = Append(sky.sta, f)]
  BY DEF ApStarts
<1> HIDE DEF a, r, from, n
<1>4. /\ p \in Peers /\ p.stage = "m1" /\ p.ptk = None /\ p.pmk = peer.pmk /\ p.confirmed = peer.confirmed
      /\ p.anonce = a /\ p.replay = r
  BY <1>1, <1>2 DEF Peers
<1>5. f.type = "m1"
  BY DEF M1
<1> HIDE DEF p
<1>6. f \in StaFrames
  <2>1. <<<<0, 0>>, 0, 0>> \in Ptk
    BY DEF Ptk, Pmk
  <2> QED
    BY <1>2, <1>4, <2>1, Messages
<1> HIDE DEF f
<1>7. sky' \in Skies /\ Added(sky.sta, sky'.sta, f) /\ sky'.ap = sky.ap
  BY <1>1, <1>3, <1>6, ApAdds
<1> QED
  BY <1>1, <1>3, <1>4, <1>5, <1>7 DEF TypeOK

LEMMA ApSendsM3Does ==
  ASSUME EapolSizes, TypeOK, ApSendsM3
  PROVE  /\ TypeOK' /\ UNCHANGED <<sta, sess, supp>> /\ Dropped(sky.ap, sky'.ap) /\ sky.ap[1].type = "m2"
         /\ peer.given \subseteq peer'.given
         /\ \/ /\ peer'.stage = "m3" /\ peer'.pmk = peer.pmk /\ peer'.confirmed = peer.confirmed
               /\ peer'.ptk = sky.ap[1].mic /\ peer'.ptk[1] = peer.pmk
               /\ \E f : f.type = "m3" /\ f.mic = peer'.ptk /\ Gave(peer'.given, f) /\ Added(sky.sta, sky'.sta, f)
            \/ peer' = peer /\ sky'.sta = sky.sta
<1> DEFINE g == Head(sky.ap)
           k == <<peer.pmk, peer.anonce, g.snonce>>
           r == peer.replay + 1
           p == [peer EXCEPT !.stage = "m3", !.replay = r, !.ptk = k]
<1>1. sky.ap # <<>> /\ g.type = "m2" /\ UNCHANGED <<sta, sess, supp>> /\ sky \in Skies /\ peer \in Peers
  BY DEF ApSendsM3, ApHears, TypeOK
<1>2. g \in ApFrames /\ g = sky.ap[1]
  BY <1>1, TailDrops DEF Skies
<1>3. \/ /\ g.mic = p.ptk
         /\ \E kd \in KeyData : peer' = Giving(p, kd) /\ ApSays(M3(p.anonce, p.replay, p.ptk, kd))
      \/ ApDrops /\ UNCHANGED peer
  BY DEF ApSendsM3
<1>4. g.mic \in Ptk /\ r \in Int /\ peer.anonce \in Int /\ k[1] = peer.pmk
  BY <1>1, <1>2, ApFrameIs DEF Keyed, Peers
<1> HIDE DEF g, k, r
<1>5. p.ptk = k /\ p.given = peer.given
  BY <1>1 DEF Peers
<1>6. ASSUME NEW kd \in KeyData, g.mic = p.ptk, peer' = Giving(p, kd),
             ApSays(M3(p.anonce, p.replay, p.ptk, kd))
      PROVE  /\ TypeOK' /\ peer.given \subseteq peer'.given
             /\ peer'.stage = "m3" /\ peer'.pmk = peer.pmk /\ peer'.confirmed = peer.confirmed
             /\ peer'.ptk = g.mic /\ peer'.ptk[1] = peer.pmk /\ Dropped(sky.ap, sky'.ap)
             /\ \E f : f.type = "m3" /\ f.mic = peer'.ptk /\ Gave(peer'.given, f) /\ Added(sky.sta, sky'.sta, f)
  <2>1. k \in Ptk
    BY <1>4, <1>5, <1>6
  <2>2. /\ p \in Peers /\ p.stage = "m3" /\ p.pmk = peer.pmk /\ p.confirmed = peer.confirmed
        /\ p.anonce = peer.anonce /\ p.replay = r
    BY <1>1, <1>4, <2>1 DEF Peers
  <2> HIDE DEF p
  <2>3. /\ peer' \in Peers /\ peer'.stage = "m3" /\ peer'.ptk = k /\ peer'.pmk = peer.pmk
        /\ peer'.confirmed = peer.confirmed /\ peer.given \subseteq peer'.given
        /\ \A key \in Gtks(kd) : <<k[1], key>> \in peer'.given
    BY <1>5, <1>6, <2>1, <2>2, GivingIs
  <2> DEFINE f == M3(p.anonce, p.replay, p.ptk, kd)
  <2>4. f.type = "m3" /\ f.mic = k /\ f.data = kd
    BY <1>5 DEF M3
  <2>5. f \in StaFrames
    BY <1>4, <1>5, <2>1, <2>2, Messages
  <2>6. ApSays(f)
    BY <1>6
  <2> HIDE DEF f
  <2>7. sky' \in Skies /\ Added(sky.sta, sky'.sta, f) /\ Dropped(sky.ap, sky'.ap)
    BY <1>1, <2>5, <2>6, ApSaysIt
  <2>8. Gave(peer'.given, f)
    BY <2>3, <2>4 DEF Gave
  <2> QED
    BY <1>1, <1>4, <1>5, <1>6, <2>3, <2>4, <2>7, <2>8 DEF TypeOK
<1>7. CASE ApDrops /\ UNCHANGED peer
  <2>1. sky' \in Skies /\ sky'.sta = sky.sta /\ Dropped(sky.ap, sky'.ap)
    BY <1>1, <1>7, ApTakes
  <2> QED
    BY <1>1, <1>2, <1>7, <2>1 DEF TypeOK
<1> QED
  BY <1>1, <1>2, <1>3, <1>6, <1>7

LEMMA ApRepeatsDoes ==
  ASSUME EapolSizes, TypeOK, ApRepeats, peer.ptk # None
  PROVE  /\ TypeOK' /\ UNCHANGED <<sta, sess, supp>> /\ peer.stage = "m3"
         /\ peer'.stage = "m3" /\ peer'.ptk = peer.ptk /\ peer'.pmk = peer.pmk
         /\ peer'.confirmed = peer.confirmed /\ peer.given \subseteq peer'.given
         /\ sky'.ap = sky.ap
         /\ \E f : f.type = "m3" /\ f.mic = peer.ptk /\ Gave(peer'.given, f) /\ Added(sky.sta, sky'.sta, f)
<1> DEFINE r == peer.replay + 1
           n == peer.resends + 1
           p == [peer EXCEPT !.replay = r, !.resends = n]
<1>1. peer \in Peers /\ sky \in Skies /\ peer.stage = "m3" /\ UNCHANGED <<sta, sess, supp>>
  BY DEF TypeOK, ApRepeats
<1>2. PICK kd \in KeyData :
        /\ peer' = Giving(p, kd)
        /\ sky' = [sky EXCEPT !.sta = Append(sky.sta, M3(peer.anonce, r, peer.ptk, kd))]
  BY DEF ApRepeats
<1>3. r \in Int /\ n \in Int /\ peer.anonce \in Int /\ peer.ptk \in Ptk
  BY <1>1 DEF Peers
<1> HIDE DEF r, n
<1> DEFINE f == M3(peer.anonce, r, peer.ptk, kd)
<1>4. f.type = "m3" /\ f.mic = peer.ptk /\ f.data = kd
  BY DEF M3
<1>5. f \in StaFrames /\ sky' = [sky EXCEPT !.sta = Append(sky.sta, f)]
  BY <1>2, <1>3, Messages
<1> HIDE DEF f
<1>6. sky' \in Skies /\ Added(sky.sta, sky'.sta, f) /\ sky'.ap = sky.ap
  BY <1>1, <1>5, ApAdds
<1>7. /\ p \in Peers /\ p.stage = peer.stage /\ p.ptk = peer.ptk /\ p.pmk = peer.pmk
      /\ p.confirmed = peer.confirmed /\ p.given = peer.given
  BY <1>1, <1>3 DEF Peers
<1> HIDE DEF p
<1>8. /\ peer' \in Peers /\ peer'.stage = peer.stage /\ peer'.ptk = peer.ptk /\ peer'.pmk = peer.pmk
      /\ peer'.confirmed = peer.confirmed /\ peer.given \subseteq peer'.given
      /\ \A key \in Gtks(kd) : <<peer.ptk[1], key>> \in peer'.given
  BY <1>2, <1>3, <1>7, GivingIs
<1>9. Gave(peer'.given, f)
  BY <1>4, <1>8 DEF Gave
<1> QED
  BY <1>1, <1>4, <1>6, <1>8, <1>9 DEF TypeOK

LEMMA ApDoneDoes ==
  ASSUME TypeOK, ApDone
  PROVE  /\ TypeOK' /\ UNCHANGED <<sta, sess, supp>> /\ Dropped(sky.ap, sky'.ap) /\ sky'.sta = sky.sta
         /\ peer'.ptk = peer.ptk /\ peer'.pmk = peer.pmk /\ peer'.confirmed = peer.confirmed
         /\ \/ peer'.stage = peer.stage
            \/ /\ peer.stage = "m3" /\ peer'.stage = "idle"
               /\ sky.ap[1].type = "m4" /\ sky.ap[1].mic = peer.ptk
<1> DEFINE g == Head(sky.ap)
<1>1. sky.ap # <<>> /\ g.type = "m4" /\ UNCHANGED <<sta, sess, supp>> /\ sky \in Skies /\ peer \in Peers
      /\ ApDrops
  BY DEF ApDone, ApHears, TypeOK
<1>2. sky' \in Skies /\ sky'.sta = sky.sta /\ Dropped(sky.ap, sky'.ap) /\ g = sky.ap[1]
  BY <1>1, ApTakes
<1>3. \/ peer.stage = "m3" /\ g.mic = peer.ptk /\ peer' = [peer EXCEPT !.stage = "idle"]
      \/ peer' = peer
  BY DEF ApDone
<1> HIDE DEF g
<1>4. peer.stage = "m3" /\ g.mic = peer.ptk /\ peer' = [peer EXCEPT !.stage = "idle"] =>
        /\ peer' \in Peers /\ peer'.stage = "idle" /\ peer'.ptk = peer.ptk /\ peer'.pmk = peer.pmk
        /\ peer'.confirmed = peer.confirmed
  BY <1>1 DEF Peers
<1> QED
  BY <1>1, <1>2, <1>3, <1>4 DEF TypeOK

LEMMA ApCalmsDoes ==
  ASSUME TypeOK, ApCalms
  PROVE  /\ TypeOK' /\ UNCHANGED <<sta, sess, supp, sky>>
         /\ peer'.ptk = peer.ptk /\ peer'.pmk = peer.pmk /\ peer'.confirmed = peer.confirmed
         /\ peer'.stage = peer.stage
<1>1. UNCHANGED <<sta, sess, supp, sky>> /\ peer \in Peers /\ peer' = [peer EXCEPT !.busy = FALSE]
  BY DEF TypeOK, ApCalms
<1>2. /\ peer' \in Peers /\ peer'.stage = peer.stage /\ peer'.ptk = peer.ptk /\ peer'.pmk = peer.pmk
      /\ peer'.confirmed = peer.confirmed
  BY <1>1 DEF Peers
<1> QED
  BY <1>1, <1>2 DEF TypeOK

LEMMA LoseDoes ==
  ASSUME TypeOK, Lose
  PROVE  /\ TypeOK' /\ UNCHANGED <<sta, sess, supp, peer>>
         /\ \/ sky'.sta = sky.sta /\ Dropped(sky.ap, sky'.ap)
            \/ sky'.ap = sky.ap /\ Dropped(sky.sta, sky'.sta)
<1>1. UNCHANGED <<sta, sess, supp, peer>> /\ sky \in Skies
  BY DEF Lose, TypeOK
<1>2. \/ sky.sta # <<>> /\ Taken
      \/ sky.ap # <<>> /\ ApDrops
  BY DEF Lose, Taken, ApDrops
<1>3. sky' \in Skies /\ (\/ sky'.sta = sky.sta /\ Dropped(sky.ap, sky'.ap)
                         \/ sky'.ap = sky.ap /\ Dropped(sky.sta, sky'.sta))
  BY <1>1, <1>2, Takes, ApTakes
<1> QED
  BY <1>1, <1>3 DEF TypeOK
-----------------------------------------------------------------------------
(***************************************************************************)
(* Nothing of this session is on its way before it is made.                *)
(***************************************************************************)
LEMMA Numbers ==
  ASSUME TypeOK
  PROVE  /\ sess.own \in Nat /\ supp.snonce \in Int
         /\ Len(sky.ap) \in Nat /\ Len(sky.sta) \in Nat
         /\ \A i \in 1 .. Len(sky.ap) :
              /\ IsConfirm(sky.ap[i]) => sky.ap[i].body[1] \in Int
              /\ Keyed(sky.ap[i]) => sky.ap[i].mic[1][1] \in Int /\ sky.ap[i].mic[3] \in Int
         /\ \A i \in 1 .. Len(sky.sta) :
              /\ IsConfirm(sky.sta[i]) => sky.sta[i].body[1] \in Int
              /\ Keyed(sky.sta[i]) => sky.sta[i].mic[1][1] \in Int /\ sky.sta[i].mic[3] \in Int
         /\ peer.ptk # None => peer.ptk[1][1] \in Int /\ peer.ptk[3] \in Int
<1>1. sess.own \in Nat /\ supp.snonce \in Int /\ peer.ptk \in Ptk \cup {None}
      /\ sky.sta \in Seq(StaFrames) /\ sky.ap \in Seq(ApFrames)
  BY DEF TypeOK, Sessions, Supps, Peers, Skies
<1>2. \A k \in Pmk : k[1] \in Int
  BY DEF Pmk
<1>3. ASSUME NEW i \in 1 .. Len(sky.ap)
      PROVE  /\ IsConfirm(sky.ap[i]) => sky.ap[i].body[1] \in Int
             /\ Keyed(sky.ap[i]) => sky.ap[i].mic[1][1] \in Int /\ sky.ap[i].mic[3] \in Int
  <2>1. PICK f \in ApFrames : f = sky.ap[i]
    BY <1>1
  <2>2. (IsConfirm(f) => f.body \in Pmk) /\ (Keyed(f) => f.mic \in Ptk)
    BY ApFrameIs
  <2> QED
    BY <1>2, <2>1, <2>2, PtkIs
<1>4. ASSUME NEW i \in 1 .. Len(sky.sta)
      PROVE  /\ IsConfirm(sky.sta[i]) => sky.sta[i].body[1] \in Int
             /\ Keyed(sky.sta[i]) => sky.sta[i].mic[1][1] \in Int /\ sky.sta[i].mic[3] \in Int
  <2>1. PICK f \in StaFrames : f = sky.sta[i]
    BY <1>1
  <2>2. (IsConfirm(f) => f.body \in Pmk) /\ (Keyed(f) => f.mic \in Ptk)
    BY StaFrameIs
  <2> QED
    BY <1>2, <2>1, <2>2, PtkIs
<1> QED
  BY <1>1, <1>3, <1>4, PtkIs

\* What stays of the past when the session does.
LEMMA PastStays ==
  ASSUME sess'.own = sess.own, Early' => Early, Unkeyed' => Unkeyed, NEW f, Past(f)
  PROVE  Past(f)'
BY DEF Past, OwnKey

\* Every frame that is on its way was, or is the one just sent.
Were(s, t)    == \A i \in 1 .. Len(t) : \E j \in 1 .. Len(s) : t[i] = s[j]
WereOr(s, t, f) == \A i \in 1 .. Len(t) : t[i] = f \/ \E j \in 1 .. Len(s) : t[i] = s[j]

LEMMA DroppedWere ==
  ASSUME NEW s, NEW t, Dropped(s, t)
  PROVE  Were(s, t)
<1> SUFFICES ASSUME NEW i \in 1 .. Len(t) PROVE t[i] = s[i + 1] /\ i + 1 \in 1 .. Len(s)
  BY DEF Were
<1> QED
  BY DEF Dropped

LEMMA AddedWere ==
  ASSUME NEW s, NEW t, NEW f, Added(s, t, f)
  PROVE  WereOr(s, t, f)
<1> SUFFICES ASSUME NEW i \in 1 .. Len(t) PROVE t[i] = f \/ (t[i] = s[i] /\ i \in 1 .. Len(s))
  BY DEF WereOr
<1> QED
  BY DEF Added

LEMMA PastsGrow ==
  ASSUME Pasts, sess'.own = sess.own, Early' => Early, Unkeyed' => Unkeyed,
         NEW f, Past(f)', WereOr(sky.ap, sky'.ap, f), WereOr(sky.sta, sky'.sta, f),
         peer'.ptk = peer.ptk \/ (peer'.ptk # None => peer'.ptk[1][1] <= sess.own /\ (Unkeyed' => peer'.ptk[1][1] # sess.own))
  PROVE  Pasts'
<1>1. ASSUME NEW i \in 1 .. Len(sky'.ap) PROVE Past(sky.ap[i])'
  <2>1. CASE \E j \in 1 .. Len(sky.ap) : sky'.ap[i] = sky.ap[j]
    BY <2>1 DEF Pasts, Past, OwnKey
  <2>2. CASE sky'.ap[i] = f
    BY <2>2 DEF Past, OwnKey
  <2> QED
    BY <2>1, <2>2 DEF WereOr
<1>2. ASSUME NEW i \in 1 .. Len(sky'.sta) PROVE Past(sky.sta[i])'
  <2>1. CASE \E j \in 1 .. Len(sky.sta) : sky'.sta[i] = sky.sta[j]
    BY <2>1 DEF Pasts, Past, OwnKey
  <2>2. CASE sky'.sta[i] = f
    BY <2>2 DEF Past, OwnKey
  <2> QED
    BY <2>1, <2>2 DEF WereOr
<1>3. peer'.ptk # None => peer'.ptk[1][1] <= sess'.own /\ (Unkeyed' => ~OwnKey(peer.ptk)')
  BY DEF Pasts, OwnKey
<1> QED
  BY <1>1, <1>2, <1>3 DEF Pasts

LEMMA PastsStay ==
  ASSUME Pasts, sess'.own = sess.own, Early' => Early, Unkeyed' => Unkeyed,
         Were(sky.ap, sky'.ap), Were(sky.sta, sky'.sta), peer'.ptk = peer.ptk \/ peer'.ptk = None
  PROVE  Pasts'
<1> DEFINE f == M1(0, 0)
<1>1. Past(f)'
  BY DEF Past, M1, IsConfirm, Keyed
<1> HIDE DEF f
<1>2. WereOr(sky.ap, sky'.ap, f) /\ WereOr(sky.sta, sky'.sta, f)
  BY DEF Were, WereOr
<1> QED
  BY <1>1, <1>2, PastsGrow

LEMMA WereSame ==
  ASSUME NEW s, NEW f
  PROVE  Were(s, s) /\ WereOr(s, s, f)
BY DEF Were, WereOr

LEMMA WereThen ==
  ASSUME NEW s, NEW t, NEW f, Were(s, t)
  PROVE  WereOr(s, t, f)
BY DEF Were, WereOr

LEMMA PastsNext ==
  ASSUME EapolSizes, TypeOK, Pasts, Sae, Handshake, Next
  PROVE  Pasts'
<1>n. /\ sess.own \in Nat
      /\ \A i \in 1 .. Len(sky.ap) :
           /\ IsConfirm(sky.ap[i]) => sky.ap[i].body[1] \in Int
           /\ Keyed(sky.ap[i]) => sky.ap[i].mic[1][1] \in Int
      /\ \A i \in 1 .. Len(sky.sta) :
           /\ IsConfirm(sky.sta[i]) => sky.sta[i].body[1] \in Int
           /\ Keyed(sky.sta[i]) => sky.sta[i].mic[1][1] \in Int
      /\ peer.ptk # None => peer.ptk[1][1] \in Int
  BY Numbers
<1>s. Were(sky.ap, sky.ap) /\ Were(sky.sta, sky.sta)
  BY WereSame
<1>1. CASE Connect
  <2>1. sess'.own = sess.own + 1 /\ sta'.at = "commit" /\ sky' = sky /\ peer' = peer
    BY <1>1, ConnectDoes
  <2>2. (\A i \in 1 .. Len(sky.ap) : Past(sky.ap[i])')
        /\ (\A i \in 1 .. Len(sky.sta) : Past(sky.sta[i])')
    <3>1. ASSUME NEW i \in 1 .. Len(sky.ap)
          PROVE  Past(sky.ap[i])'
      <4> DEFINE f == sky.ap[i]
      <4>1. Past(f) /\ sess.own \in Nat /\ (IsConfirm(f) => f.body[1] \in Int) /\ (Keyed(f) => f.mic[1][1] \in Int)
        BY <1>n DEF Pasts
      <4>2. f' = f
        BY <2>1
      <4> HIDE DEF f
      <4>3. IsConfirm(f) => f.body[1] <= sess.own + 1 /\ f.body[1] # sess.own + 1
        BY <4>1 DEF Past
      <4>4. Keyed(f) => f.mic[1][1] <= sess.own + 1 /\ f.mic[1][1] # sess.own + 1
        BY <4>1 DEF Past
      <4>5. (Past(f))'
        BY <2>1, <4>2, <4>3, <4>4 DEF Past, OwnKey
      <4> QED
        BY <4>5 DEF f
    <3>2. ASSUME NEW i \in 1 .. Len(sky.sta)
          PROVE  Past(sky.sta[i])'
      <4> DEFINE f == sky.sta[i]
      <4>1. Past(f) /\ sess.own \in Nat /\ (IsConfirm(f) => f.body[1] \in Int) /\ (Keyed(f) => f.mic[1][1] \in Int)
        BY <1>n DEF Pasts
      <4>2. f' = f
        BY <2>1
      <4> HIDE DEF f
      <4>3. IsConfirm(f) => f.body[1] <= sess.own + 1 /\ f.body[1] # sess.own + 1
        BY <4>1 DEF Past
      <4>4. Keyed(f) => f.mic[1][1] <= sess.own + 1 /\ f.mic[1][1] # sess.own + 1
        BY <4>1 DEF Past
      <4>5. (Past(f))'
        BY <2>1, <4>2, <4>3, <4>4 DEF Past, OwnKey
      <4> QED
        BY <4>5 DEF f
    <3> QED
      BY <3>1, <3>2
  <2> QED
    BY <1>n, <2>1, <2>2 DEF Pasts, OwnKey
<1>2. CASE SendCommit
  <2>1. /\ UNCHANGED <<sess, peer>> /\ sta.at = "commit" /\ sky'.sta = sky.sta
        /\ \/ sta'.at = "failed" /\ sky' = sky
           \/ sta'.at = "committed" /\ \E f : IsCommit(f) /\ Added(sky.ap, sky'.ap, f)
    BY <1>2, SendCommitDoes
  <2>2. CASE sky' = sky /\ sta'.at = "failed"
    BY <1>s, <2>1, <2>2, PastsStay DEF Early, Unkeyed
  <2>3. CASE sta'.at = "committed" /\ \E f : IsCommit(f) /\ Added(sky.ap, sky'.ap, f)
    <3>1. PICK f : IsCommit(f) /\ Added(sky.ap, sky'.ap, f)
      BY <2>3
    <3>2. WereOr(sky.ap, sky'.ap, f) /\ WereOr(sky.sta, sky'.sta, f)
      BY <2>1, <3>1, AddedWere, WereSame
    <3>3. Past(f)'
      BY <3>1 DEF Past, IsCommit, IsConfirm, Keyed
    <3> QED
      BY <2>1, <2>3, <3>2, <3>3, PastsGrow DEF Early, Unkeyed
  <2> QED
    BY <2>1, <2>2, <2>3
<1>3. CASE Committed
  <2>1. /\ peer' = peer /\ sta.at = "committed" /\ sess'.own = sess.own
        /\ sky'.ap = sky.ap /\ Dropped(sky.sta, sky'.sta)
    BY <1>3, CommittedDoes
  <2> QED
    BY <1>s, <2>1, DroppedWere, PastsStay DEF Early, Unkeyed
<1>4. CASE SendConfirm
  <2>1. sess.pmk # None /\ sess.pmk[1] = sess.own
    BY <1>4 DEF SendConfirm, Sae, Mine
  <2>2. /\ UNCHANGED <<sess, peer>> /\ sta.at = "confirm" /\ sta'.at = "confirmed" /\ sky'.sta = sky.sta
        /\ \E f : IsConfirm(f) /\ f.body = sess.pmk /\ Added(sky.ap, sky'.ap, f)
    BY <1>4, <2>1, SendConfirmDoes
  <2>3. PICK f : IsConfirm(f) /\ f.body = sess.pmk /\ Added(sky.ap, sky'.ap, f)
    BY <2>2
  <2>4. WereOr(sky.ap, sky'.ap, f) /\ WereOr(sky.sta, sky'.sta, f)
    BY <2>2, <2>3, AddedWere, WereSame
  <2>5. Past(f)'
    BY <1>n, <2>1, <2>2, <2>3 DEF Past, IsConfirm, Keyed, Early
  <2> QED
    BY <2>2, <2>4, <2>5, PastsGrow DEF Early, Unkeyed
<1>5. CASE Confirmed
  <2>1. /\ UNCHANGED <<sess, peer>> /\ sta.at = "confirmed" /\ sky'.ap = sky.ap /\ Dropped(sky.sta, sky'.sta)
        /\ sta'.at \in {"confirmed", "failed", "handshake"}
    BY <1>5, ConfirmedDoes
  <2> QED
    BY <1>s, <2>1, DroppedWere, PastsStay DEF Early, Unkeyed
<1>6. CASE OnFrame
  <2>1. sess.pmk # None /\ sess.pmk[1] = sess.own /\ sta.at = "handshake"
    BY <1>6 DEF OnFrame, Sae, Mine
  <2>2. /\ UNCHANGED <<sess, peer>> /\ Dropped(sky.sta, sky'.sta) /\ sta'.at \in {"handshake", "up"}
        /\ \/ sky'.ap = sky.ap
           \/ \E f : /\ f.type \in {"m2", "m4"} /\ f.mic[1][1] = sess.own
                     /\ Added(sky.ap, sky'.ap, f)
    <3>1. supp.ptk # None => supp.ptk[1] = sess.pmk
      BY <2>1 DEF Handshake, Secured, Bounded
    <3> QED
      BY <1>6, <2>1, <3>1, OnFrameDoes
  <2>3. CASE sky'.ap = sky.ap
    BY <1>s, <2>1, <2>2, <2>3, DroppedWere, PastsStay DEF Early, Unkeyed
  <2>4. CASE \E f : f.type \in {"m2", "m4"} /\ f.mic[1][1] = sess.own /\ Added(sky.ap, sky'.ap, f)
    <3>1. PICK f : f.type \in {"m2", "m4"} /\ f.mic[1][1] = sess.own /\ Added(sky.ap, sky'.ap, f)
      BY <2>4
    <3>2. WereOr(sky.ap, sky'.ap, f) /\ WereOr(sky.sta, sky'.sta, f)
      BY <2>2, <3>1, AddedWere, DroppedWere, WereThen
    <3>3. Past(f)'
      BY <1>n, <2>2, <3>1 DEF Past, IsConfirm, Keyed, Unkeyed
    <3> QED
      BY <2>1, <2>2, <3>2, <3>3, PastsGrow DEF Early, Unkeyed
  <2> QED
    BY <2>2, <2>3, <2>4
<1>7. CASE Timeout \/ TxFails
  <2>1. UNCHANGED <<sess, peer, sky>> /\ (sta'.at = "failed" \/ (sta.at = "committed" /\ sta'.at = "commit"))
    BY <1>7, TimeoutDoes, TxFailsDoes
  <2> QED
    BY <1>s, <2>1, PastsStay DEF Early, Unkeyed
<1>8. CASE ApCommits
  <2>1. /\ UNCHANGED <<sta, sess>> /\ peer'.ptk = peer.ptk /\ Dropped(sky.ap, sky'.ap)
        /\ \E f : f.type = "auth" /\ f.seq = 1 /\ Added(sky.sta, sky'.sta, f)
    BY <1>8, ApCommitsDoes
  <2>2. PICK f : f.type = "auth" /\ f.seq = 1 /\ Added(sky.sta, sky'.sta, f)
    BY <2>1
  <2>3. WereOr(sky.ap, sky'.ap, f) /\ WereOr(sky.sta, sky'.sta, f)
    BY <2>1, <2>2, AddedWere, DroppedWere, WereThen
  <2>4. Past(f)'
    BY <2>2 DEF Past, IsConfirm, Keyed
  <2> QED
    BY <2>1, <2>3, <2>4, PastsGrow DEF Early, Unkeyed
<1>9. CASE ApConfirms
  <2>1. /\ UNCHANGED <<sta, sess>> /\ Dropped(sky.ap, sky'.ap) /\ IsConfirm(sky.ap[1]) /\ peer'.ptk = peer.ptk
        /\ \/ \E f : IsConfirm(f) /\ f.body = sky.ap[1].body /\ Added(sky.sta, sky'.sta, f)
           \/ sky'.sta = sky.sta
    BY <1>9, ApConfirmsDoes
  <2>2. CASE sky'.sta = sky.sta
    BY <1>s, <2>1, <2>2, DroppedWere, PastsStay DEF Early, Unkeyed
  <2>3. CASE \E f : IsConfirm(f) /\ f.body = sky.ap[1].body /\ Added(sky.sta, sky'.sta, f)
    <3>1. PICK f : IsConfirm(f) /\ f.body = sky.ap[1].body /\ Added(sky.sta, sky'.sta, f)
      BY <2>3
    <3>2. WereOr(sky.ap, sky'.ap, f) /\ WereOr(sky.sta, sky'.sta, f)
      BY <2>1, <3>1, AddedWere, DroppedWere, WereThen
    <3>3. 1 \in 1 .. Len(sky.ap)
      BY <2>1 DEF Dropped
    <3>4. Past(sky.ap[1])
      BY <3>3 DEF Pasts
    <3>5. Past(f)'
      BY <2>1, <3>1, <3>4 DEF Past, IsConfirm, Keyed, Early
    <3> QED
      BY <2>1, <3>2, <3>5, PastsGrow DEF Early, Unkeyed
  <2> QED
    BY <2>1, <2>2, <2>3
<1>10. CASE ApStarts
  <2>1. /\ UNCHANGED <<sta, sess>> /\ peer'.ptk = None /\ sky'.ap = sky.ap
        /\ \E f : f.type = "m1" /\ Added(sky.sta, sky'.sta, f)
    BY <1>10, ApStartsDoes
  <2>2. PICK f : f.type = "m1" /\ Added(sky.sta, sky'.sta, f)
    BY <2>1
  <2>3. WereOr(sky.ap, sky'.ap, f) /\ WereOr(sky.sta, sky'.sta, f)
    BY <2>1, <2>2, AddedWere, WereSame
  <2>4. Past(f)'
    BY <2>2 DEF Past, IsConfirm, Keyed
  <2> QED
    BY <2>1, <2>3, <2>4, PastsGrow DEF Early, Unkeyed
<1>11. CASE ApSendsM3
  <2>1. /\ UNCHANGED <<sta, sess>> /\ Dropped(sky.ap, sky'.ap) /\ sky.ap[1].type = "m2"
        /\ \/ /\ peer'.ptk = sky.ap[1].mic
              /\ \E f : f.type = "m3" /\ f.mic = peer'.ptk /\ Added(sky.sta, sky'.sta, f)
           \/ peer' = peer /\ sky'.sta = sky.sta
    BY <1>11, ApSendsM3Does
  <2>2. CASE peer' = peer /\ sky'.sta = sky.sta
    BY <1>s, <2>1, <2>2, DroppedWere, PastsStay DEF Early, Unkeyed
  <2>3. CASE /\ peer'.ptk = sky.ap[1].mic
             /\ \E f : f.type = "m3" /\ f.mic = peer'.ptk /\ Added(sky.sta, sky'.sta, f)
    <3>1. PICK f : f.type = "m3" /\ f.mic = sky.ap[1].mic /\ Added(sky.sta, sky'.sta, f)
      BY <2>3
    <3>2. WereOr(sky.ap, sky'.ap, f) /\ WereOr(sky.sta, sky'.sta, f)
      BY <2>1, <3>1, AddedWere, DroppedWere, WereThen
    <3>3. 1 \in 1 .. Len(sky.ap) /\ Keyed(sky.ap[1])
      BY <2>1 DEF Dropped, Keyed
    <3>4. Past(sky.ap[1])
      BY <3>3 DEF Pasts
    <3>5. peer'.ptk[1][1] <= sess.own /\ (Unkeyed => peer'.ptk[1][1] # sess.own)
      BY <2>3, <3>3, <3>4 DEF Past, OwnKey
    <3>6. Past(f)'
      BY <2>1, <2>3, <3>1, <3>5 DEF Past, IsConfirm, Keyed, Unkeyed, OwnKey
    <3> QED
      BY <2>1, <3>2, <3>5, <3>6, PastsGrow DEF Early, Unkeyed
  <2> QED
    BY <2>1, <2>2, <2>3
<1>12. CASE ApRepeats
  <2>1. peer.ptk # None
    BY <1>12 DEF ApRepeats, Handshake, Offered
  <2>2. /\ UNCHANGED <<sta, sess>> /\ peer'.ptk = peer.ptk /\ sky'.ap = sky.ap
        /\ \E f : f.type = "m3" /\ f.mic = peer.ptk /\ Added(sky.sta, sky'.sta, f)
    BY <1>12, <2>1, ApRepeatsDoes
  <2>3. PICK f : f.type = "m3" /\ f.mic = peer.ptk /\ Added(sky.sta, sky'.sta, f)
    BY <2>2
  <2>4. WereOr(sky.ap, sky'.ap, f) /\ WereOr(sky.sta, sky'.sta, f)
    BY <2>2, <2>3, AddedWere, WereSame
  <2>5. Past(f)'
    BY <2>1, <2>2, <2>3 DEF Pasts, Past, IsConfirm, Keyed, Unkeyed, OwnKey
  <2> QED
    BY <2>2, <2>4, <2>5, PastsGrow DEF Early, Unkeyed
<1>13. CASE ApDone
  <2>1. UNCHANGED <<sta, sess>> /\ peer'.ptk = peer.ptk /\ Dropped(sky.ap, sky'.ap) /\ sky'.sta = sky.sta
    BY <1>13, ApDoneDoes
  <2> QED
    BY <1>s, <2>1, DroppedWere, PastsStay DEF Early, Unkeyed
<1>14. CASE ApCalms
  <2>1. UNCHANGED <<sta, sess, sky>> /\ peer'.ptk = peer.ptk
    BY <1>14, ApCalmsDoes
  <2> QED
    BY <1>s, <2>1, PastsStay DEF Early, Unkeyed
<1>15. CASE Lose
  <2>1. /\ UNCHANGED <<sta, sess, peer>>
        /\ \/ sky'.sta = sky.sta /\ Dropped(sky.ap, sky'.ap)
           \/ sky'.ap = sky.ap /\ Dropped(sky.sta, sky'.sta)
    BY <1>15, LoseDoes
  <2> QED
    BY <1>s, <2>1, DroppedWere, PastsStay DEF Early, Unkeyed
<1> QED
  BY <1>1, <1>2, <1>3, <1>4, <1>5, <1>6, <1>7, <1>8, <1>9, <1>10, <1>11, <1>12, <1>13, <1>14, <1>15 DEF Next
-----------------------------------------------------------------------------
(***************************************************************************)
(* SAE.                                                                    *)
(***************************************************************************)
\* What is on its way stays in order.
Follows(s, t, f) ==
  \E k \in {0, 1} : \A i \in 1 .. Len(t) : (i = Len(t) /\ t[i] = f) \/ (i + k \in 1 .. Len(s) /\ t[i] = s[i + k])

LEMMA DroppedFollows ==
  ASSUME NEW s, NEW t, NEW f, Dropped(s, t)
  PROVE  Follows(s, t, f)
<1>1. \A i \in 1 .. Len(t) : i + 1 \in 1 .. Len(s) /\ t[i] = s[i + 1]
  BY DEF Dropped
<1> QED
  BY <1>1 DEF Follows

LEMMA DroppedBoth ==
  ASSUME NEW s, NEW t, NEW f, Dropped(s, t)
  PROVE  WereOr(s, t, f) /\ Follows(s, t, f) /\ Len(t) \in Nat
<1>1. Len(t) \in Nat
  BY DEF Dropped
<1>2. Were(s, t)
  BY DroppedWere
<1>3. WereOr(s, t, f)
  BY <1>2, WereThen
<1>4. Follows(s, t, f)
  BY DroppedFollows
<1> QED
  BY <1>1, <1>3, <1>4

LEMMA AddedFollows ==
  ASSUME NEW s, NEW t, NEW f, Added(s, t, f)
  PROVE  Follows(s, t, f)
<1>1. \A i \in 1 .. Len(t) : (i = Len(t) /\ t[i] = f) \/ (i + 0 \in 1 .. Len(s) /\ t[i] = s[i + 0])
  BY DEF Added
<1> QED
  BY <1>1 DEF Follows

LEMMA SameFollows ==
  ASSUME NEW s, NEW f
  PROVE  Follows(s, s, f)
<1>1. \A i \in 1 .. Len(s) : i + 0 \in 1 .. Len(s) /\ s[i] = s[i + 0]
  OBVIOUS
<1> QED
  BY <1>1 DEF Follows

\* The order of commits and confirms survives every step that sends no commit.
LEMMA LastCommitStays ==
  ASSUME LastCommit, Len(sky'.ap) \in Nat, sess'.own = sess.own,
         NEW f, ~IsCommit(f), Follows(sky.ap, sky'.ap, f)
  PROVE  LastCommit'
<1> SUFFICES ASSUME NEW i \in 1 .. Len(sky'.ap), NEW j \in 1 .. Len(sky'.ap), i < j,
                    OwnConfirm(sky.ap[i])', IsCommit(sky'.ap[j])
             PROVE  FALSE
  BY DEF LastCommit, IsCommit
<1>1. PICK k \in {0, 1} : \A m \in 1 .. Len(sky'.ap) :
        (m = Len(sky'.ap) /\ sky'.ap[m] = f) \/ (m + k \in 1 .. Len(sky.ap) /\ sky'.ap[m] = sky.ap[m + k])
  BY DEF Follows
<1>2. i # Len(sky'.ap) /\ sky'.ap[j] # f
  OBVIOUS
<1>3. /\ i + k \in 1 .. Len(sky.ap) /\ sky'.ap[i] = sky.ap[i + k]
      /\ j + k \in 1 .. Len(sky.ap) /\ sky'.ap[j] = sky.ap[j + k] /\ i + k < j + k
  BY <1>1, <1>2
<1>4. OwnConfirm(sky.ap[i + k]) /\ IsCommit(sky.ap[j + k])
  BY <1>3 DEF OwnConfirm, IsConfirm, IsCommit
<1> QED
  BY <1>3, <1>4 DEF LastCommit

LEMMA NoCommitsStay ==
  ASSUME NoCommits, NEW f, ~IsCommit(f), WereOr(sky.ap, sky'.ap, f)
  PROVE  NoCommits'
BY DEF NoCommits, WereOr, IsCommit

LEMMA ConfirmationStays ==
  ASSUME Confirmation, sess'.own = sess.own, peer'.confirmed = peer.confirmed \/ peer'.confirmed,
         peer'.pmk = peer.pmk, NoCommits => NoCommits', NEW f,
         IsConfirm(f) /\ f.body[1] = sess.own => peer'.confirmed /\ peer.pmk = f.body /\ NoCommits',
         WereOr(sky.sta, sky'.sta, f)
  PROVE  Confirmation'
<1> SUFFICES ASSUME NEW i \in 1 .. Len(sky'.sta), OwnConfirm(sky.sta[i])'
             PROVE  peer'.confirmed /\ peer'.pmk = sky'.sta[i].body /\ NoCommits'
  BY DEF Confirmation
<1>1. CASE sky'.sta[i] = f
  BY <1>1 DEF OwnConfirm, IsConfirm
<1>2. CASE \E j \in 1 .. Len(sky.sta) : sky'.sta[i] = sky.sta[j]
  <2>1. PICK j \in 1 .. Len(sky.sta) : sky'.sta[i] = sky.sta[j]
    BY <1>2
  <2>2. OwnConfirm(sky.sta[j])
    BY <2>1 DEF OwnConfirm, IsConfirm
  <2> QED
    BY <2>1, <2>2 DEF Confirmation
<1> QED
  BY <1>1, <1>2 DEF WereOr

\* Every step of the access point and the air that answers no commit.
LEMMA SaeStays ==
  ASSUME Sae, Len(sky'.ap) \in Nat, UNCHANGED sess, Secured' => Secured, Mine',
         peer'.confirmed = peer.confirmed \/ peer'.confirmed, peer'.pmk = peer.pmk,
         NEW f, ~IsCommit(f), Follows(sky.ap, sky'.ap, f), WereOr(sky.ap, sky'.ap, f),
         NEW g, WereOr(sky.sta, sky'.sta, g),
         IsConfirm(g) /\ g.body[1] = sess.own => peer'.confirmed /\ peer.pmk = g.body /\ NoCommits'
  PROVE  Sae'
<1>1. NoCommits => NoCommits'
  BY NoCommitsStay
<1>2. LastCommit'
  BY LastCommitStays DEF Sae
<1>3. Confirmation'
  BY <1>1, ConfirmationStays DEF Sae
<1>4. Shared'
  BY <1>1 DEF Shared, Sae
<1> QED
  BY <1>2, <1>3, <1>4 DEF Sae

LEMMA SaeNext ==
  ASSUME EapolSizes, TypeOK, Pasts, Sae, Handshake, Next
  PROVE  Sae'
<1> DEFINE n == M1(0, 0)
<1>0. ~IsCommit(n) /\ ~IsConfirm(n)
  BY DEF M1, IsCommit, IsConfirm
<1> HIDE DEF n
<1>n. /\ sess.own \in Nat /\ Len(sky.ap) \in Nat
      /\ \A i \in 1 .. Len(sky.ap) : IsConfirm(sky.ap[i]) => sky.ap[i].body[1] \in Int
      /\ \A i \in 1 .. Len(sky.sta) : IsConfirm(sky.sta[i]) => sky.sta[i].body[1] \in Int
  BY Numbers
<1>s. WereOr(sky.ap, sky.ap, n) /\ WereOr(sky.sta, sky.sta, n) /\ Follows(sky.ap, sky.ap, n)
  BY WereSame, SameFollows
<1>d. /\ Dropped(sky.ap, sky'.ap) => WereOr(sky.ap, sky'.ap, n) /\ Follows(sky.ap, sky'.ap, n) /\ Len(sky'.ap) \in Nat
      /\ Dropped(sky.sta, sky'.sta) => WereOr(sky.sta, sky'.sta, n)
  BY DroppedBoth
<1>1. CASE Connect
  <2>1. sess'.own = sess.own + 1 /\ sta'.at = "commit" /\ sky' = sky
    BY <1>1, ConnectDoes
  <2>2. \A i \in 1 .. Len(sky.ap) : ~OwnConfirm(sky.ap[i])'
    BY <1>n, <2>1 DEF Pasts, Past, OwnConfirm, IsConfirm
  <2>3. \A i \in 1 .. Len(sky.sta) : ~OwnConfirm(sky.sta[i])'
    BY <1>n, <2>1 DEF Pasts, Past, OwnConfirm, IsConfirm
  <2> QED
    BY <2>1, <2>2, <2>3 DEF Sae, Mine, LastCommit, Confirmation, Shared, Secured
<1>2. CASE SendCommit
  <2>1. /\ sess' = sess /\ peer' = peer /\ sta.at = "commit" /\ sky'.sta = sky.sta
        /\ \/ sta'.at = "failed" /\ sky' = sky
           \/ sta'.at = "committed" /\ \E f : IsCommit(f) /\ Added(sky.ap, sky'.ap, f)
    BY <1>2, SendCommitDoes
  <2>2. Mine' /\ Shared'
    BY <2>1 DEF Mine, Shared, Secured
  <2>3. \A i \in 1 .. Len(sky.ap) : ~OwnConfirm(sky.ap[i])
    BY <2>1 DEF Pasts, Past, OwnConfirm, Early
  <2>4. \A i \in 1 .. Len(sky.sta) : ~OwnConfirm(sky.sta[i])
    BY <2>1 DEF Pasts, Past, OwnConfirm, Early
  <2>5. Confirmation'
    BY <2>1, <2>4 DEF Confirmation, OwnConfirm
  <2>6. LastCommit'
    <3>1. CASE sky' = sky
      BY <2>1, <3>1 DEF Sae, LastCommit, OwnConfirm
    <3>2. ASSUME NEW f, IsCommit(f), Added(sky.ap, sky'.ap, f) PROVE LastCommit'
      <4>1. ~OwnConfirm(f)
        BY <3>2 DEF IsCommit, OwnConfirm, IsConfirm
      <4>2. WereOr(sky.ap, sky'.ap, f)
        BY <3>2, AddedWere
      <4>3. \A i \in 1 .. Len(sky'.ap) : ~OwnConfirm(sky.ap[i])'
        BY <2>1, <2>3, <4>1, <4>2 DEF WereOr, OwnConfirm
      <4> QED
        BY <4>3 DEF LastCommit
    <3> QED
      BY <2>1, <3>1, <3>2
  <2> QED
    BY <2>2, <2>5, <2>6 DEF Sae
<1>3. CASE Committed
  <2>1. /\ peer' = peer /\ sta.at = "committed" /\ sess'.own = sess.own
        /\ sta'.at \in {"failed", "commit", "committed", "confirm"}
        /\ sta'.at = "confirm" => sess'.pmk # None /\ sess'.pmk[1] = sess.own
        /\ sky'.ap = sky.ap /\ Dropped(sky.sta, sky'.sta)
    BY <1>3, CommittedDoes
  <2>2. Mine' /\ Shared'
    BY <2>1 DEF Mine, Shared, Secured
  <2>3. NoCommits => NoCommits'
    BY <2>1 DEF NoCommits
  <2>4. Confirmation'
    BY <1>0, <1>d, <2>1, <2>3, ConfirmationStays DEF Sae
  <2>5. LastCommit'
    BY <1>0, <1>n, <1>s, <2>1, LastCommitStays DEF Sae
  <2> QED
    BY <2>2, <2>4, <2>5 DEF Sae
<1>4. CASE SendConfirm
  <2>1. sess.pmk # None /\ sess.pmk[1] = sess.own /\ sta.at = "confirm"
    BY <1>4 DEF SendConfirm, Sae, Mine
  <2>2. /\ sess' = sess /\ peer' = peer /\ sta'.at = "confirmed" /\ sky'.sta = sky.sta
        /\ \E f : IsConfirm(f) /\ f.body = sess.pmk /\ Added(sky.ap, sky'.ap, f)
    BY <1>4, <2>1, SendConfirmDoes
  <2>3. PICK f : IsConfirm(f) /\ Added(sky.ap, sky'.ap, f)
    BY <2>2
  <2>4. ~IsCommit(f)
    BY <2>3 DEF IsConfirm, IsCommit
  <2>5. Follows(sky.ap, sky'.ap, f) /\ WereOr(sky.ap, sky'.ap, f) /\ Len(sky'.ap) \in Nat
    <3>1. Len(sky'.ap) \in Nat
      BY <2>3 DEF Added
    <3>2. Follows(sky.ap, sky'.ap, f)
      BY <2>3, AddedFollows
    <3>3. WereOr(sky.ap, sky'.ap, f)
      BY <2>3, AddedWere
    <3> QED
      BY <3>1, <3>2, <3>3
  <2>6. Mine' /\ (Secured' => Secured)
    BY <2>1, <2>2 DEF Mine, Secured
  <2> QED
    BY <1>0, <1>s, <2>2, <2>4, <2>5, <2>6, SaeStays
<1>5. CASE Confirmed
  <2>1. /\ sess' = sess /\ peer' = peer /\ sta.at = "confirmed"
        /\ sky'.ap = sky.ap /\ Dropped(sky.sta, sky'.sta)
        /\ \/ sta'.at \in {"confirmed", "failed"}
           \/ /\ sta'.at = "handshake"
              /\ IsConfirm(sky.sta[1]) /\ sky.sta[1].body = sess.pmk
    BY <1>5, ConfirmedDoes
  <2>2. Mine'
    BY <2>1 DEF Sae, Mine
  <2>3. NoCommits => NoCommits'
    BY <2>1 DEF NoCommits
  <2>4. Confirmation'
    BY <1>0, <1>d, <2>1, <2>3, ConfirmationStays DEF Sae
  <2>5. LastCommit'
    BY <1>0, <1>n, <1>s, <2>1, LastCommitStays DEF Sae
  <2>6. Shared'
    <3>1. CASE sta'.at \in {"confirmed", "failed"}
      BY <3>1 DEF Shared, Secured
    <3>2. CASE IsConfirm(sky.sta[1]) /\ sky.sta[1].body = sess.pmk
      <4>1. 1 \in 1 .. Len(sky.sta)
        BY <2>1 DEF Dropped
      <4>2. OwnConfirm(sky.sta[1])
        BY <2>1, <3>2 DEF OwnConfirm, Sae, Mine
      <4>3. peer.confirmed /\ peer.pmk = sess.pmk /\ NoCommits
        BY <3>2, <4>1, <4>2 DEF Sae, Confirmation
      <4> QED
        BY <2>1, <2>3, <4>3 DEF Shared
    <3> QED
      BY <2>1, <3>1, <3>2
  <2> QED
    BY <2>2, <2>4, <2>5, <2>6 DEF Sae
<1>6. CASE OnFrame
  <2>1. sess.pmk # None /\ sta.at = "handshake"
    BY <1>6 DEF OnFrame, Sae, Mine
  <2>2. /\ sess' = sess /\ peer' = peer /\ Dropped(sky.sta, sky'.sta) /\ sta'.at \in {"handshake", "up"}
        /\ \/ sky'.ap = sky.ap
           \/ \E f : f.type \in {"m2", "m4"} /\ Added(sky.ap, sky'.ap, f)
    BY <1>6, <2>1, OnFrameDoes
  <2>3. Mine' /\ (Secured' => Secured)
    BY <2>1, <2>2 DEF Mine, Sae, Secured
  <2>4. CASE sky'.ap = sky.ap
    BY <1>0, <1>n, <1>s, <1>d, <2>2, <2>3, <2>4, SaeStays
  <2>5. ASSUME NEW f, f.type \in {"m2", "m4"}, Added(sky.ap, sky'.ap, f) PROVE Sae'
    <3>1. ~IsCommit(f)
      BY <2>5 DEF IsCommit
    <3>2. Follows(sky.ap, sky'.ap, f) /\ WereOr(sky.ap, sky'.ap, f)
      BY <2>5, AddedFollows, AddedWere
    <3>3. Len(sky'.ap) \in Nat
      BY <2>5 DEF Added
    <3> QED
      BY <1>0, <1>d, <2>2, <2>3, <3>1, <3>2, <3>3, SaeStays
  <2> QED
    BY <2>2, <2>4, <2>5
<1>7. CASE Timeout \/ TxFails
  <2>1. UNCHANGED <<sess, peer, sky>> /\ (sta'.at = "failed" \/ (sta.at = "committed" /\ sta'.at = "commit"))
    BY <1>7, TimeoutDoes, TxFailsDoes
  <2>2. Mine' /\ (Secured' => Secured)
    BY <2>1 DEF Mine, Secured
  <2> QED
    BY <1>0, <1>n, <1>s, <2>1, <2>2, SaeStays
<1>8. CASE ApCommits
  <2>1. /\ sta' = sta /\ sess' = sess /\ IsCommit(sky.ap[1]) /\ Dropped(sky.ap, sky'.ap)
        /\ \E f : f.type = "auth" /\ f.seq = 1 /\ Added(sky.sta, sky'.sta, f)
    BY <1>8, ApCommitsDoes
  <2>2. PICK f : f.type = "auth" /\ f.seq = 1 /\ Added(sky.sta, sky'.sta, f)
    BY <2>1
  <2>3. ~NoCommits
    BY <2>1 DEF NoCommits, Dropped
  <2>4. \A i \in 1 .. Len(sky.sta) : ~OwnConfirm(sky.sta[i])
    BY <2>3 DEF Sae, Confirmation
  <2>5. ~OwnConfirm(f) /\ WereOr(sky.sta, sky'.sta, f)
    BY <2>2, AddedWere DEF OwnConfirm, IsConfirm
  <2>6. \A i \in 1 .. Len(sky'.sta) : ~OwnConfirm(sky.sta[i])'
    BY <2>1, <2>4, <2>5 DEF WereOr, OwnConfirm
  <2>7. Confirmation'
    BY <2>6 DEF Confirmation
  <2>8. LastCommit'
    BY <1>0, <1>d, <2>1, LastCommitStays DEF Sae
  <2>9. Mine' /\ Shared'
    BY <2>1, <2>3 DEF Sae, Mine, Shared, Secured
  <2> QED
    BY <2>7, <2>8, <2>9 DEF Sae
<1>9. CASE ApConfirms
  <2>1. /\ sta' = sta /\ sess' = sess /\ Dropped(sky.ap, sky'.ap) /\ IsConfirm(sky.ap[1])
        /\ \/ /\ sky.ap[1].body = peer.pmk /\ peer'.pmk = peer.pmk /\ peer'.confirmed
              /\ \E f : IsConfirm(f) /\ f.body = peer.pmk /\ Added(sky.sta, sky'.sta, f)
           \/ peer' = peer /\ sky'.sta = sky.sta
    BY <1>9, ApConfirmsDoes
  <2>2. Mine' /\ (Secured' => Secured)
    BY <2>1 DEF Sae, Mine, Secured
  <2>3. CASE peer' = peer /\ sky'.sta = sky.sta
    BY <1>0, <1>s, <1>d, <2>1, <2>2, <2>3, SaeStays
  <2>4. CASE /\ sky.ap[1].body = peer.pmk /\ peer'.pmk = peer.pmk /\ peer'.confirmed
             /\ \E f : IsConfirm(f) /\ f.body = peer.pmk /\ Added(sky.sta, sky'.sta, f)
    <3>1. PICK f : IsConfirm(f) /\ f.body = peer.pmk /\ Added(sky.sta, sky'.sta, f)
      BY <2>4
    <3>2. f.body[1] = sess.own => NoCommits'
      <4> SUFFICES ASSUME f.body[1] = sess.own, NEW i \in 1 .. Len(sky'.ap) PROVE ~IsCommit(sky'.ap[i])
        BY DEF NoCommits, IsCommit
      <4>1. 1 \in 1 .. Len(sky.ap) /\ i + 1 \in 1 .. Len(sky.ap) /\ 1 < i + 1 /\ sky'.ap[i] = sky.ap[i + 1]
        BY <2>1 DEF Dropped
      <4>2. OwnConfirm(sky.ap[1])
        BY <2>1, <2>4, <3>1 DEF OwnConfirm
      <4>3. ~IsCommit(sky.ap[i + 1])
        BY <4>1, <4>2 DEF Sae, LastCommit
      <4> QED
        BY <4>1, <4>3
    <3>3. WereOr(sky.sta, sky'.sta, f)
      BY <3>1, AddedWere
    <3> QED
      BY <1>0, <1>d, <2>1, <2>2, <2>4, <3>1, <3>2, <3>3, SaeStays
  <2> QED
    BY <2>1, <2>3, <2>4
<1>10. CASE ApStarts \/ ApSendsM3 \/ ApRepeats
  <2>1. peer.stage = "m3" => peer.ptk # None
    BY DEF Handshake, Offered
  <2>2. ApRepeats => peer.ptk # None
    BY <2>1 DEF ApRepeats
  <2>3. /\ sta' = sta /\ sess' = sess /\ peer'.confirmed = peer.confirmed /\ peer'.pmk = peer.pmk
        /\ (sky'.ap = sky.ap \/ Dropped(sky.ap, sky'.ap))
        /\ \/ sky'.sta = sky.sta
           \/ \E f : f.type \in {"m1", "m3"} /\ Added(sky.sta, sky'.sta, f)
    BY <1>10, <2>2, ApStartsDoes, ApSendsM3Does, ApRepeatsDoes
  <2>4. Mine' /\ (Secured' => Secured)
    BY <2>3 DEF Sae, Mine, Secured
  <2>5. WereOr(sky.ap, sky'.ap, n) /\ Follows(sky.ap, sky'.ap, n) /\ Len(sky'.ap) \in Nat
    BY <1>n, <1>s, <1>d, <2>3
  <2>6. CASE sky'.sta = sky.sta
    BY <1>0, <1>s, <2>3, <2>4, <2>5, <2>6, SaeStays
  <2>7. ASSUME NEW f, f.type \in {"m1", "m3"}, Added(sky.sta, sky'.sta, f) PROVE Sae'
    <3>1. ~IsConfirm(f) /\ WereOr(sky.sta, sky'.sta, f)
      BY <2>7, AddedWere DEF IsConfirm
    <3> QED
      BY <1>0, <2>3, <2>4, <2>5, <3>1, SaeStays
  <2> QED
    BY <2>3, <2>6, <2>7
<1>11. CASE ApDone \/ ApCalms \/ Lose
  <2>1. /\ sta' = sta /\ sess' = sess /\ peer'.confirmed = peer.confirmed /\ peer'.pmk = peer.pmk
        /\ (sky'.ap = sky.ap \/ Dropped(sky.ap, sky'.ap))
        /\ (sky'.sta = sky.sta \/ Dropped(sky.sta, sky'.sta))
    BY <1>11, ApDoneDoes, ApCalmsDoes, LoseDoes
  <2>2. Mine' /\ (Secured' => Secured)
    BY <2>1 DEF Sae, Mine, Secured
  <2>3. /\ WereOr(sky.ap, sky'.ap, n) /\ Follows(sky.ap, sky'.ap, n) /\ Len(sky'.ap) \in Nat
        /\ WereOr(sky.sta, sky'.sta, n)
    BY <1>n, <1>s, <1>d, <2>1
  <2> QED
    BY <1>0, <2>1, <2>2, <2>3, SaeStays
<1> QED
  BY <1>1, <1>2, <1>3, <1>4, <1>5, <1>6, <1>7, <1>8, <1>9, <1>10, <1>11 DEF Next
-----------------------------------------------------------------------------
(***************************************************************************)
(* The handshake.                                                          *)
(***************************************************************************)
LEMMA NoncesStay ==
  ASSUME Nonces, NEW f, f.type = "m2" => f.mic[3] = f.snonce, WereOr(sky.ap, sky'.ap, f)
  PROVE  Nonces'
<1> SUFFICES ASSUME NEW i \in 1 .. Len(sky'.ap), sky'.ap[i].type = "m2"
             PROVE  sky'.ap[i].mic[3] = sky'.ap[i].snonce
  BY DEF Nonces
<1>1. CASE sky'.ap[i] = f
  BY <1>1
<1>2. CASE \E j \in 1 .. Len(sky.ap) : sky'.ap[i] = sky.ap[j]
  BY <1>2 DEF Nonces
<1> QED
  BY <1>1, <1>2 DEF WereOr

\* Every step that sends no handshake frame, for a station that stays in its handshake or leaves it.
LEMMA HandshakeStays ==
  ASSUME Handshake, Len(sky'.ap) \in Nat, sess' = sess, sta' = sta,
         supp'.ptk = supp.ptk, supp'.snonce = supp.snonce, sta.at = "up" => supp' = supp,
         peer'.ptk = peer.ptk, peer'.pmk = peer.pmk, peer'.stage = peer.stage,
         NEW f, ~Keyed(f), Follows(sky.ap, sky'.ap, f), WereOr(sky.ap, sky'.ap, f), WereOr(sky.sta, sky'.sta, f)
  PROVE  Handshake'
<1>1. Nonces' /\ Offered' /\ Installed'
  BY NoncesStay DEF Handshake, Offered, Installed, Keyed
<1>2. ASSUME NEW i \in 1 .. Len(sky'.ap), OwnKeyed(sky.ap[i])'
      PROVE  \E j \in 1 .. Len(sky.ap) : sky'.ap[i] = sky.ap[j] /\ OwnKeyed(sky.ap[j])
  BY <1>2 DEF WereOr, OwnKeyed, OwnKey, Keyed
<1>3. ASSUME NEW i \in 1 .. Len(sky'.sta), OwnKeyed(sky.sta[i])'
      PROVE  \E j \in 1 .. Len(sky.sta) : sky'.sta[i] = sky.sta[j] /\ OwnKeyed(sky.sta[j])
  BY <1>3 DEF WereOr, OwnKeyed, OwnKey, Keyed
<1>4. Bounded => Bounded'
  BY <1>2, <1>3 DEF Bounded, OwnKey
<1>5. NoOwnM2 => NoOwnM2'
  <2> SUFFICES ASSUME NoOwnM2, NEW i \in 1 .. Len(sky'.ap), OwnM2(sky.ap[i])' PROVE FALSE
    BY DEF NoOwnM2
  <2>1. OwnKeyed(sky.ap[i])'
    BY DEF OwnM2, OwnKeyed, Keyed
  <2> QED
    BY <1>2, <2>1 DEF NoOwnM2, OwnM2, OwnKeyed, OwnKey
<1>6. Latest => Latest'
  <2> SUFFICES ASSUME Latest PROVE Latest'
    OBVIOUS
  <2>1. ASSUME NEW i \in 1 .. Len(sky'.ap), NEW j \in 1 .. Len(sky'.ap), i < j,
               OwnM2(sky.ap[i])', sky'.ap[i].mic[3] = supp.snonce, OwnM2(sky.ap[j])'
        PROVE  FALSE
    <3>1. PICK k \in {0, 1} : \A m \in 1 .. Len(sky'.ap) :
            (m = Len(sky'.ap) /\ sky'.ap[m] = f) \/ (m + k \in 1 .. Len(sky.ap) /\ sky'.ap[m] = sky.ap[m + k])
      BY DEF Follows
    <3>2. sky'.ap[i] # f /\ sky'.ap[j] # f
      BY <2>1 DEF OwnM2, Keyed
    <3>3. /\ i + k \in 1 .. Len(sky.ap) /\ sky'.ap[i] = sky.ap[i + k]
          /\ j + k \in 1 .. Len(sky.ap) /\ sky'.ap[j] = sky.ap[j + k] /\ i + k < j + k
      BY <2>1, <3>1, <3>2
    <3>4. OwnM2(sky.ap[i + k]) /\ OwnM2(sky.ap[j + k]) /\ sky.ap[i + k].mic[3] = supp.snonce
      BY <2>1, <3>3 DEF OwnM2, OwnKey
    <3> QED
      BY <3>3, <3>4 DEF Latest
  <2>2. ASSUME NEW i \in 1 .. Len(sky'.sta), OwnKeyed(sky.sta[i])', sky'.sta[i].mic[3] = supp.snonce
        PROVE  peer'.ptk = sky'.sta[i].mic
    BY <1>3, <2>2 DEF Latest
  <2>3. peer'.ptk # None /\ OwnKey(peer.ptk)' /\ peer'.ptk[3] = supp.snonce => NoOwnM2'
    BY <1>5 DEF Latest, OwnKey
  <2> QED
    BY <2>1, <2>2, <2>3 DEF Latest
<1>7. Awaited => Awaited'
  <2> SUFFICES ASSUME Awaited, sta.at = "handshake" PROVE Awaited'
    BY DEF Awaited
  <2>1. ASSUME NEW i \in 1 .. Len(sky'.sta), OwnKeyed(sky.sta[i])' PROVE peer'.stage = "m3"
    BY <1>3, <2>1 DEF Awaited
  <2>2. ASSUME NEW i \in 1 .. Len(sky'.ap), sky'.ap[i].type = "m4", OwnKey(sky.ap[i].mic)' PROVE FALSE
    <3>1. OwnKeyed(sky.ap[i])'
      BY <2>2 DEF OwnKeyed, Keyed
    <3> QED
      BY <1>2, <2>2, <3>1 DEF Awaited, OwnKeyed, OwnKey
  <2> QED
    BY <2>1, <2>2 DEF Awaited
<1> QED
  BY <1>1, <1>4, <1>6, <1>7 DEF Handshake, Secured

\* A station that is not secured has nothing to keep.
LEMMA HandshakeIdle ==
  ASSUME Handshake, ~Secured', peer'.stage = "m3" => peer' = peer,
         NEW f, ~Keyed(f), WereOr(sky.ap, sky'.ap, f)
  PROVE  Handshake'
<1>1. Nonces'
  BY NoncesStay DEF Handshake, Keyed
<1> QED
  BY <1>1 DEF Handshake, Offered, Installed, Secured

LEMMA HandshakeBegins ==
  ASSUME TypeOK, Pasts, Sae, Handshake, sta.at = "confirmed", sta'.at = "handshake", sess' = sess,
         peer' = peer, supp'.ptk = None, sky'.ap = sky.ap, Dropped(sky.sta, sky'.sta)
  PROVE  Handshake'
<1>1. Nonces' /\ Offered' /\ Installed'
  BY DEF Handshake, Nonces, Offered, Installed
<1>2. \A i \in 1 .. Len(sky'.ap) : ~OwnKeyed(sky.ap[i])'
  BY DEF Pasts, Past, Unkeyed, OwnKeyed, OwnKey
<1>3. \A i \in 1 .. Len(sky'.sta) : ~OwnKeyed(sky.sta[i])'
  <2>1. Were(sky.sta, sky'.sta)
    BY DroppedWere
  <2> QED
    BY <2>1 DEF Pasts, Past, Unkeyed, OwnKeyed, OwnKey, Were
<1>4. ~(peer'.ptk # None /\ OwnKey(peer.ptk)')
  BY DEF Pasts, Unkeyed, OwnKey
<1>5. Bounded'
  BY <1>2, <1>3, <1>4 DEF Bounded
<1>6. Latest'
  BY <1>2, <1>3, <1>4 DEF Latest, OwnM2, OwnKeyed, Keyed
<1>7. Awaited'
  BY <1>2, <1>3 DEF Awaited, OwnKeyed, Keyed
<1> QED
  BY <1>1, <1>5, <1>6, <1>7 DEF Handshake

LEMMA OnM1Keeps ==
  ASSUME TypeOK, Sae, Handshake, sta.at = "handshake", sta' = sta, sess' = sess, peer' = peer,
         supp'.snonce = supp.snonce + 1, supp'.ptk # None,
         supp'.ptk[1] = sess.pmk, supp'.ptk[3] = supp'.snonce,
         NEW f, f.type = "m2", f.mic = supp'.ptk, f.snonce = supp'.snonce, Added(sky.ap, sky'.ap, f),
         Dropped(sky.sta, sky'.sta)
  PROVE  Handshake'
<1>1. supp.snonce \in Int /\ Len(sky.ap) \in Nat /\ Len(sky'.ap) = Len(sky.ap) + 1
      /\ (\A i \in 1 .. Len(sky.ap) : Keyed(sky.ap[i]) => sky.ap[i].mic[3] \in Int)
      /\ (\A i \in 1 .. Len(sky.sta) : Keyed(sky.sta[i]) => sky.sta[i].mic[3] \in Int)
      /\ (peer.ptk # None => peer.ptk[3] \in Int)
  BY Numbers DEF Added
<1>2. Bounded /\ Awaited
  BY DEF Handshake, Secured
<1>3. /\ \A i \in 1 .. Len(sky.ap) : sky'.ap[i] = sky.ap[i]
      /\ sky'.ap[Len(sky.ap) + 1] = f
      /\ \A i \in 1 .. Len(sky'.ap) : i \in 1 .. Len(sky.ap) \/ i = Len(sky.ap) + 1
  BY <1>1 DEF Added
<1>4. Were(sky.sta, sky'.sta) /\ WereOr(sky.ap, sky'.ap, f)
  BY DroppedWere, AddedWere
<1>5. Nonces' /\ Offered' /\ Installed'
  BY <1>4, NoncesStay DEF Handshake, Offered, Installed
<1>6. ASSUME NEW i \in 1 .. Len(sky'.sta), OwnKeyed(sky.sta[i])'
      PROVE  sky'.sta[i].mic[3] <= supp.snonce /\ sky'.sta[i].mic[3] \in Int /\ peer.stage = "m3"
  BY <1>1, <1>2, <1>4, <1>6 DEF Were, OwnKeyed, OwnKey, Bounded, Awaited
<1>7. ASSUME NEW i \in 1 .. Len(sky.ap), OwnKeyed(sky.ap[i])'
      PROVE  sky'.ap[i].mic[3] <= supp.snonce /\ sky'.ap[i].mic[3] \in Int
  BY <1>1, <1>2, <1>3, <1>7 DEF OwnKeyed, OwnKey, Bounded
<1>8. peer'.ptk # None /\ OwnKey(peer.ptk)' => peer'.ptk[3] <= supp.snonce /\ peer'.ptk[3] \in Int
  BY <1>1, <1>2 DEF Bounded, OwnKey
<1>9. Bounded'
  <2>1. \A i \in 1 .. Len(sky'.sta) : OwnKeyed(sky.sta[i])' => sky'.sta[i].mic[3] <= supp'.snonce
    BY <1>1, <1>6
  <2>2. ASSUME NEW i \in 1 .. Len(sky'.ap), OwnKeyed(sky.ap[i])' PROVE sky'.ap[i].mic[3] <= supp'.snonce
    <3>1. CASE i \in 1 .. Len(sky.ap)
      BY <1>1, <1>7, <2>2, <3>1
    <3>2. CASE i = Len(sky.ap) + 1
      BY <1>1, <1>3, <2>2, <3>2
    <3> QED
      BY <1>3, <3>1, <3>2
  <2>3. peer'.ptk # None /\ OwnKey(peer.ptk)' => peer'.ptk[3] <= supp'.snonce
    BY <1>1, <1>8
  <2> QED
    BY <2>1, <2>2, <2>3 DEF Bounded
<1>10. Latest'
  <2>1. ASSUME NEW i \in 1 .. Len(sky'.ap), NEW j \in 1 .. Len(sky'.ap), i < j,
               OwnM2(sky.ap[i])', sky'.ap[i].mic[3] = supp'.snonce
        PROVE  FALSE
    <3>1. i \in 1 .. Len(sky.ap)
      BY <1>1, <2>1
    <3>2. OwnKeyed(sky.ap[i])'
      BY <2>1 DEF OwnM2, OwnKeyed, Keyed
    <3> QED
      BY <1>1, <1>7, <2>1, <3>1, <3>2
  <2>2. ~(peer'.ptk # None /\ OwnKey(peer.ptk)' /\ peer'.ptk[3] = supp'.snonce)
    BY <1>1, <1>8
  <2>3. \A i \in 1 .. Len(sky'.sta) : ~(OwnKeyed(sky.sta[i])' /\ sky'.sta[i].mic[3] = supp'.snonce)
    BY <1>1, <1>6
  <2> QED
    BY <2>1, <2>2, <2>3 DEF Latest
<1>11. Awaited'
  <2>1. \A i \in 1 .. Len(sky'.sta) : OwnKeyed(sky.sta[i])' => peer'.stage = "m3"
    BY <1>6
  <2>2. \A i \in 1 .. Len(sky'.ap) : ~(sky'.ap[i].type = "m4" /\ OwnKey(sky.ap[i].mic)')
    BY <1>2, <1>3 DEF Awaited, OwnKey
  <2> QED
    BY <2>1, <2>2 DEF Awaited
<1> QED
  BY <1>5, <1>9, <1>10, <1>11 DEF Handshake

LEMMA OnM3Keeps ==
  ASSUME TypeOK, Sae, Handshake, sta.at = "handshake", sta'.at = "up", sess' = sess, peer' = peer,
         supp.ptk # None, supp'.ptk = supp.ptk, supp'.snonce = supp.snonce, supp'.group.gtk # None,
         sky.sta[1].type = "m3", sky.sta[1].mic = supp.ptk,
         NEW f, f.type = "m4", f.mic = supp.ptk, Added(sky.ap, sky'.ap, f), Dropped(sky.sta, sky'.sta)
  PROVE  Handshake'
<1>1. supp.snonce \in Int /\ Len(sky.ap) \in Nat /\ Len(sky'.ap) = Len(sky.ap) + 1
  BY Numbers DEF Added
<1>2. Bounded /\ Latest /\ sess.pmk[1] = sess.own
  BY DEF Handshake, Secured, Sae, Mine
<1>3. /\ \A i \in 1 .. Len(sky.ap) : sky'.ap[i] = sky.ap[i]
      /\ sky'.ap[Len(sky.ap) + 1] = f
      /\ \A i \in 1 .. Len(sky'.ap) : i \in 1 .. Len(sky.ap) \/ i = Len(sky.ap) + 1
  BY <1>1 DEF Added
<1>4. Were(sky.sta, sky'.sta) /\ WereOr(sky.ap, sky'.ap, f)
  BY DroppedWere, AddedWere
<1>5. Nonces' /\ Offered'
  BY <1>4, NoncesStay DEF Handshake, Offered
<1>6. supp.ptk[3] = supp.snonce /\ supp.ptk[1][1] = sess.own
  BY <1>2 DEF Bounded
<1>7. peer.ptk = supp.ptk
  <2>1. 1 \in 1 .. Len(sky.sta) /\ OwnKeyed(sky.sta[1])
    BY <1>6 DEF Dropped, OwnKeyed, OwnKey, Keyed
  <2> QED
    BY <1>2, <1>6, <2>1 DEF Latest
<1>8. Installed'
  BY <1>7 DEF Installed
<1>9. ASSUME NEW i \in 1 .. Len(sky'.sta), OwnKeyed(sky.sta[i])'
      PROVE  sky'.sta[i].mic[3] <= supp.snonce /\ (sky'.sta[i].mic[3] = supp.snonce => peer.ptk = sky'.sta[i].mic)
  BY <1>2, <1>4, <1>9 DEF Were, OwnKeyed, OwnKey, Bounded, Latest
<1>10. Bounded'
  <2>1. ASSUME NEW i \in 1 .. Len(sky'.ap), OwnKeyed(sky.ap[i])' PROVE sky'.ap[i].mic[3] <= supp'.snonce
    <3>1. CASE i \in 1 .. Len(sky.ap)
      <4>1. OwnKeyed(sky.ap[i])
        BY <1>3, <2>1, <3>1 DEF OwnKeyed, OwnKey
      <4> QED
        BY <1>2, <1>3, <3>1, <4>1 DEF Bounded
    <3>2. CASE i = Len(sky.ap) + 1
      BY <1>1, <1>3, <1>6, <3>2
    <3> QED
      BY <1>3, <3>1, <3>2
  <2>2. peer'.ptk # None /\ OwnKey(peer.ptk)' => peer'.ptk[3] <= supp'.snonce
    BY <1>2 DEF Bounded, OwnKey
  <2> QED
    BY <1>2, <1>9, <2>1, <2>2 DEF Bounded
<1>11. Latest'
  <2>1. ASSUME NEW i \in 1 .. Len(sky'.ap), NEW j \in 1 .. Len(sky'.ap), i < j,
               OwnM2(sky.ap[i])', sky'.ap[i].mic[3] = supp'.snonce, OwnM2(sky.ap[j])'
        PROVE  FALSE
    <3>1. i \in 1 .. Len(sky.ap)
      BY <1>1, <2>1
    <3>2. sky'.ap[j] # f
      BY <2>1 DEF OwnM2
    <3>3. j \in 1 .. Len(sky.ap)
      BY <1>3, <3>2
    <3>4. OwnM2(sky.ap[i]) /\ OwnM2(sky.ap[j]) /\ sky.ap[i].mic[3] = supp.snonce
      BY <1>3, <2>1, <3>1, <3>3 DEF OwnM2, OwnKey
    <3> QED
      BY <1>2, <2>1, <3>1, <3>3, <3>4 DEF Latest
  <2>2. NoOwnM2
    BY <1>2, <1>6, <1>7 DEF Latest, OwnKey
  <2>3. NoOwnM2'
    BY <1>3, <2>2 DEF NoOwnM2, OwnM2, OwnKey
  <2>4. \A i \in 1 .. Len(sky'.sta) :
          OwnKeyed(sky.sta[i])' /\ sky'.sta[i].mic[3] = supp'.snonce => peer'.ptk = sky'.sta[i].mic
    BY <1>9
  <2> QED
    BY <2>1, <2>3, <2>4 DEF Latest
<1>12. Awaited'
  BY DEF Awaited
<1> QED
  BY <1>5, <1>8, <1>10, <1>11, <1>12 DEF Handshake

LEMMA ApStartsKeeps ==
  ASSUME Handshake, sta.at = "handshake", sta' = sta, sess' = sess, supp' = supp, peer.stage # "m3",
         peer'.stage = "m1", peer'.ptk = None, sky'.ap = sky.ap,
         NEW f, f.type = "m1", WereOr(sky.sta, sky'.sta, f)
  PROVE  Handshake'
<1>1. Bounded /\ Latest /\ Awaited
  BY DEF Handshake, Secured
<1>2. \A i \in 1 .. Len(sky'.sta) : ~OwnKeyed(sky.sta[i])'
  BY <1>1 DEF Awaited, WereOr, OwnKeyed, OwnKey, Keyed
<1>3. Nonces' /\ Offered' /\ Installed'
  BY DEF Handshake, Nonces, Offered, Installed
<1>4. Bounded'
  BY <1>1, <1>2 DEF Bounded, OwnKeyed, OwnKey
<1>5. Latest'
  BY <1>1, <1>2 DEF Latest, OwnM2, OwnKey
<1>6. Awaited'
  BY <1>1, <1>2 DEF Awaited, OwnKey
<1> QED
  BY <1>3, <1>4, <1>5, <1>6 DEF Handshake

\* The access point takes the message 2 at the head of the queue.
LEMMA ApSendsM3Keeps ==
  ASSUME TypeOK, Sae, Handshake, UNCHANGED <<sta, sess, supp>>, Dropped(sky.ap, sky'.ap),
         sky.ap[1].type = "m2", sky.ap[1].mic # None, peer'.stage = "m3", peer'.pmk = peer.pmk,
         peer'.ptk = sky.ap[1].mic, peer'.ptk[1] = peer.pmk,
         NEW f, f.type = "m3", f.mic = peer'.ptk, Added(sky.sta, sky'.sta, f)
  PROVE  Handshake'
<1>1. /\ 1 \in 1 .. Len(sky.ap)
      /\ \A i \in 1 .. Len(sky'.ap) : i + 1 \in 1 .. Len(sky.ap) /\ 1 < i + 1 /\ sky'.ap[i] = sky.ap[i + 1]
  BY DEF Dropped
<1>2. WereOr(sky.sta, sky'.sta, f) /\ Were(sky.ap, sky'.ap)
  BY AddedWere, DroppedWere
<1>3. Nonces'
  BY <1>2 DEF Handshake, Nonces, Were
<1>4. Offered'
  BY DEF Offered
<1>5. CASE ~Secured
  BY <1>3, <1>4, <1>5 DEF Handshake, Secured, Installed
<1>6. CASE Secured
  <2>1. Bounded /\ Latest /\ Awaited /\ sess.pmk[1] = sess.own /\ peer.pmk = sess.pmk
    BY <1>6 DEF Handshake, Sae, Mine, Shared, Secured
  <2>2. OwnM2(sky.ap[1]) /\ OwnKeyed(sky.ap[1]) /\ OwnKey(peer.ptk)'
    BY <2>1 DEF OwnM2, OwnKeyed, OwnKey, Keyed
  <2>3. peer'.ptk[3] <= supp.snonce
    BY <1>1, <2>1, <2>2 DEF Bounded
  <2>4. peer'.ptk[3] = supp.snonce => NoOwnM2'
    <3> SUFFICES ASSUME peer'.ptk[3] = supp.snonce, NEW i \in 1 .. Len(sky'.ap), OwnM2(sky.ap[i])' PROVE FALSE
      BY DEF NoOwnM2
    <3>1. OwnM2(sky.ap[i + 1])
      BY <1>1 DEF OwnM2, OwnKey
    <3> QED
      BY <1>1, <2>1, <2>2, <3>1 DEF Latest
  <2>5. peer.ptk # None /\ OwnKey(peer.ptk) => peer.ptk[3] # supp.snonce
    BY <1>1, <2>1, <2>2 DEF Latest, NoOwnM2
  <2>6. ASSUME NEW i \in 1 .. Len(sky.sta), OwnKeyed(sky.sta[i])
        PROVE  sky.sta[i].mic[3] <= supp.snonce /\ sky.sta[i].mic[3] # supp.snonce
    <3>1. sky.sta[i].mic \in Ptk
      <4>1. sky.sta[i] \in StaFrames
        BY DEF TypeOK, Skies
      <4> QED
        BY <2>6, <4>1, StaFrameIs DEF OwnKeyed
    <3>2. sky.sta[i].mic # None
      BY <3>1, PtkIs
    <3> QED
      BY <2>1, <2>5, <2>6, <3>2 DEF Bounded, Latest, OwnKeyed
  <2>7. ASSUME NEW i \in 1 .. Len(sky'.sta), OwnKeyed(sky.sta[i])'
        PROVE  sky'.sta[i].mic[3] <= supp.snonce /\ (sky'.sta[i].mic[3] = supp.snonce => peer'.ptk = sky'.sta[i].mic)
    BY <1>2, <2>3, <2>6, <2>7 DEF WereOr, OwnKeyed, OwnKey
  <2>8. Bounded'
    <3>1. \A i \in 1 .. Len(sky'.ap) : OwnKeyed(sky.ap[i])' => sky'.ap[i].mic[3] <= supp.snonce
      BY <1>2, <2>1 DEF Bounded, Were, OwnKeyed, OwnKey
    <3> QED
      BY <2>1, <2>3, <2>7, <3>1 DEF Bounded
  <2>9. Latest'
    <3>1. ASSUME NEW i \in 1 .. Len(sky'.ap), NEW j \in 1 .. Len(sky'.ap), i < j,
                 OwnM2(sky.ap[i])', sky'.ap[i].mic[3] = supp'.snonce, OwnM2(sky.ap[j])'
          PROVE  FALSE
      <4>1. i + 1 \in 1 .. Len(sky.ap) /\ j + 1 \in 1 .. Len(sky.ap) /\ i + 1 < j + 1
        BY <1>1, <3>1
      <4>2. OwnM2(sky.ap[i + 1]) /\ OwnM2(sky.ap[j + 1]) /\ sky.ap[i + 1].mic[3] = supp.snonce
        BY <1>1, <3>1 DEF OwnM2, OwnKey
      <4> QED
        BY <2>1, <4>1, <4>2 DEF Latest
    <3> QED
      BY <2>4, <2>7, <3>1 DEF Latest
  <2>10. Awaited'
    BY <1>2, <2>1 DEF Awaited, Were, OwnKey
  <2>11. Installed'
    <3>1. sta.at # "up"
      <4> SUFFICES ASSUME sta.at = "up" PROVE FALSE
        OBVIOUS
      <4>1. supp.ptk # None /\ peer.ptk = supp.ptk
        BY DEF Handshake, Installed
      <4>2. supp.ptk[1] = sess.pmk /\ supp.ptk[3] = supp.snonce
        BY <2>1, <4>1 DEF Bounded
      <4> QED
        BY <2>1, <2>5, <4>1, <4>2 DEF OwnKey
    <3> QED
      BY <3>1 DEF Installed
  <2> QED
    BY <1>3, <1>4, <2>8, <2>9, <2>10, <2>11 DEF Handshake
<1> QED
  BY <1>5, <1>6

LEMMA ApRepeatsKeeps ==
  ASSUME Sae, Handshake, UNCHANGED <<sta, sess, supp>>, sky'.ap = sky.ap, peer.stage = "m3",
         peer'.stage = "m3", peer'.ptk = peer.ptk, peer'.pmk = peer.pmk,
         NEW f, f.type = "m3", f.mic = peer.ptk, WereOr(sky.sta, sky'.sta, f)
  PROVE  Handshake'
<1>1. Nonces' /\ Offered' /\ Installed'
  BY DEF Handshake, Nonces, Offered, Installed
<1>2. CASE ~Secured
  BY <1>1, <1>2 DEF Handshake, Secured
<1>3. CASE Secured
  <2>1. Bounded /\ Latest /\ Awaited /\ peer.ptk # None
    BY <1>3 DEF Handshake, Offered
  <2>2. ASSUME NEW i \in 1 .. Len(sky'.sta), OwnKeyed(sky.sta[i])'
        PROVE  sky'.sta[i].mic[3] <= supp.snonce /\ (sky'.sta[i].mic[3] = supp.snonce => peer.ptk = sky'.sta[i].mic)
    <3>1. CASE sky'.sta[i] = f
      BY <2>1, <2>2, <3>1 DEF Bounded, OwnKeyed, OwnKey
    <3>2. CASE \E j \in 1 .. Len(sky.sta) : sky'.sta[i] = sky.sta[j]
      BY <2>1, <2>2, <3>2 DEF Bounded, Latest, OwnKeyed, OwnKey
    <3> QED
      BY <3>1, <3>2 DEF WereOr
  <2>3. Bounded'
    BY <2>1, <2>2 DEF Bounded, OwnKeyed, OwnKey
  <2>4. Latest'
    BY <2>1, <2>2 DEF Latest, OwnM2, OwnKey, NoOwnM2
  <2>5. Awaited'
    BY <2>1 DEF Awaited, OwnKey
  <2> QED
    BY <1>1, <2>3, <2>4, <2>5 DEF Handshake
<1> QED
  BY <1>2, <1>3

LEMMA ApDoneKeeps ==
  ASSUME Sae, Handshake, UNCHANGED <<sta, sess, supp>>, sky'.sta = sky.sta, Dropped(sky.ap, sky'.ap),
         peer.stage = "m3", peer'.stage = "idle", peer'.ptk = peer.ptk, peer'.pmk = peer.pmk,
         sky.ap[1].type = "m4", sky.ap[1].mic = peer.ptk
  PROVE  Handshake'
<1>1. /\ 1 \in 1 .. Len(sky.ap)
      /\ \A i \in 1 .. Len(sky'.ap) : i + 1 \in 1 .. Len(sky.ap) /\ sky'.ap[i] = sky.ap[i + 1]
  BY DEF Dropped
<1>2. Nonces' /\ Offered' /\ Installed'
  BY <1>1 DEF Handshake, Nonces, Offered, Installed
<1>3. CASE ~Secured
  BY <1>2, <1>3 DEF Handshake, Secured
<1>4. CASE Secured
  <2>1. Bounded /\ Latest /\ Awaited
    BY <1>4 DEF Handshake
  <2>2. sta.at # "handshake"
    <3>1. OwnKey(peer.ptk)
      BY <1>4 DEF Handshake, Offered, Sae, Mine, Shared, Secured, OwnKey
    <3> QED
      BY <1>1, <2>1, <3>1 DEF Awaited
  <2>3. Bounded'
    BY <1>1, <2>1 DEF Bounded, OwnKeyed, OwnKey
  <2>4. Latest'
    <3>1. ASSUME NEW i \in 1 .. Len(sky'.ap), NEW j \in 1 .. Len(sky'.ap), i < j,
                 OwnM2(sky.ap[i])', sky'.ap[i].mic[3] = supp'.snonce, OwnM2(sky.ap[j])'
          PROVE  FALSE
      <4>1. i + 1 \in 1 .. Len(sky.ap) /\ j + 1 \in 1 .. Len(sky.ap) /\ i + 1 < j + 1
        BY <1>1, <3>1
      <4>2. OwnM2(sky.ap[i + 1]) /\ OwnM2(sky.ap[j + 1]) /\ sky.ap[i + 1].mic[3] = supp.snonce
        BY <1>1, <3>1 DEF OwnM2, OwnKey
      <4> QED
        BY <2>1, <4>1, <4>2 DEF Latest
    <3>2. NoOwnM2 => NoOwnM2'
      BY <1>1 DEF NoOwnM2, OwnM2, OwnKey
    <3> QED
      BY <2>1, <3>1, <3>2 DEF Latest, OwnKeyed, OwnKey
  <2>5. Awaited'
    BY <2>2 DEF Awaited
  <2> QED
    BY <1>2, <2>3, <2>4, <2>5 DEF Handshake
<1> QED
  BY <1>3, <1>4

LEMMA HandshakeNext ==
  ASSUME EapolSizes, TypeOK, Pasts, Sae, Handshake, Next
  PROVE  Handshake'
<1> DEFINE n == M1(0, 0)
<1>0. ~Keyed(n)
  BY DEF M1, Keyed
<1> HIDE DEF n
<1>n. Len(sky.ap) \in Nat
  BY Numbers
<1>s. WereOr(sky.ap, sky.ap, n) /\ WereOr(sky.sta, sky.sta, n) /\ Follows(sky.ap, sky.ap, n)
  BY WereSame, SameFollows
<1>d. /\ Dropped(sky.ap, sky'.ap) => WereOr(sky.ap, sky'.ap, n) /\ Follows(sky.ap, sky'.ap, n) /\ Len(sky'.ap) \in Nat
      /\ Dropped(sky.sta, sky'.sta) => WereOr(sky.sta, sky'.sta, n)
  BY DroppedBoth
<1>1. CASE Connect
  <2>1. sta'.at = "commit" /\ sky' = sky /\ peer' = peer
    BY <1>1, ConnectDoes
  <2> QED
    BY <1>0, <1>s, <2>1, HandshakeIdle DEF Secured
<1>2. CASE SendCommit
  <2>1. /\ peer' = peer /\ sta'.at \in {"failed", "committed"}
        /\ \/ sky' = sky
           \/ \E f : IsCommit(f) /\ Added(sky.ap, sky'.ap, f)
    BY <1>2, SendCommitDoes
  <2>2. CASE sky' = sky
    BY <1>0, <1>s, <2>1, <2>2, HandshakeIdle DEF Secured
  <2>3. ASSUME NEW f, IsCommit(f), Added(sky.ap, sky'.ap, f) PROVE Handshake'
    <3>1. ~Keyed(f) /\ WereOr(sky.ap, sky'.ap, f)
      BY <2>3, AddedWere DEF IsCommit, Keyed
    <3> QED
      BY <2>1, <3>1, HandshakeIdle DEF Secured
  <2> QED
    BY <2>1, <2>2, <2>3
<1>3. CASE Committed
  <2>1. peer' = peer /\ sta'.at \in {"failed", "commit", "committed", "confirm"} /\ sky'.ap = sky.ap
    BY <1>3, CommittedDoes
  <2> QED
    BY <1>0, <1>s, <2>1, HandshakeIdle DEF Secured
<1>4. CASE SendConfirm
  <2>1. sess.pmk # None
    BY <1>4 DEF SendConfirm, Sae, Mine
  <2>2. peer' = peer /\ sta'.at = "confirmed" /\ \E f : IsConfirm(f) /\ Added(sky.ap, sky'.ap, f)
    BY <1>4, <2>1, SendConfirmDoes
  <2>3. PICK f : IsConfirm(f) /\ Added(sky.ap, sky'.ap, f)
    BY <2>2
  <2>4. ~Keyed(f) /\ WereOr(sky.ap, sky'.ap, f)
    BY <2>3, AddedWere DEF IsConfirm, Keyed
  <2> QED
    BY <2>2, <2>4, HandshakeIdle DEF Secured
<1>5. CASE Confirmed
  <2>1. /\ sess' = sess /\ peer' = peer /\ sta.at = "confirmed"
        /\ sky'.ap = sky.ap /\ Dropped(sky.sta, sky'.sta)
        /\ \/ sta'.at \in {"confirmed", "failed"}
           \/ sta'.at = "handshake" /\ supp'.ptk = None
    BY <1>5, ConfirmedDoes
  <2>2. CASE sta'.at \in {"confirmed", "failed"}
    BY <1>0, <1>s, <2>1, <2>2, HandshakeIdle DEF Secured
  <2>3. CASE sta'.at = "handshake" /\ supp'.ptk = None
    BY <2>1, <2>3, HandshakeBegins
  <2> QED
    BY <2>1, <2>2, <2>3
<1>6. CASE OnFrame
  <2>1. sess.pmk # None
    BY <1>6 DEF OnFrame, Sae, Mine
  <2>2. /\ sess' = sess /\ peer' = peer /\ sta.at = "handshake" /\ Dropped(sky.sta, sky'.sta)
        /\ \/ /\ sta' = sta /\ supp'.snonce = supp.snonce + 1 /\ supp'.ptk # None
              /\ supp'.ptk[1] = sess.pmk /\ supp'.ptk[3] = supp'.snonce
              /\ \E f : /\ f.type = "m2" /\ f.mic = supp'.ptk /\ f.snonce = supp'.snonce
                        /\ Added(sky.ap, sky'.ap, f)
           \/ /\ sta'.at = "up" /\ supp.ptk # None
              /\ supp'.ptk = supp.ptk /\ supp'.snonce = supp.snonce /\ supp'.group.gtk # None
              /\ sky.sta[1].type = "m3" /\ sky.sta[1].mic = supp.ptk
              /\ \E f : f.type = "m4" /\ f.mic = supp.ptk /\ Added(sky.ap, sky'.ap, f)
           \/ sta' = sta /\ supp'.ptk = supp.ptk /\ supp'.snonce = supp.snonce /\ sky'.ap = sky.ap
    BY <1>6, <2>1, OnFrameDoes
  <2>3. CASE /\ sta' = sta /\ supp'.snonce = supp.snonce + 1 /\ supp'.ptk # None
             /\ supp'.ptk[1] = sess.pmk /\ supp'.ptk[3] = supp'.snonce
             /\ \E f : /\ f.type = "m2" /\ f.mic = supp'.ptk /\ f.snonce = supp'.snonce
                       /\ Added(sky.ap, sky'.ap, f)
    BY <2>2, <2>3, OnM1Keeps
  <2>4. CASE /\ sta'.at = "up" /\ supp.ptk # None
             /\ supp'.ptk = supp.ptk /\ supp'.snonce = supp.snonce /\ supp'.group.gtk # None
             /\ sky.sta[1].type = "m3" /\ sky.sta[1].mic = supp.ptk
             /\ \E f : f.type = "m4" /\ f.mic = supp.ptk /\ Added(sky.ap, sky'.ap, f)
    BY <2>2, <2>4, OnM3Keeps
  <2>5. CASE sta' = sta /\ supp'.ptk = supp.ptk /\ supp'.snonce = supp.snonce /\ sky'.ap = sky.ap
    BY <1>0, <1>n, <1>s, <1>d, <2>2, <2>5, HandshakeStays
  <2> QED
    BY <2>2, <2>3, <2>4, <2>5
<1>7. CASE Timeout \/ TxFails
  <2>1. peer' = peer /\ sky' = sky /\ sta'.at \in {"failed", "commit"}
    BY <1>7, TimeoutDoes, TxFailsDoes
  <2> QED
    BY <1>0, <1>s, <2>1, HandshakeIdle DEF Secured
<1>8. CASE ApCommits
  <2>1. /\ sta' = sta /\ IsCommit(sky.ap[1]) /\ Dropped(sky.ap, sky'.ap)
        /\ (peer' = peer \/ peer'.stage = "idle")
    BY <1>8, ApCommitsDoes
  <2>2. ~Secured
    BY <2>1 DEF Sae, Shared, NoCommits, Dropped
  <2> QED
    BY <1>0, <1>d, <2>1, <2>2, HandshakeIdle DEF Secured
<1>9. CASE ApConfirms
  <2>1. /\ sta' = sta /\ sess' = sess /\ supp' = supp /\ Dropped(sky.ap, sky'.ap)
        /\ peer'.pmk = peer.pmk /\ peer'.ptk = peer.ptk /\ peer'.stage = peer.stage
        /\ \/ \E f : IsConfirm(f) /\ Added(sky.sta, sky'.sta, f)
           \/ sky'.sta = sky.sta
    BY <1>9, ApConfirmsDoes
  <2>2. CASE sky'.sta = sky.sta
    BY <1>0, <1>s, <1>d, <2>1, <2>2, HandshakeStays
  <2>3. ASSUME NEW f, IsConfirm(f), Added(sky.sta, sky'.sta, f) PROVE Handshake'
    <3>1. ~Keyed(f) /\ WereOr(sky.sta, sky'.sta, f)
      BY <2>3, AddedWere DEF IsConfirm, Keyed
    <3>2. Follows(sky.ap, sky'.ap, f) /\ WereOr(sky.ap, sky'.ap, f)
      BY <2>1, DroppedFollows, DroppedWere, WereThen
    <3> QED
      BY <1>d, <2>1, <3>1, <3>2, HandshakeStays
  <2> QED
    BY <2>1, <2>2, <2>3
<1>10. CASE ApStarts
  <2>1. /\ sta' = sta /\ sess' = sess /\ supp' = supp /\ sta.at = "handshake" /\ peer.stage # "m3"
        /\ peer'.stage = "m1" /\ peer'.ptk = None /\ sky'.ap = sky.ap
        /\ \E f : f.type = "m1" /\ Added(sky.sta, sky'.sta, f)
    BY <1>10, ApStartsDoes
  <2>2. PICK f : f.type = "m1" /\ Added(sky.sta, sky'.sta, f)
    BY <2>1
  <2>3. WereOr(sky.sta, sky'.sta, f)
    BY <2>2, AddedWere
  <2> QED
    BY <2>1, <2>2, <2>3, ApStartsKeeps
<1>11. CASE ApSendsM3
  <2>1. /\ UNCHANGED <<sta, sess, supp>> /\ Dropped(sky.ap, sky'.ap) /\ sky.ap[1].type = "m2"
        /\ \/ /\ peer'.stage = "m3" /\ peer'.pmk = peer.pmk
              /\ peer'.ptk = sky.ap[1].mic /\ peer'.ptk[1] = peer.pmk
              /\ \E f : f.type = "m3" /\ f.mic = peer'.ptk /\ Added(sky.sta, sky'.sta, f)
           \/ peer' = peer /\ sky'.sta = sky.sta
    BY <1>11, ApSendsM3Does
  <2>2. CASE peer' = peer /\ sky'.sta = sky.sta
    BY <1>0, <1>s, <1>d, <2>1, <2>2, HandshakeStays
  <2>3. CASE /\ peer'.stage = "m3" /\ peer'.pmk = peer.pmk
             /\ peer'.ptk = sky.ap[1].mic /\ peer'.ptk[1] = peer.pmk
             /\ \E f : f.type = "m3" /\ f.mic = peer'.ptk /\ Added(sky.sta, sky'.sta, f)
    <3>1. sky.ap[1] \in ApFrames /\ Keyed(sky.ap[1])
      BY <2>1 DEF TypeOK, Skies, Dropped, Keyed
    <3>2. sky.ap[1].mic # None
      BY <3>1, ApFrameIs, PtkIs
    <3> QED
      BY <2>1, <2>3, <3>2, ApSendsM3Keeps
  <2> QED
    BY <2>1, <2>2, <2>3
<1>12. CASE ApRepeats
  <2>1. peer.ptk # None
    BY <1>12 DEF ApRepeats, Handshake, Offered
  <2>2. /\ UNCHANGED <<sta, sess, supp>> /\ peer.stage = "m3"
        /\ peer'.stage = "m3" /\ peer'.ptk = peer.ptk /\ peer'.pmk = peer.pmk /\ sky'.ap = sky.ap
        /\ \E f : f.type = "m3" /\ f.mic = peer.ptk /\ Added(sky.sta, sky'.sta, f)
    BY <1>12, <2>1, ApRepeatsDoes
  <2>3. PICK f : f.type = "m3" /\ f.mic = peer.ptk /\ Added(sky.sta, sky'.sta, f)
    BY <2>2
  <2>4. WereOr(sky.sta, sky'.sta, f)
    BY <2>3, AddedWere
  <2> QED
    BY <2>2, <2>3, <2>4, ApRepeatsKeeps
<1>13. CASE ApDone
  <2>1. /\ UNCHANGED <<sta, sess, supp>> /\ Dropped(sky.ap, sky'.ap) /\ sky'.sta = sky.sta
        /\ peer'.ptk = peer.ptk /\ peer'.pmk = peer.pmk
        /\ \/ peer'.stage = peer.stage
           \/ /\ peer.stage = "m3" /\ peer'.stage = "idle"
              /\ sky.ap[1].type = "m4" /\ sky.ap[1].mic = peer.ptk
    BY <1>13, ApDoneDoes
  <2>2. CASE peer'.stage = peer.stage
    BY <1>0, <1>s, <1>d, <2>1, <2>2, HandshakeStays
  <2>3. CASE /\ peer.stage = "m3" /\ peer'.stage = "idle"
             /\ sky.ap[1].type = "m4" /\ sky.ap[1].mic = peer.ptk
    BY <2>1, <2>3, ApDoneKeeps
  <2> QED
    BY <2>1, <2>2, <2>3
<1>14. CASE ApCalms \/ Lose
  <2>1. /\ sta' = sta /\ sess' = sess /\ supp' = supp
        /\ peer'.ptk = peer.ptk /\ peer'.pmk = peer.pmk /\ peer'.stage = peer.stage
        /\ (sky'.ap = sky.ap \/ Dropped(sky.ap, sky'.ap))
        /\ (sky'.sta = sky.sta \/ Dropped(sky.sta, sky'.sta))
    BY <1>14, ApCalmsDoes, LoseDoes
  <2>2. /\ WereOr(sky.ap, sky'.ap, n) /\ Follows(sky.ap, sky'.ap, n) /\ Len(sky'.ap) \in Nat
        /\ WereOr(sky.sta, sky'.sta, n)
    BY <1>n, <1>s, <1>d, <2>1
  <2> QED
    BY <1>0, <2>1, <2>2, HandshakeStays
<1> QED
  BY <1>1, <1>2, <1>3, <1>4, <1>5, <1>6, <1>7, <1>8, <1>9, <1>10, <1>11, <1>12, <1>13, <1>14 DEF Next

(***************************************************************************)
(* Agreed is inductive, and says what is wanted.                           *)
(***************************************************************************)
(***************************************************************************)
(* The group keys.                                                         *)
(***************************************************************************)
\* A step that takes no group key keeps those there are.
LEMMA GivenStays ==
  ASSUME Given, peer.given \subseteq peer'.given, NEW f, Gave(peer'.given, f), WereOr(sky.sta, sky'.sta, f),
         Secured' => \/ supp'.group.gtk = None
                     \/ Secured /\ sess'.pmk = sess.pmk /\ supp'.group.gtk = supp.group.gtk
  PROVE  Given'
<1>1. ASSUME NEW i \in 1 .. Len(sky'.sta) PROVE Gave(peer'.given, sky'.sta[i])
  <2>1. CASE sky'.sta[i] = f
    BY <2>1 DEF Gave
  <2>2. CASE \E j \in 1 .. Len(sky.sta) : sky'.sta[i] = sky.sta[j]
    BY <2>2 DEF Gave, Given
  <2> QED
    BY <2>1, <2>2 DEF WereOr
<1>2. Secured' /\ supp'.group.gtk # None => <<sess'.pmk, supp'.group.gtk>> \in peer'.given
  BY DEF Given
<1> QED
  BY <1>1, <1>2 DEF Given

\* What each step does to what the access point gave: nothing, or more of it.
LEMMA GivenGrows ==
  ASSUME TypeOK, ApCommits \/ ApConfirms \/ ApStarts \/ ApDone \/ ApCalms
  PROVE  peer'.given = peer.given
<1>1. peer \in Peers
  BY DEF TypeOK
<1>2. CASE ApCommits
  <2> DEFINE b == Head(sky.ap).body.commit
             own == IF b = peer.theirs THEN peer.own ELSE peer.own + 1
  <2>1. \/ UNCHANGED peer
        \/ peer' = [peer EXCEPT !.theirs = b, !.own = own, !.pmk = <<b, own>>,
                                !.confirmed = FALSE, !.stage = "idle", !.resends = 0]
    BY <1>2 DEF ApCommits
  <2> HIDE DEF b, own
  <2> QED
    BY <1>1, <2>1 DEF Peers
<1>3. CASE ApConfirms
  BY <1>1, <1>3 DEF ApConfirms, Peers
<1>4. CASE ApStarts
  <2> DEFINE a    == IF peer.stage = "idle" THEN peer.anonce + 1 ELSE peer.anonce
             from == IF peer.stage = "idle" THEN peer.replay + 1 ELSE peer.from
  <2>1. peer' = [peer EXCEPT !.stage = "m1", !.replay = @ + 1, !.resends = @ + 1, !.ptk = None,
                             !.anonce = a, !.from = from]
    BY <1>4 DEF ApStarts
  <2> HIDE DEF a, from
  <2> QED
    BY <1>1, <2>1 DEF Peers
<1>5. CASE ApDone
  BY <1>1, <1>5 DEF ApDone, Peers
<1>6. CASE ApCalms
  BY <1>1, <1>6 DEF ApCalms, Peers
<1> QED
  BY <1>2, <1>3, <1>4, <1>5, <1>6

LEMMA GivenNext ==
  ASSUME EapolSizes, TypeOK, Sae, Handshake, Given, Next
  PROVE  Given'
<1> DEFINE n == M1(0, 0)
<1>0. Gave(peer'.given, n)
  BY DEF M1, Gave
<1> HIDE DEF n
<1>s. WereOr(sky.sta, sky.sta, n)
  BY WereSame
<1>d. Dropped(sky.sta, sky'.sta) => WereOr(sky.sta, sky'.sta, n)
  BY DroppedWere, WereThen
<1>1. CASE Connect \/ SendCommit \/ Committed \/ SendConfirm \/ Timeout \/ TxFails
  <2>1. SendConfirm => sess.pmk # None
    BY DEF SendConfirm, Sae, Mine
  <2>2. /\ peer' = peer /\ sta'.at \notin {"handshake", "up"}
        /\ sky'.sta = sky.sta \/ Dropped(sky.sta, sky'.sta)
    BY <1>1, <2>1, ConnectDoes, SendCommitDoes, CommittedDoes, SendConfirmDoes, TimeoutDoes, TxFailsDoes
  <2> QED
    BY <1>0, <1>s, <1>d, <2>2, GivenStays DEF Secured
<1>2. CASE Confirmed
  <2>1. sess' = sess /\ peer' = peer /\ sta.at = "confirmed" /\ Dropped(sky.sta, sky'.sta)
    BY <1>2, ConfirmedDoes
  <2>2. (sta' = sta \/ sta' = [sta EXCEPT !.at = "failed"]) \/ supp' = NewSupp
    BY <1>2 DEF Confirmed, Fail
  <2>3. supp' = NewSupp => supp'.group.gtk = None
    BY DEF NewSupp, NoGroup
  <2>4. Secured' => supp'.group.gtk = None
    BY <2>1, <2>2, <2>3 DEF Secured, TypeOK, Stas
  <2> QED
    BY <1>0, <1>d, <2>1, <2>4, GivenStays
<1>3. CASE OnFrame
  <2> DEFINE m == sky.sta[1]
  <2>1. sess.pmk # None
    BY <1>3 DEF OnFrame, Sae, Mine
  <2>2. /\ UNCHANGED <<sess, peer>> /\ sta.at = "handshake" /\ Dropped(sky.sta, sky'.sta)
        /\ \/ supp'.group = supp.group
           \/ /\ m.type = "m3" /\ m.mic = supp.ptk /\ supp.ptk # None
              /\ supp'.group.gtk = supp.group.gtk \/ supp'.group.gtk \in Gtks(m.data)
    BY <1>3, <2>1, OnFrameDoes
  <2>3. Secured /\ WereOr(sky.sta, sky'.sta, n)
    BY <1>d, <2>2 DEF Secured
  <2>4. CASE supp'.group.gtk = supp.group.gtk
    BY <1>0, <2>2, <2>3, <2>4, GivenStays
  <2>5. CASE m.type = "m3" /\ m.mic = supp.ptk /\ supp.ptk # None /\ supp'.group.gtk \in Gtks(m.data)
    <3>1. 1 \in 1 .. Len(sky.sta) /\ supp.ptk[1] = sess.pmk
      BY <2>2, <2>3, <2>5 DEF Dropped, Handshake, Bounded
    <3>2. Gave(peer.given, m)
      BY <3>1 DEF Given
    <3>3. <<sess'.pmk, supp'.group.gtk>> \in peer'.given
      BY <2>2, <2>5, <3>1, <3>2 DEF Gave
    <3>4. \A i \in 1 .. Len(sky'.sta) : Gave(peer'.given, sky'.sta[i])
      BY <2>2, SMTT(60) DEF Given, Dropped, Gave
    <3> QED
      BY <3>3, <3>4 DEF Given
  <2> QED
    BY <2>2, <2>4, <2>5
<1>4. CASE ApCommits \/ ApConfirms \/ ApStarts \/ ApDone \/ ApCalms
  <2>1. peer'.given = peer.given /\ UNCHANGED <<sta, sess, supp>>
    BY <1>4, GivenGrows, ApCommitsDoes, ApConfirmsDoes, ApStartsDoes, ApDoneDoes, ApCalmsDoes
  <2>2. \/ sky'.sta = sky.sta
        \/ \E f : f.type # "m3" /\ Added(sky.sta, sky'.sta, f)
    BY <1>4, ApCommitsDoes, ApConfirmsDoes, ApStartsDoes, ApDoneDoes, ApCalmsDoes DEF IsConfirm
  <2>3. CASE sky'.sta = sky.sta
    BY <1>0, <1>s, <2>1, <2>3, GivenStays DEF Secured
  <2>4. ASSUME NEW f, f.type # "m3", Added(sky.sta, sky'.sta, f) PROVE Given'
    <3>1. Gave(peer'.given, f) /\ WereOr(sky.sta, sky'.sta, f)
      BY <2>4, AddedWere DEF Gave
    <3> QED
      BY <2>1, <3>1, GivenStays DEF Secured
  <2> QED
    BY <2>2, <2>3, <2>4
<1>5. CASE ApSendsM3 \/ ApRepeats
  <2>1. ApRepeats => peer.ptk # None
    BY DEF ApRepeats, Handshake, Offered
  <2>2. /\ UNCHANGED <<sta, sess, supp>> /\ peer.given \subseteq peer'.given
        /\ \/ \E f : Gave(peer'.given, f) /\ Added(sky.sta, sky'.sta, f)
           \/ sky'.sta = sky.sta
    BY <1>5, <2>1, ApSendsM3Does, ApRepeatsDoes
  <2>3. CASE sky'.sta = sky.sta
    BY <1>0, <1>s, <2>2, <2>3, GivenStays DEF Secured
  <2>4. ASSUME NEW f, Gave(peer'.given, f), Added(sky.sta, sky'.sta, f) PROVE Given'
    BY <2>2, <2>4, AddedWere, GivenStays DEF Secured
  <2> QED
    BY <2>2, <2>3, <2>4
<1>6. CASE Lose
  <2>1. UNCHANGED <<sta, sess, supp, peer>> /\ (sky'.sta = sky.sta \/ Dropped(sky.sta, sky'.sta))
    BY <1>6, LoseDoes
  <2> QED
    BY <1>0, <1>s, <1>d, <2>1, GivenStays DEF Secured
<1> QED
  BY <1>1, <1>2, <1>3, <1>4, <1>5, <1>6 DEF Next
-----------------------------------------------------------------------------
LEMMA TypeNext ==
  ASSUME EapolSizes, TypeOK, Sae, Handshake, Next
  PROVE  TypeOK'
<1>1. (SendConfirm \/ OnFrame) => sess.pmk # None
  BY DEF SendConfirm, OnFrame, Sae, Mine
<1>2. ApRepeats => peer.ptk # None
  BY DEF ApRepeats, Handshake, Offered
<1> QED
  BY <1>1, <1>2, ConnectDoes, SendCommitDoes, CommittedDoes, SendConfirmDoes, ConfirmedDoes, OnFrameDoes,
     TimeoutDoes, TxFailsDoes, ApCommitsDoes, ApConfirmsDoes, ApStartsDoes, ApSendsM3Does, ApRepeatsDoes,
     ApDoneDoes, ApCalmsDoes, LoseDoes DEF Next

LEMMA AgreedInit ==
  ASSUME EapolSizes, Init
  PROVE  Agreed
<1>1. TypeOK
  BY TypeInit
<1>2. /\ sta.at = "failed" /\ sky.sta = <<>> /\ sky.ap = <<>>
      /\ peer.ptk = None /\ peer.stage = "idle"
  BY DEF Init
<1>3. Pasts /\ Sae /\ Handshake
  BY <1>2 DEF Pasts, Sae, Mine, LastCommit, Confirmation, Shared, Secured, Handshake, Nonces, Offered, Installed
<1>4. Given
  BY <1>2 DEF Given, Secured
<1> QED
  BY <1>1, <1>3, <1>4 DEF Agreed

LEMMA AgreedNext ==
  ASSUME EapolSizes, Agreed, [Next]_eapolVars
  PROVE  Agreed'
<1>1. CASE Next
  BY <1>1, TypeNext, PastsNext, SaeNext, HandshakeNext, GivenNext DEF Agreed
<1>2. CASE UNCHANGED eapolVars
  <2>1. TypeOK'
    BY <1>2 DEF eapolVars, Agreed, TypeOK
  <2>2. Pasts'
    BY <1>2 DEF eapolVars, Agreed, Pasts, Past, Early, Unkeyed, OwnKey
  <2>3. Mine' /\ LastCommit' /\ Confirmation' /\ (Secured <=> Secured')
    BY <1>2 DEF eapolVars, Agreed, Early, OwnConfirm, Sae, Mine, LastCommit, Confirmation, Shared, NoCommits, Secured
  <2>4. Sae'
    BY <1>2, <2>3 DEF eapolVars, Agreed, Sae, Shared, NoCommits
  <2>5. Nonces' /\ Offered' /\ Installed'
    BY <1>2 DEF eapolVars, Agreed, Handshake, Nonces, Offered, Installed
  <2>6. (Bounded => Bounded') /\ (Latest => Latest') /\ (Awaited => Awaited')
    <3>1. Bounded => Bounded'
      BY <1>2 DEF eapolVars, Bounded, OwnKey, OwnKeyed
    <3>2. Latest => Latest'
      BY <1>2 DEF eapolVars, Latest, NoOwnM2, OwnKey, OwnKeyed, OwnM2
    <3>3. Awaited => Awaited'
      BY <1>2 DEF eapolVars, Awaited, OwnKey, OwnKeyed
    <3> QED
      BY <3>1, <3>2, <3>3
  <2>7. Given'
    BY <1>2 DEF eapolVars, Agreed, Given, Gave, Secured
  <2> QED
    BY <2>1, <2>2, <2>3, <2>4, <2>5, <2>6, <2>7 DEF Agreed, Handshake
<1> QED
  BY <1>1, <1>2

LEMMA AgreedMeans ==
  ASSUME Agreed
  PROVE  PmkAgreed /\ KeysAgree
BY DEF Agreed, Sae, Shared, Secured, Handshake, Installed, Given, PmkAgreed, KeysAgree

\* Whoever passes SAE shares its master key with the access point, and whoever completes the
\* handshake the session key and a group key it was given, in every run of the two over an air that loses and delays.
THEOREM Agree == EapolSizes => (Spec => [](PmkAgreed /\ KeysAgree))
<1> SUFFICES ASSUME EapolSizes PROVE Spec => [](PmkAgreed /\ KeysAgree)
  OBVIOUS
<1>1. Init => Agreed
  BY AgreedInit
<1>2. Agreed /\ [Next]_eapolVars => Agreed'
  BY AgreedNext
<1>3. Agreed => PmkAgreed /\ KeysAgree
  BY AgreedMeans
<1> QED
  BY <1>1, <1>2, <1>3, PTL DEF Spec

(***************************************************************************)
(* The console: what is typed arrives once and in order, whatever the size *)
(* of the ring and however the handler comes between the task's steps.     *)
(***************************************************************************)
Bytes == Keys \cup {"enter", "backspace", "none"}
Indices == 0 .. RingSize - 1
Rings == [buf : [Indices -> Bytes], head : Indices, tail : Indices]
-----------------------------------------------------------------------------
\* A set of naturals has a least element.
\* What holds of 0, and of each number after one it holds of, holds up to n.
LEMMA Counting ==
  ASSUME NEW n \in Nat, NEW P, 0 \in P, \A k \in 0 .. n - 1 : k \in P => k + 1 \in P
  PROVE  \A k \in 0 .. n : k \in P
<1> SUFFICES ASSUME NEW k \in 0 .. n, k \notin P PROVE FALSE
  OBVIOUS
<1> DEFINE T == {i \in 0 .. n : i \notin P}
<1>1. PICK x \in T : \A y \in T : x <= y
  <2>1. T \in SUBSET Nat /\ k \in T
    OBVIOUS
  <2> HIDE DEF T
  <2> QED
    BY <2>1, LeastNat
<1>2. x # 0 /\ x - 1 \in 0 .. n - 1 /\ x - 1 < x
  BY <1>1
<1>3. x - 1 \in P
  BY <1>1, <1>2
<1>4. (x - 1) + 1 \in P
  BY <1>2, <1>3
<1> QED
  BY <1>1, <1>2, <1>4

\* The remainder of a number less than one period out of range.
LEMMA Wrapped ==
  ASSUME NEW n \in Nat \ {0}, NEW x \in Int
  PROVE  /\ 0 <= x /\ x < n => x % n = x
         /\ n <= x /\ x < 2 * n => x % n = x - n
         /\ (-n) <= x /\ x < 0 => x % n = x + n
OBVIOUS
-----------------------------------------------------------------------------
PutFold(base, q, n, f) ==
  f = [S \in SUBSET (1 .. n) |-> IF S = {} THEN base ELSE LET x == Max(S) IN Put(f[S \ {x}], q[x])]

LEMMA PutFoldGrows ==
  ASSUME NEW base, NEW q, NEW n \in Nat, NEW f, PutFold(base, q, n, f)
  PROVE  \E g : PutFold(base, q, n + 1, g)
<1> DEFINE g == [S \in SUBSET (1 .. n + 1) |-> IF n + 1 \in S THEN Put(f[S \ {n + 1}], q[n + 1]) ELSE f[S]]
<1> DEFINE step(S) == IF S = {} THEN base ELSE LET x == Max(S) IN Put(g[S \ {x}], q[x])
<1> SUFFICES ASSUME NEW S \in SUBSET (1 .. n + 1) PROVE g[S] = step(S)
  <2>1. ASSUME \A S \in SUBSET (1 .. n + 1) : g[S] = step(S)
        PROVE  g = [S \in SUBSET (1 .. n + 1) |-> step(S)]
    <3>1. g = [S \in SUBSET (1 .. n + 1) |-> g[S]]
      OBVIOUS
    <3> HIDE DEF g, step
    <3> QED
      BY <2>1, <3>1
  <2>2. ASSUME g = [S \in SUBSET (1 .. n + 1) |-> step(S)] PROVE PutFold(base, q, n + 1, g)
    <3> HIDE DEF g
    <3> QED
      BY <2>2 DEF PutFold
  <2> HIDE DEF g, step
  <2> QED
    BY <2>1, <2>2
<1>1. CASE n + 1 \in S
  <2>1. Max(S) = n + 1
    <3>1. \A y \in S : n + 1 >= y
      OBVIOUS
    <3>2. Max(S) \in S /\ \A y \in S : Max(S) >= y
      BY <1>1, <3>1 DEF Max
    <3>3. Max(S) \in Int /\ Max(S) >= n + 1 /\ n + 1 >= Max(S)
      <4> DEFINE m == Max(S)
      <4>1. m \in S /\ \A y \in S : m >= y
        BY <3>2
      <4> HIDE DEF m
      <4>2. m \in 1 .. n + 1 /\ m >= n + 1
        BY <1>1, <4>1
      <4>3. n + 1 >= m /\ m \in Int
        BY <4>2
      <4> QED
        BY <4>2, <4>3 DEF m
    <3> QED
      BY <3>3
  <2>2. S \ {n + 1} \in SUBSET (1 .. n + 1) /\ n + 1 \notin S \ {n + 1}
    OBVIOUS
  <2>3. g[S \ {n + 1}] = f[S \ {n + 1}] /\ g[S] = Put(f[S \ {n + 1}], q[n + 1])
    BY <1>1, <2>2
  <2> QED
    BY <1>1, <2>1, <2>3
<1>2. CASE n + 1 \notin S
  <2>1. S \in SUBSET (1 .. n) /\ \A x : S \ {x} \in SUBSET (1 .. n) /\ n + 1 \notin S \ {x}
    <3>1. \A y \in S : y \in 1 .. n
      BY <1>2
    <3> QED
      BY <1>2, <3>1
  <2>2. \A x : S \ {x} \in SUBSET (1 .. n + 1)
    OBVIOUS
  <2>3. g[S] = f[S] /\ \A x : g[S \ {x}] = f[S \ {x}]
    BY <1>2, <2>1, <2>2
  <2>4. f[S] = IF S = {} THEN base ELSE LET x == Max(S) IN Put(f[S \ {x}], q[x])
    BY <2>1 DEF PutFold
  <2> HIDE DEF g
  <2> QED
    BY <2>3, <2>4
<1> QED
  BY <1>1, <1>2

\* The ring after the handler's loop.
Filled(base, q) == FoldLeft(Put, base, q)

\* FoldLeft(Put), unfolded: what the prefixes of the sequence come to.
LEMMA PutFolds ==
  ASSUME NEW base, NEW q \in Seq(Bytes)
  PROVE  \E h : /\ h[0] = base /\ h[Len(q)] = Filled(base, q)
                /\ \A i \in 1 .. Len(q) : h[i] = Put(h[i - 1], q[i])
<1> DEFINE n == Len(q)
           P == {k \in 0 .. n : \E f : PutFold(base, q, k, f)}
<1>1. n \in Nat /\ DOMAIN q = 1 .. n
  OBVIOUS
<1>2. 0 \in P
  <2> DEFINE f == [S \in SUBSET (1 .. 0) |-> base]
  <2>1. \A S \in SUBSET (1 .. 0) : S = {}
    OBVIOUS
  <2>2. PutFold(base, q, 0, f)
    BY <2>1 DEF PutFold
  <2> QED
    BY <1>1, <2>2
<1>3. \A k \in 0 .. n - 1 : k \in P => k + 1 \in P
  <2> SUFFICES ASSUME NEW k \in 0 .. n - 1, k \in P PROVE k + 1 \in P
    OBVIOUS
  <2>1. k \in Nat /\ k + 1 \in 0 .. n
    BY <1>1
  <2>2. \E g : PutFold(base, q, k + 1, g)
    BY <2>1, PutFoldGrows
  <2> QED
    BY <2>1, <2>2
<1>4. \E f : PutFold(base, q, n, f)
  <2> HIDE DEF P, n
  <2>1. n \in P
    BY <1>1, <1>2, <1>3, Counting
  <2> QED
    BY <2>1 DEF P
<1>5. PICK f : PutFold(base, q, n, f) /\ Filled(base, q) = f[1 .. n]
  <2>1. Filled(base, q) = (CHOOSE f : PutFold(base, q, n, f))[1 .. n]
    BY <1>1 DEF Filled, FoldLeft, MapThenFoldSet, PutFold
  <2> QED
    BY <1>4, <2>1
<1> DEFINE h == [i \in 0 .. n |-> f[1 .. i]]
<1>6. h[0] = base
  <2>1. 1 .. 0 = {} /\ {} \in SUBSET (1 .. n) /\ 0 \in 0 .. n
    BY <1>1
  <2> QED
    BY <1>5, <2>1 DEF PutFold
<1>7. ASSUME NEW i \in 1 .. n PROVE h[i] = Put(h[i - 1], q[i])
  <2> DEFINE S == 1 .. i
  <2>1. S \in SUBSET (1 .. n) /\ S # {} /\ i \in S /\ \A y \in S : i >= y
    BY <1>1
  <2>2. Max(S) = i
    <3>1. Max(S) \in S /\ \A y \in S : Max(S) >= y
      BY <2>1 DEF Max
    <3> QED
      BY <2>1, <3>1
  <2>3. S \ {i} = 1 .. i - 1
    BY <1>1
  <2>4. f[S] = Put(f[S \ {i}], q[i])
    <3> HIDE DEF S
    <3> QED
      BY <1>5, <2>1, <2>2 DEF PutFold
  <2>5. i \in 0 .. n /\ i - 1 \in 0 .. n
    BY <1>1
  <2> QED
    BY <2>3, <2>4, <2>5
<1>8. h[n] = Filled(base, q)
  BY <1>1, <1>5
<1> HIDE DEF h
<1> QED
  BY <1>6, <1>7, <1>8

EditFold(q, n, f) ==
  f = [S \in SUBSET (1 .. n) |-> IF S = {} THEN <<>> ELSE LET x == Max(S) IN Edit(f[S \ {x}], q[x])]

LEMMA EditFoldGrows ==
  ASSUME NEW q, NEW n \in Nat, NEW f, EditFold(q, n, f)
  PROVE  \E g : EditFold(q, n + 1, g)
<1> DEFINE g == [S \in SUBSET (1 .. n + 1) |-> IF n + 1 \in S THEN Edit(f[S \ {n + 1}], q[n + 1]) ELSE f[S]]
<1> DEFINE step(S) == IF S = {} THEN <<>> ELSE LET x == Max(S) IN Edit(g[S \ {x}], q[x])
<1> SUFFICES ASSUME NEW S \in SUBSET (1 .. n + 1) PROVE g[S] = step(S)
  <2>1. ASSUME \A S \in SUBSET (1 .. n + 1) : g[S] = step(S)
        PROVE  g = [S \in SUBSET (1 .. n + 1) |-> step(S)]
    <3>1. g = [S \in SUBSET (1 .. n + 1) |-> g[S]]
      OBVIOUS
    <3> HIDE DEF g, step
    <3> QED
      BY <2>1, <3>1
  <2>2. ASSUME g = [S \in SUBSET (1 .. n + 1) |-> step(S)] PROVE EditFold(q, n + 1, g)
    <3> HIDE DEF g
    <3> QED
      BY <2>2 DEF EditFold
  <2> HIDE DEF g, step
  <2> QED
    BY <2>1, <2>2
<1>1. CASE n + 1 \in S
  <2>1. Max(S) = n + 1
    <3>1. \A y \in S : n + 1 >= y
      OBVIOUS
    <3>2. Max(S) \in S /\ \A y \in S : Max(S) >= y
      BY <1>1, <3>1 DEF Max
    <3>3. Max(S) \in Int /\ Max(S) >= n + 1 /\ n + 1 >= Max(S)
      <4> DEFINE m == Max(S)
      <4>1. m \in S /\ \A y \in S : m >= y
        BY <3>2
      <4> HIDE DEF m
      <4>2. m \in 1 .. n + 1 /\ m >= n + 1
        BY <1>1, <4>1
      <4>3. n + 1 >= m /\ m \in Int
        BY <4>2
      <4> QED
        BY <4>2, <4>3 DEF m
    <3> QED
      BY <3>3
  <2>2. S \ {n + 1} \in SUBSET (1 .. n + 1) /\ n + 1 \notin S \ {n + 1}
    OBVIOUS
  <2>3. g[S \ {n + 1}] = f[S \ {n + 1}] /\ g[S] = Edit(f[S \ {n + 1}], q[n + 1])
    BY <1>1, <2>2
  <2> QED
    BY <1>1, <2>1, <2>3
<1>2. CASE n + 1 \notin S
  <2>1. S \in SUBSET (1 .. n) /\ \A x : S \ {x} \in SUBSET (1 .. n) /\ n + 1 \notin S \ {x}
    <3>1. \A y \in S : y \in 1 .. n
      BY <1>2
    <3> QED
      BY <1>2, <3>1
  <2>2. \A x : S \ {x} \in SUBSET (1 .. n + 1)
    OBVIOUS
  <2>3. g[S] = f[S] /\ \A x : g[S \ {x}] = f[S \ {x}]
    BY <1>2, <2>1, <2>2
  <2>4. f[S] = IF S = {} THEN <<>> ELSE LET x == Max(S) IN Edit(f[S \ {x}], q[x])
    BY <2>1 DEF EditFold
  <2> HIDE DEF g
  <2> QED
    BY <2>3, <2>4
<1> QED
  BY <1>1, <1>2

\* FoldLeft(Edit), unfolded: what the prefixes of the sequence come to.
LEMMA EditFolds ==
  ASSUME NEW q \in Seq(Bytes)
  PROVE  \E h : /\ h[0] = <<>> /\ h[Len(q)] = FoldLeft(Edit, <<>>, q)
                /\ \A i \in 1 .. Len(q) : h[i] = Edit(h[i - 1], q[i])
<1> DEFINE n == Len(q)
           P == {k \in 0 .. n : \E f : EditFold(q, k, f)}
<1>1. n \in Nat /\ DOMAIN q = 1 .. n
  OBVIOUS
<1>2. 0 \in P
  <2> DEFINE f == [S \in SUBSET (1 .. 0) |-> <<>>]
  <2>1. \A S \in SUBSET (1 .. 0) : S = {}
    OBVIOUS
  <2>2. EditFold(q, 0, f)
    BY <2>1 DEF EditFold
  <2> QED
    BY <1>1, <2>2
<1>3. \A k \in 0 .. n - 1 : k \in P => k + 1 \in P
  <2> SUFFICES ASSUME NEW k \in 0 .. n - 1, k \in P PROVE k + 1 \in P
    OBVIOUS
  <2>1. k \in Nat /\ k + 1 \in 0 .. n
    BY <1>1
  <2>2. \E g : EditFold(q, k + 1, g)
    BY <2>1, EditFoldGrows
  <2> QED
    BY <2>1, <2>2
<1>4. \E f : EditFold(q, n, f)
  <2> HIDE DEF P, n
  <2>1. n \in P
    BY <1>1, <1>2, <1>3, Counting
  <2> QED
    BY <2>1 DEF P
<1>5. PICK f : EditFold(q, n, f) /\ FoldLeft(Edit, <<>>, q) = f[1 .. n]
  <2>1. FoldLeft(Edit, <<>>, q) = (CHOOSE f : EditFold(q, n, f))[1 .. n]
    BY <1>1 DEF FoldLeft, MapThenFoldSet, EditFold
  <2> QED
    BY <1>4, <2>1
<1> DEFINE h == [i \in 0 .. n |-> f[1 .. i]]
<1>6. h[0] = <<>>
  <2>1. 1 .. 0 = {} /\ {} \in SUBSET (1 .. n) /\ 0 \in 0 .. n
    BY <1>1
  <2> QED
    BY <1>5, <2>1 DEF EditFold
<1>7. ASSUME NEW i \in 1 .. n PROVE h[i] = Edit(h[i - 1], q[i])
  <2> DEFINE S == 1 .. i
  <2>1. S \in SUBSET (1 .. n) /\ S # {} /\ i \in S /\ \A y \in S : i >= y
    BY <1>1
  <2>2. Max(S) = i
    <3>1. Max(S) \in S /\ \A y \in S : Max(S) >= y
      BY <2>1 DEF Max
    <3> QED
      BY <2>1, <3>1
  <2>3. S \ {i} = 1 .. i - 1
    BY <1>1
  <2>4. f[S] = Edit(f[S \ {i}], q[i])
    <3> HIDE DEF S
    <3> QED
      BY <1>5, <2>1, <2>2 DEF EditFold
  <2>5. i \in 0 .. n /\ i - 1 \in 0 .. n
    BY <1>1
  <2> QED
    BY <2>3, <2>4, <2>5
<1>8. h[n] = FoldLeft(Edit, <<>>, q)
  BY <1>1, <1>5
<1> HIDE DEF h
<1> QED
  BY <1>6, <1>7, <1>8
-----------------------------------------------------------------------------
LEMMA EditAppend ==
  ASSUME NEW q \in Seq(Bytes), NEW c \in Bytes
  PROVE  FoldLeft(Edit, <<>>, Append(q, c)) = Edit(FoldLeft(Edit, <<>>, q), c)
<1> DEFINE p == Append(q, c)
           n == Len(q)
<1>1. /\ p \in Seq(Bytes) /\ n \in Nat /\ Len(p) = n + 1 /\ p[n + 1] = c
      /\ \A i \in 1 .. n : p[i] = q[i]
  OBVIOUS
<1> HIDE DEF p, n
<1>2. PICK h : /\ h[0] = <<>> /\ h[n] = FoldLeft(Edit, <<>>, q)
               /\ \A i \in 1 .. n : h[i] = Edit(h[i - 1], q[i])
  BY EditFolds DEF n
<1>3. PICK g : /\ g[0] = <<>> /\ g[n + 1] = FoldLeft(Edit, <<>>, p)
               /\ \A i \in 1 .. n + 1 : g[i] = Edit(g[i - 1], p[i])
  BY <1>1, EditFolds, ZenonT(60)
<1> DEFINE P == {i \in 0 .. n : g[i] = h[i]}
<1>4. 0 \in P
  BY <1>1, <1>2, <1>3
<1>5. \A k \in 0 .. n - 1 : k \in P => k + 1 \in P
  <2> SUFFICES ASSUME NEW k \in 0 .. n - 1, g[k] = h[k] PROVE g[k + 1] = h[k + 1]
    BY <1>1
  <2>1. k + 1 \in 1 .. n /\ k + 1 \in 1 .. n + 1 /\ (k + 1) - 1 = k
    BY <1>1
  <2>2. g[k + 1] = Edit(g[k], p[k + 1]) /\ h[k + 1] = Edit(h[k], q[k + 1])
    BY <1>2, <1>3, <2>1
  <2> QED
    BY <1>1, <2>1, <2>2
<1>6. g[n] = h[n]
  <2> HIDE DEF P
  <2>1. n \in Nat
    BY <1>1
  <2>2. \A k \in 0 .. n : k \in P
    BY <2>1, <1>4, <1>5, Counting
  <2>3. n \in P
    BY <2>1, <2>2
  <2> QED
    BY <2>3 DEF P
<1>7. g[n + 1] = Edit(g[n], p[n + 1])
  <2>1. n + 1 \in 1 .. n + 1 /\ (n + 1) - 1 = n
    BY <1>1
  <2> QED
    BY <1>3, <2>1
<1> QED
  BY <1>1, <1>2, <1>3, <1>6, <1>7 DEF p

LEMMA EditNone == FoldLeft(Edit, <<>>, <<>>) = <<>>
<1>1. <<>> \in Seq(Bytes) /\ Len(<<>>) = 0
  OBVIOUS
<1> QED
  BY <1>1, EditFolds
-----------------------------------------------------------------------------
Contents(r) == [i \in 1 .. Used(r) |-> r.buf[(r.tail + i - 1) % RingSize]]
Place(t, j) == IF t + j < RingSize THEN t + j ELSE t + j - RingSize

LEMMA RingIs ==
  ASSUME UartSizes, NEW r \in Rings
  PROVE  /\ Used(r) = IF r.tail <= r.head THEN r.head - r.tail ELSE r.head - r.tail + RingSize
         /\ Used(r) \in Indices /\ RingSize \in Nat \ {0}
         /\ After(r.head) = Place(r.head, 1) /\ After(r.tail) = Place(r.tail, 1)
         /\ After(r.head) \in Indices /\ After(r.tail) \in Indices
         /\ r.head \in Indices /\ r.tail \in Indices
         /\ Contents(r) \in Seq(Bytes) /\ Len(Contents(r)) = Used(r)
         /\ \A i \in 1 .. Used(r) : /\ Place(r.tail, i - 1) \in Indices
                                    /\ Contents(r)[i] = r.buf[Place(r.tail, i - 1)]
<1>1. r.head \in Indices /\ r.tail \in Indices /\ RingSize \in Nat \ {0} /\ r.buf \in [Indices -> Bytes]
  BY DEF UartSizes, Rings
<1>2. Used(r) = IF r.tail <= r.head THEN r.head - r.tail ELSE r.head - r.tail + RingSize
  <2>1. r.head - r.tail \in Int /\ (-RingSize) <= r.head - r.tail /\ r.head - r.tail < RingSize
    BY <1>1 DEF Indices
  <2>2. r.tail <= r.head <=> 0 <= r.head - r.tail
    BY <1>1 DEF Indices
  <2> QED
    BY <1>1, <2>1, <2>2, Wrapped DEF Used
<1>3. Used(r) \in Indices
  BY <1>1, <1>2 DEF Indices
<1>4. \A t \in Indices, j \in 0 .. RingSize : (t + j) % RingSize = Place(t, j) /\ Place(t, j) \in Indices
  <2> SUFFICES ASSUME NEW t \in Indices, NEW j \in 0 .. RingSize, t + j < 2 * RingSize
               PROVE  (t + j) % RingSize = Place(t, j) /\ Place(t, j) \in Indices
    BY <1>1 DEF Indices
  <2> DEFINE x == t + j
  <2>1. x \in Int /\ 0 <= x /\ x < 2 * RingSize /\ RingSize \in Nat \ {0}
    BY <1>1 DEF Indices
  <2> HIDE DEF x
  <2>2. CASE x < RingSize
    <3>1. x % RingSize = x
      BY <2>1, <2>2, Wrapped
    <3>2. x \in Indices
      BY <2>1, <2>2 DEF Indices
    <3> QED
      BY <2>2, <3>1, <3>2 DEF Place, x
  <2>3. CASE RingSize <= x
    <3>1. x % RingSize = x - RingSize
      BY <2>1, <2>3, Wrapped
    <3>2. x - RingSize \in Indices /\ ~(x < RingSize)
      BY <2>1, <2>3 DEF Indices
    <3>3. Place(t, j) = x - RingSize
      BY <1>1, <3>2 DEF Place, Indices, x
    <3>4. (t + j) % RingSize = x % RingSize
      BY DEF x
    <3> QED
      BY <3>1, <3>2, <3>3, <3>4, Zenon
  <2> QED
    BY <2>1, <2>2, <2>3
<1>5. 1 \in 0 .. RingSize
  BY <1>1
<1>6. After(r.head) = Place(r.head, 1) /\ After(r.tail) = Place(r.tail, 1) /\ After(r.head) \in Indices /\ After(r.tail) \in Indices
  BY <1>1, <1>4, <1>5 DEF After
<1>7. ASSUME NEW i \in 1 .. Used(r)
      PROVE  (r.tail + i - 1) % RingSize = Place(r.tail, i - 1) /\ Place(r.tail, i - 1) \in Indices
  <2>1. i - 1 \in 0 .. RingSize /\ r.tail + i - 1 = r.tail + (i - 1)
    BY <1>1, <1>3 DEF Indices
  <2> QED
    BY <1>1, <1>4, <2>1
<1>8. Used(r) \in Nat
  BY <1>3 DEF Indices
<1>9. \A i \in 1 .. Used(r) : Contents(r)[i] = r.buf[Place(r.tail, i - 1)] /\ r.buf[Place(r.tail, i - 1)] \in Bytes
  BY <1>1, <1>7 DEF Contents
<1>10. Contents(r) \in Seq(Bytes) /\ Len(Contents(r)) = Used(r)
  <2>1. DOMAIN Contents(r) = 1 .. Used(r) /\ Contents(r) = [i \in 1 .. Used(r) |-> Contents(r)[i]]
    BY DEF Contents
  <2> QED
    BY <1>8, <1>9, <2>1
<1> QED
  BY <1>1, <1>2, <1>3, <1>6, <1>7, <1>9, <1>10

\* A byte joins the contents of a ring that has room for it, and no other.
LEMMA PutRing ==
  ASSUME UartSizes, NEW r \in Rings, NEW c \in Bytes
  PROVE  /\ Put(r, c) \in Rings
         /\ Used(r) < RingSize - 1 => Contents(Put(r, c)) = Append(Contents(r), c)
         /\ ~(Used(r) < RingSize - 1) => Put(r, c) = r
<1>1. After(r.head) # r.tail <=> Used(r) < RingSize - 1
  <2>1. /\ Used(r) = IF r.tail <= r.head THEN r.head - r.tail ELSE r.head - r.tail + RingSize
        /\ After(r.head) = Place(r.head, 1) /\ RingSize \in Nat \ {0}
        /\ r.head \in 0 .. RingSize - 1 /\ r.tail \in 0 .. RingSize - 1
    BY RingIs DEF Indices
  <2> QED
    BY <2>1 DEF Place
<1>2. CASE After(r.head) = r.tail
  BY <1>1, <1>2 DEF Put
<1>3. CASE After(r.head) # r.tail
  <2> DEFINE p == Put(r, c)
  <2>1. p = [buf |-> [r.buf EXCEPT ![r.head] = c], head |-> After(r.head), tail |-> r.tail]
    <3>1. ASSUME NEW g, g = [r EXCEPT !.buf[r.head] = c, !.head = After(r.head)]
          PROVE  g = [buf |-> [r.buf EXCEPT ![r.head] = c], head |-> After(r.head), tail |-> r.tail]
      BY <3>1 DEF Rings
    <3>2. p = [r EXCEPT !.buf[r.head] = c, !.head = After(r.head)]
      BY <1>3 DEF Put
    <3> QED
      BY <3>1, <3>2
  <2>2. p \in Rings
    <3>1. [r.buf EXCEPT ![r.head] = c] \in [Indices -> Bytes]
      BY DEF Rings
    <3> QED
      BY <2>1, <3>1, RingIs DEF Rings
  <2>3. p.tail = r.tail /\ p.head = Place(r.head, 1) /\ \A i \in Indices : p.buf[i] = IF i = r.head THEN c ELSE r.buf[i]
    BY <2>1, RingIs DEF Rings
  <2> HIDE DEF p
  <2>4. Used(p) = Used(r) + 1
    <3>1. /\ Used(p) = IF p.tail <= p.head THEN p.head - p.tail ELSE p.head - p.tail + RingSize
          /\ Used(r) = IF r.tail <= r.head THEN r.head - r.tail ELSE r.head - r.tail + RingSize
      BY <2>2, RingIs
    <3>2. Used(r) < RingSize - 1 /\ RingSize \in Nat \ {0} /\ r.head \in 0 .. RingSize - 1 /\ r.tail \in 0 .. RingSize - 1
      BY <1>1, <1>3, RingIs DEF Indices
    <3> QED
      BY <2>3, <3>1, <3>2 DEF Place
  <2>5. /\ Contents(p) \in Seq(Bytes) /\ Len(Contents(p)) = Used(r) + 1
        /\ Contents(r) \in Seq(Bytes) /\ Len(Contents(r)) = Used(r) /\ Used(r) \in Nat
    BY <2>2, <2>4, RingIs DEF Indices
  <2>6. \A i \in 1 .. Used(r) : Contents(p)[i] = Contents(r)[i]
    <3> SUFFICES ASSUME NEW i \in 1 .. Used(r) PROVE Contents(p)[i] = Contents(r)[i]
      OBVIOUS
    <3>1. i \in 1 .. Used(p)
      BY <2>4, <2>5
    <3>2. Contents(p)[i] = p.buf[Place(r.tail, i - 1)]
      BY <2>2, <2>3, <3>1, RingIs
    <3>3. Place(r.tail, i - 1) \in Indices /\ Contents(r)[i] = r.buf[Place(r.tail, i - 1)]
      BY RingIs
    <3>4. Place(r.tail, i - 1) # r.head
      <4>1. /\ Used(r) = IF r.tail <= r.head THEN r.head - r.tail ELSE r.head - r.tail + RingSize
            /\ r.head \in 0 .. RingSize - 1 /\ r.tail \in 0 .. RingSize - 1 /\ RingSize \in Nat
        BY RingIs DEF Indices
      <4> QED
        BY <4>1 DEF Place
    <3> QED
      BY <2>3, <3>2, <3>3, <3>4
  <2>7. Contents(p)[Used(r) + 1] = c
    <3>1. Used(r) + 1 \in 1 .. Used(p) /\ (Used(r) + 1) - 1 = Used(r)
      BY <2>4, <2>5
    <3>2. Contents(p)[Used(r) + 1] = p.buf[Place(r.tail, Used(r))]
      BY <2>2, <2>3, <3>1, RingIs
    <3>3. Place(r.tail, Used(r)) = r.head
      <4>1. /\ Used(r) = IF r.tail <= r.head THEN r.head - r.tail ELSE r.head - r.tail + RingSize
            /\ r.head \in 0 .. RingSize - 1 /\ r.tail \in 0 .. RingSize - 1 /\ RingSize \in Nat
        BY RingIs DEF Indices
      <4> QED
        BY <4>1 DEF Place
    <3> QED
      BY <2>3, <3>2, <3>3, RingIs
  <2>8. Contents(p) = Append(Contents(r), c)
    <3> DEFINE a == Contents(p)
               b == Contents(r)
               n == Used(r)
    <3>1. /\ a \in Seq(Bytes) /\ Len(a) = n + 1 /\ b \in Seq(Bytes) /\ Len(b) = n /\ n \in Nat
          /\ \A i \in 1 .. n : a[i] = b[i]
          /\ a[n + 1] = c
      BY <2>5, <2>6, <2>7
    <3> HIDE DEF a, b, n
    <3> QED
      BY <3>1 DEF a, b, n
  <2> QED
    BY <1>1, <1>3, <2>2, <2>8 DEF p
<1> QED
  BY <1>2, <1>3

\* As many bytes as the indices are apart.
LEMMA CountIs ==
  ASSUME UartSizes, NEW r \in Rings
  PROVE  Contents(r) \in Seq(Bytes) /\ Len(Contents(r)) = Used(r) /\ Used(r) \in Nat
BY RingIs DEF Indices

\* A ring is empty just when both of its indices are the same.
LEMMA EmptyRing ==
  ASSUME UartSizes, NEW r \in Rings
  PROVE  r.head = r.tail <=> Used(r) = 0
<1>1. /\ Used(r) = IF r.tail <= r.head THEN r.head - r.tail ELSE r.head - r.tail + RingSize
      /\ RingSize \in Nat \ {0} /\ r.head \in 0 .. RingSize - 1 /\ r.tail \in 0 .. RingSize - 1
  BY RingIs DEF Indices
<1> QED
  BY <1>1

Fitting(k, room) == IF k < room THEN k ELSE room

\* One more byte of the sequence joins what its prefix came to.
LEMMA PrefixGrows ==
  ASSUME NEW S, NEW a \in Seq(S), NEW q \in Seq(S), NEW k \in 0 .. Len(q) - 1
  PROVE  Append(a \o SubSeq(q, 1, k), q[k + 1]) = a \o SubSeq(q, 1, k + 1)
<1> DEFINE b == SubSeq(q, 1, k)
           d == SubSeq(q, 1, k + 1)
           c == q[k + 1]
<1>1. /\ b \in Seq(S) /\ d \in Seq(S) /\ c \in S /\ k \in Nat /\ Len(b) = k /\ Len(d) = k + 1
      /\ \A i \in 1 .. k : b[i] = d[i]
      /\ d[k + 1] = c
  OBVIOUS
<1> HIDE DEF b, d, c
<1>2. d = Append(b, c)
  BY <1>1
<1>3. Append(a \o b, c) = a \o Append(b, c)
  <2>1. a \o b \in Seq(S) /\ <<c>> \in Seq(S)
    BY <1>1, ConcatProperties
  <2>2. Append(a \o b, c) = (a \o b) \o <<c>> /\ Append(b, c) = b \o <<c>>
    BY <1>1, <2>1, AppendIsConcat
  <2>3. (a \o b) \o <<c>> = a \o (b \o <<c>>)
    <3>1. a \in Seq(S) /\ b \in Seq(S)
      BY <1>1
    <3> QED
      BY <2>1, <3>1, ConcatAssociative, SMTT(60)
  <2> QED
    BY <2>2, <2>3, Zenon
<1> QED
  BY <1>2, <1>3 DEF b, d, c

\* The handler's loop puts as many bytes in the ring as it has room for, in order, and no more.
LEMMA PutAll ==
  ASSUME UartSizes, NEW r \in Rings, NEW q \in Seq(Bytes)
  PROVE  /\ Filled(r, q) \in Rings
         /\ Contents(Filled(r, q)) = Contents(r) \o SubSeq(q, 1, Fitting(Len(q), RingSize - 1 - Used(r)))
         /\ q = <<>> => Filled(r, q) = r
<1> DEFINE n == Len(q)
           room == RingSize - 1 - Used(r)
<1>1. n \in Nat /\ room \in Nat
  BY RingIs DEF Indices
<1>2. PICK h : /\ h[0] = r /\ h[n] = Filled(r, q)
               /\ \A i \in 1 .. n : h[i] = Put(h[i - 1], q[i])
  BY PutFolds
<1> DEFINE P == {k \in 0 .. n : /\ h[k] \in Rings
                                /\ Contents(h[k]) = Contents(r) \o SubSeq(q, 1, Fitting(k, room))}
<1>3. Contents(r) \in Seq(Bytes) /\ Len(Contents(r)) = Used(r) /\ Used(r) \in Nat
  BY RingIs DEF Indices
<1>4. 0 \in P
  <2>1. Fitting(0, room) = 0
    <3> HIDE DEF room
    <3> QED
      BY <1>1 DEF Fitting
  <2>2. SubSeq(q, 1, 0) = <<>>
    OBVIOUS
  <2>3. Contents(r) \o <<>> = Contents(r)
    BY <1>3, ConcatEmptySeq
  <2>4. 0 \in 0 .. n
    BY <1>1
  <2> HIDE DEF room, n
  <2> QED
    BY <1>2, <2>1, <2>2, <2>3, <2>4
<1>5. \A k \in 0 .. n - 1 : k \in P => k + 1 \in P
  <2> SUFFICES ASSUME NEW k \in 0 .. n - 1, k \in P PROVE k + 1 \in P
    OBVIOUS
  <2>0. h[k] \in Rings /\ Contents(h[k]) = Contents(r) \o SubSeq(q, 1, Fitting(k, room))
    <3> HIDE DEF room, n
    <3> QED
      OBVIOUS
  <2>1. k + 1 \in 1 .. n /\ (k + 1) - 1 = k /\ k \in Nat
    BY <1>1
  <2>2. h[k + 1] = Put(h[k], q[k + 1])
    BY <1>2, <2>1
  <2>3. q[k + 1] \in Bytes
    BY <2>1
  <2>4. Used(h[k]) = Used(r) + Fitting(k, room)
    <3>1. Used(h[k]) = Len(Contents(h[k]))
      BY <2>0, RingIs
    <3>2. Fitting(k, room) \in 0 .. n
      BY <1>1, <2>1 DEF Fitting
    <3>3. SubSeq(q, 1, Fitting(k, room)) \in Seq(Bytes) /\ Len(SubSeq(q, 1, Fitting(k, room))) = Fitting(k, room)
      BY <3>2
    <3>4. Len(Contents(h[k])) = Len(Contents(r)) + Fitting(k, room)
      BY <1>3, <2>0, <3>3
    <3> QED
      BY <1>3, <3>1, <3>4
  <2>5. ASSUME k < room PROVE h[k + 1] \in Rings /\ Contents(h[k + 1]) = Contents(r) \o SubSeq(q, 1, Fitting(k + 1, room))
    <3>1. Fitting(k, room) = k /\ Fitting(k + 1, room) = k + 1
      <4> HIDE DEF room
      <4> QED
        BY <1>1, <2>1, <2>5 DEF Fitting
    <3>2. Used(h[k]) < RingSize - 1
      <4>1. Used(r) \in Nat /\ RingSize \in Nat
        BY <1>3 DEF UartSizes
      <4> QED
        BY <2>1, <2>4, <2>5, <3>1, <4>1
    <3>3. Contents(h[k + 1]) = Append(Contents(h[k]), q[k + 1]) /\ h[k + 1] \in Rings
      BY <2>0, <2>2, <2>3, <3>2, PutRing
    <3>4. Append(Contents(r) \o SubSeq(q, 1, k), q[k + 1]) = Contents(r) \o SubSeq(q, 1, k + 1)
      BY <1>3, PrefixGrows
    <3> QED
      BY <2>0, <3>1, <3>3, <3>4
  <2>6. ASSUME ~(k < room) PROVE h[k + 1] \in Rings /\ Contents(h[k + 1]) = Contents(r) \o SubSeq(q, 1, Fitting(k + 1, room))
    <3>1. Fitting(k, room) = room /\ Fitting(k + 1, room) = room
      <4> HIDE DEF room
      <4> QED
        BY <1>1, <2>1, <2>6 DEF Fitting
    <3>2. ~(Used(h[k]) < RingSize - 1)
      <4>1. Used(r) \in Nat /\ RingSize \in Nat
        BY <1>3 DEF UartSizes
      <4> QED
        BY <2>4, <3>1, <4>1
    <3>3. h[k + 1] = h[k]
      BY <2>0, <2>2, <2>3, <3>2, PutRing
    <3> QED
      BY <2>0, <3>1, <3>3
  <2>7. h[k + 1] \in Rings /\ Contents(h[k + 1]) = Contents(r) \o SubSeq(q, 1, Fitting(k + 1, room))
    BY <2>5, <2>6
  <2>8. k + 1 \in 0 .. n
    BY <1>1
  <2> HIDE DEF room, n
  <2> QED
    BY <2>7, <2>8
<1>6. h[n] \in Rings /\ Contents(h[n]) = Contents(r) \o SubSeq(q, 1, Fitting(n, room))
  <2> HIDE DEF P
  <2>1. \A k \in 0 .. n : k \in P
    BY <1>1, <1>4, <1>5, Counting
  <2>2. n \in P
    BY <1>1, <2>1
  <2> QED
    BY <2>2 DEF P
<1>7. q = <<>> => h[n] = r
  BY <1>2
<1> QED
  BY <1>2, <1>6, <1>7

\* The first byte leaves the contents.
LEMMA TakeRing ==
  ASSUME UartSizes, NEW r \in Rings, r.head # r.tail
  PROVE  LET p == [r EXCEPT !.tail = After(@)]
         IN /\ p \in Rings /\ r.buf[r.tail] \in Bytes
            /\ Contents(r) = <<r.buf[r.tail]>> \o Contents(p)
<1> DEFINE p == [r EXCEPT !.tail = After(@)]
<1>1. p = [buf |-> r.buf, head |-> r.head, tail |-> After(r.tail)]
  BY DEF Rings
<1>2. p \in Rings /\ r.buf[r.tail] \in Bytes
  BY <1>1, RingIs DEF Rings
<1>3. p.buf = r.buf /\ p.head = r.head /\ p.tail = Place(r.tail, 1)
  BY <1>1, RingIs
<1> HIDE DEF p
<1>4. /\ Used(p) = IF p.tail <= p.head THEN p.head - p.tail ELSE p.head - p.tail + RingSize
      /\ Used(r) = IF r.tail <= r.head THEN r.head - r.tail ELSE r.head - r.tail + RingSize
      /\ r.head \in 0 .. RingSize - 1 /\ r.tail \in 0 .. RingSize - 1 /\ RingSize \in Nat \ {0}
      /\ Used(r) \in 0 .. RingSize - 1
  BY <1>2, RingIs DEF Indices
<1>5. Used(r) = Used(p) + 1 /\ Used(p) \in Nat
  <2>1. p.head = r.head /\ r.head # r.tail /\ p.tail = IF r.tail + 1 < RingSize THEN r.tail + 1 ELSE r.tail + 1 - RingSize
    BY <1>3 DEF Place
  <2> QED
    BY <1>4, <2>1
<1>6. /\ Contents(p) \in Seq(Bytes) /\ Len(Contents(p)) = Used(p)
      /\ Contents(r) \in Seq(Bytes) /\ Len(Contents(r)) = Used(p) + 1
  BY <1>2, <1>5, RingIs
<1>7. Contents(r)[1] = r.buf[r.tail]
  <2>1. 1 \in 1 .. Used(r) /\ Place(r.tail, 1 - 1) = r.tail
    BY <1>4, <1>5 DEF Place
  <2> QED
    BY <2>1, RingIs
<1>8. \A i \in 1 .. Used(p) : Contents(r)[i + 1] = Contents(p)[i]
  <2> SUFFICES ASSUME NEW i \in 1 .. Used(p) PROVE Contents(r)[i + 1] = Contents(p)[i]
    OBVIOUS
  <2>1. i + 1 \in 1 .. Used(r) /\ (i + 1) - 1 = i
    BY <1>5
  <2>2. Contents(r)[i + 1] = r.buf[Place(r.tail, i)]
    BY <2>1, RingIs
  <2>3. Contents(p)[i] = r.buf[Place(p.tail, i - 1)]
    BY <1>2, <1>3, RingIs
  <2>4. Place(p.tail, i - 1) = Place(r.tail, i)
    BY <1>3, <1>4, <1>5 DEF Place
  <2> QED
    BY <2>2, <2>3, <2>4
<1>9. Contents(r) = <<r.buf[r.tail]>> \o Contents(p)
  <2> DEFINE a == Contents(r)
             b == Contents(p)
             n == Used(p)
             c == r.buf[r.tail]
  <2>1. /\ a \in Seq(Bytes) /\ Len(a) = n + 1 /\ b \in Seq(Bytes) /\ Len(b) = n /\ n \in Nat /\ c \in Bytes
        /\ a[1] = c /\ \A i \in 1 .. n : a[i + 1] = b[i]
    BY <1>2, <1>5, <1>6, <1>7, <1>8
  <2> HIDE DEF a, b, n, c
  <2>2. /\ <<c>> \o b \in Seq(Bytes) /\ Len(<<c>> \o b) = n + 1
        /\ \A i \in 1 .. n + 1 : (<<c>> \o b)[i] = IF i = 1 THEN c ELSE b[i - 1]
    BY <2>1
  <2>3. \A i \in 1 .. n + 1 : a[i] = (<<c>> \o b)[i]
    <3> SUFFICES ASSUME NEW i \in 1 .. n + 1, i # 1 PROVE a[i] = b[i - 1]
      BY <2>1, <2>2
    <3>1. i - 1 \in 1 .. n /\ (i - 1) + 1 = i
      BY <2>1
    <3> QED
      BY <2>1, <3>1
  <2>4. a = <<c>> \o b
    BY <2>1, <2>2, <2>3
  <2> QED
    BY <2>4 DEF a, b, c
<1> QED
  BY <1>2, <1>9 DEF p
-----------------------------------------------------------------------------
Hw == [rx : Seq(Bytes), overrun : BOOLEAN, ready : BOOLEAN, armed : BOOLEAN]
Console == [pc : {"await", "go", "waiting"}, event : {"read", "write"}, line : Seq(Bytes), byte : Bytes,
            out : Seq(Bytes \cup {"space"})]
Runner == [phase : {"run", "round", "others", "poll", "idle"}, flag : BOOLEAN]
Line(s) == FoldLeft(Edit, <<>>, s)

UartTypes ==
  /\ hw \in Hw /\ ring \in Rings /\ console \in Console /\ runner \in Runner
  /\ typed \in Seq(Bytes) /\ got \in Seq(Bytes)

\* What was read, then what the ring holds, is what was typed.
NothingLost == typed = got \o Contents(ring)

\* The console task runs just when it does not wait; one that goes to read has a byte there.
TaskResumed ==
  /\ runner.phase = "run" <=> console.pc # "waiting"
  /\ console.pc = "go" /\ console.event = "read" => ring.head # ring.tail

\* The line is that of the bytes read, the last of which counts only once it is echoed.
LineEdited ==
  /\ console.event = "read" => console.line = Line(got)
  /\ console.event = "write" => console.out # <<>> /\ Edit(console.line, console.byte) = Line(got)

\* No event that the task waits for comes unseen.
IdleSees ==
  runner.phase = "idle" /\ ~runner.flag =>
    IF console.event = "read" THEN ring.head = ring.tail ELSE hw.armed

Served == UartTypes /\ NothingLost /\ TaskResumed /\ LineEdited /\ IdleSees

LEMMA ServedMeans ==
  ASSUME UartSizes, Served
  PROVE  ConsoleServed
<1>1. Held = Contents(ring)
  BY DEF Held, Contents
<1>2. typed = got \o Held
  BY <1>1 DEF Served, NothingLost
<1>3. console.pc # "over"
  BY DEF Served, UartTypes, Console
<1>4. console.event = "read" => console.line = FoldLeft(Edit, <<>>, got)
  BY DEF Served, LineEdited, Line
<1>5. runner.phase = "idle" /\ ~runner.flag => IF console.event = "read" THEN ~Available("read") ELSE hw.armed
  BY DEF Served, IdleSees, Available
<1> QED
  BY <1>2, <1>3, <1>4, <1>5 DEF ConsoleServed

LEMMA ServedInit ==
  ASSUME UartSizes, UartInit
  PROVE  Served
<1>1. hw \in Hw
  BY DEF UartInit, Hw
<1>2. ring \in Rings /\ ring.head = ring.tail
  BY DEF UartInit, UartSizes, Rings, Indices, Bytes
<1>3. console \in Console
  BY DEF UartInit, Console, Bytes
<1>4. runner \in Runner
  BY DEF UartInit, Runner
<1>5. typed = <<>> /\ got = <<>> /\ <<>> \in Seq(Bytes)
  BY DEF UartInit
<1>6. Contents(ring) = <<>>
  <2>1. Used(ring) = 0 /\ Contents(ring) \in Seq(Bytes) /\ Len(Contents(ring)) = Used(ring)
    BY <1>2, EmptyRing, RingIs
  <2> QED
    BY <2>1
<1>7. NothingLost
  BY <1>5, <1>6 DEF NothingLost
<1>8. TaskResumed /\ IdleSees
  BY DEF UartInit, TaskResumed, IdleSees
<1>9. LineEdited
  BY <1>5, EditNone DEF UartInit, LineEdited, Line
<1> QED
  BY <1>1, <1>2, <1>3, <1>4, <1>5, <1>7, <1>8, <1>9 DEF Served, UartTypes
-----------------------------------------------------------------------------
LEMMA EditTyped ==
  ASSUME NEW line \in Seq(Bytes), NEW c \in Bytes
  PROVE  Edit(line, c) \in Seq(Bytes)
<1>1. <<>> \in Seq(Bytes) /\ Append(line, c) \in Seq(Bytes)
  OBVIOUS
<1>2. line # <<>> => Front(line) \in Seq(Bytes)
  BY DEF Front
<1> QED
  BY <1>1, <1>2 DEF Edit

LEMMA HandlerServes ==
  ASSUME UartSizes, Served, Handler
  PROVE  Served'
<1> DEFINE sent == hw.ready /\ hw.armed
           q == hw.rx
           n == Fitting(Len(q), RingSize - 1 - Used(ring))
<1>1. /\ hw \in Hw /\ ring \in Rings /\ console \in Console /\ runner \in Runner
      /\ typed \in Seq(Bytes) /\ got \in Seq(Bytes) /\ q \in Seq(Bytes)
  BY DEF Served, UartTypes, Hw
<1>2. ring' = Filled(ring, q) /\ typed' = typed \o SubSeq(q, 1, n)
  BY DEF Handler, Filled, Fitting
<1>3. console' = console /\ got' = got
  BY DEF Handler
<1>4. hw' \in Hw /\ hw'.armed = (hw.armed /\ ~sent)
  <2> DEFINE still == hw.armed /\ ~sent
  <2>1. hw' = [hw EXCEPT !.rx = <<>>, !.overrun = FALSE, !.armed = still]
    BY DEF Handler
  <2>2. still \in BOOLEAN
    OBVIOUS
  <2> HIDE DEF still
  <2>3. ASSUME NEW g, g = [hw EXCEPT !.rx = <<>>, !.overrun = FALSE, !.armed = still]
        PROVE  g \in Hw /\ g.armed = still
    <3>1. g = [rx |-> <<>>, overrun |-> FALSE, ready |-> hw.ready, armed |-> still]
      BY <1>1, <2>3 DEF Hw
    <3>2. <<>> \in Seq(Bytes) /\ hw.ready \in BOOLEAN
      BY <1>1 DEF Hw
    <3> QED
      BY <2>2, <3>1, <3>2 DEF Hw
  <2>4. hw' \in Hw /\ hw'.armed = still
    BY <2>1, <2>3
  <2> QED
    BY <2>4 DEF still
<1>5. /\ runner' \in Runner /\ runner'.phase = runner.phase
      /\ runner'.flag = (runner.flag \/ (q # <<>> /\ Waiting("read")) \/ (sent /\ Waiting("write")))
  <2> DEFINE told == (q # <<>> /\ Waiting("read")) \/ (sent /\ Waiting("write"))
  <2>1. runner' = [runner EXCEPT !.flag = @ \/ told]
    BY DEF Handler
  <2>2. told \in BOOLEAN
    BY DEF Waiting
  <2> HIDE DEF told
  <2>3. ASSUME NEW g, g = [runner EXCEPT !.flag = @ \/ told]
        PROVE  g \in Runner /\ g.phase = runner.phase /\ g.flag = (runner.flag \/ told)
    BY <1>1, <2>2, <2>3 DEF Runner
  <2>4. runner' \in Runner /\ runner'.phase = runner.phase /\ runner'.flag = (runner.flag \/ told)
    BY <2>1, <2>3
  <2> QED
    BY <2>4 DEF told
<1> HIDE DEF q, n, sent
<1>6. /\ ring' \in Rings /\ Contents(ring') = Contents(ring) \o SubSeq(q, 1, n)
      /\ q = <<>> => ring' = ring
  BY <1>1, <1>2, PutAll DEF q, n
<1>7. SubSeq(q, 1, n) \in Seq(Bytes)
  <2>1. n \in 0 .. Len(q)
    <3>1. Used(ring) \in 0 .. RingSize - 1 /\ RingSize \in Nat \ {0}
      BY <1>1, RingIs DEF Indices
    <3>2. Len(q) \in Nat
      BY <1>1
    <3> QED
      BY <3>1, <3>2 DEF n, Fitting
  <2> QED
    BY <1>1, <2>1
<1>8. typed' \in Seq(Bytes)
  BY <1>1, <1>2, <1>7, ConcatProperties
<1>9. NothingLost'
  <2>1. Contents(ring) \in Seq(Bytes)
    BY <1>1, RingIs
  <2>2. typed = got \o Contents(ring)
    BY DEF Served, NothingLost
  <2>3. (got \o Contents(ring)) \o SubSeq(q, 1, n) = got \o (Contents(ring) \o SubSeq(q, 1, n))
    <3>1. got \in Seq(Bytes)
      BY <1>1
    <3> QED
      BY <1>7, <2>1, <3>1, ConcatAssociative, SMTT(60)
  <2>4. Contents(ring)' = Contents(ring')
    BY DEF Contents, Used
  <2> QED
    BY <1>2, <1>3, <1>6, <2>2, <2>3, <2>4 DEF NothingLost
<1>10. ring.head # ring.tail => ring'.head # ring'.tail
  <2>1. Contents(ring) \in Seq(Bytes) /\ Len(Contents(ring)) = Used(ring) /\ Used(ring) \in Nat
    BY <1>1, CountIs
  <2>2. Len(Contents(ring')) = Used(ring') /\ Used(ring') \in Nat
    BY <1>6, CountIs
  <2>3. Len(SubSeq(q, 1, n)) \in Nat
    BY <1>7
  <2>4. Len(Contents(ring')) = Len(Contents(ring)) + Len(SubSeq(q, 1, n))
    BY <1>6, <1>7, <2>1, ConcatProperties
  <2>5. Used(ring) # 0 => Used(ring') # 0
    <3> DEFINE a == Len(Contents(ring))
               b == Len(SubSeq(q, 1, n))
               d == Len(Contents(ring'))
    <3>1. a \in Nat /\ b \in Nat /\ d = a + b
      BY <2>1, <2>3, <2>4
    <3> HIDE DEF a, b, d
    <3>2. a # 0 => d # 0
      BY <3>1
    <3> QED
      BY <2>1, <2>2, <3>2, Zenon DEF a, d
  <2> QED
    BY <1>1, <1>6, <2>5, EmptyRing
<1>11. TaskResumed'
  BY <1>3, <1>5, <1>10 DEF Served, TaskResumed
<1>12. LineEdited'
  BY <1>3 DEF Served, LineEdited
<1>13. IdleSees'
  <2> SUFFICES ASSUME runner.phase = "idle", ~runner.flag, ~(q # <<>> /\ Waiting("read")), ~(sent /\ Waiting("write"))
               PROVE  IF console.event = "read" THEN ring'.head = ring'.tail ELSE hw'.armed
    BY <1>3, <1>5 DEF IdleSees
  <2>1. console.pc = "waiting" /\ console.event \in {"read", "write"}
    BY <1>1 DEF Served, TaskResumed, Console
  <2>2. IF console.event = "read" THEN ring.head = ring.tail ELSE hw.armed
    BY DEF Served, IdleSees
  <2>3. CASE console.event = "read"
    BY <1>6, <2>1, <2>2, <2>3 DEF Waiting
  <2>4. CASE console.event = "write"
    BY <1>4, <2>1, <2>2, <2>4 DEF Waiting
  <2> QED
    BY <2>1, <2>3, <2>4
<1> QED
  BY <1>1, <1>3, <1>4, <1>5, <1>6, <1>8, <1>9, <1>11, <1>12, <1>13 DEF Served, UartTypes

\* What a step does not touch of the ring's side.
LEMMA RingStays ==
  ASSUME Served, UNCHANGED <<ring, typed, got>>
  PROVE  NothingLost'
BY DEF Served, NothingLost, Contents, Used

LEMMA ArmedIs ==
  ASSUME NEW event, hw \in Hw
  PROVE  Armed(event) \in Hw /\ (event = "write" /\ ~hw.ready => Armed(event).armed) /\ (hw.armed => Armed(event).armed)
<1>1. ASSUME NEW g, g = [hw EXCEPT !.armed = TRUE] PROVE g \in Hw /\ g.armed
  BY <1>1 DEF Hw
<1> QED
  BY <1>1 DEF Armed

LEMMA WaitForEventServes ==
  ASSUME UartSizes, Served, WaitForEvent
  PROVE  Served'
<1>1. /\ hw \in Hw /\ ring \in Rings /\ console \in Console /\ runner \in Runner
      /\ typed \in Seq(Bytes) /\ got \in Seq(Bytes)
  BY DEF Served, UartTypes
<1>2. UNCHANGED <<ring, typed, got>> /\ hw' = Armed(console.event) /\ runner.phase = "run"
  BY DEF WaitForEvent
<1>3. hw' \in Hw
  BY <1>1, <1>2, ArmedIs
<1>4. /\ console' \in Console /\ console'.line = console.line /\ console'.byte = console.byte
      /\ console'.out = console.out /\ console'.event = console.event
      /\ IF Available(console.event) THEN console'.pc = "go" /\ runner' = runner
         ELSE console'.pc = "waiting" /\ runner' \in Runner /\ runner'.phase = "round"
  <2>1. ASSUME NEW pc \in {"go", "waiting"}, NEW g, g = [console EXCEPT !.pc = pc]
        PROVE  /\ g \in Console /\ g.line = console.line /\ g.byte = console.byte
               /\ g.out = console.out /\ g.event = console.event /\ g.pc = pc
    BY <1>1, <2>1 DEF Console
  <2>2. ASSUME NEW g, g = [runner EXCEPT !.phase = "round"] PROVE g \in Runner /\ g.phase = "round"
    BY <1>1, <2>2 DEF Runner
  <2>3. CASE Available(console.event)
    <3>1. console' = [console EXCEPT !.pc = "go"] /\ runner' = runner
      BY <2>3 DEF WaitForEvent
    <3> QED
      BY <2>1, <2>3, <3>1
  <2>4. CASE ~Available(console.event)
    <3>1. console' = [console EXCEPT !.pc = "waiting"] /\ runner' = [runner EXCEPT !.phase = "round"]
      BY <2>4 DEF WaitForEvent
    <3> QED
      BY <2>1, <2>2, <2>4, <3>1
  <2> QED
    BY <2>3, <2>4
<1>5. NothingLost'
  BY <1>2, RingStays
<1>6. TaskResumed' /\ IdleSees'
  BY <1>2, <1>4 DEF TaskResumed, IdleSees, Available
<1>7. LineEdited'
  BY <1>2, <1>4 DEF Served, LineEdited
<1>8. runner' \in Runner
  BY <1>1, <1>4
<1> QED
  BY <1>1, <1>2, <1>3, <1>4, <1>5, <1>6, <1>7, <1>8 DEF Served, UartTypes

LEMMA PollServes ==
  ASSUME UartSizes, Served, Poll
  PROVE  Served'
<1>1. /\ hw \in Hw /\ ring \in Rings /\ console \in Console /\ runner \in Runner
      /\ typed \in Seq(Bytes) /\ got \in Seq(Bytes)
  BY DEF Served, UartTypes
<1>2. UNCHANGED <<ring, typed, got>> /\ hw' = Armed(console.event) /\ runner.phase = "poll"
  BY DEF Poll
<1>3. hw' \in Hw /\ (console.event = "write" /\ ~hw.ready => hw'.armed)
  BY <1>1, <1>2, ArmedIs
<1>4. console.pc = "waiting" /\ console.event \in {"read", "write"}
  BY <1>1, <1>2 DEF Served, TaskResumed, Console
<1>5. ASSUME NEW phase \in {"run", "idle", "others"}, NEW g, g = [runner EXCEPT !.phase = phase]
      PROVE  g \in Runner /\ g.phase = phase
  BY <1>1, <1>5 DEF Runner
<1>6. NothingLost'
  BY <1>2, RingStays
<1>7. CASE Available(console.event)
  <2>1. console' = [console EXCEPT !.pc = "go"] /\ runner' \in Runner /\ runner'.phase = "run"
    BY <1>5, <1>7 DEF Poll
  <2>2. ASSUME NEW g, g = [console EXCEPT !.pc = "go"]
        PROVE  /\ g \in Console /\ g.line = console.line /\ g.byte = console.byte
               /\ g.out = console.out /\ g.event = console.event /\ g.pc = "go"
    BY <1>1, <2>2 DEF Console
  <2>3. /\ console' \in Console /\ console'.line = console.line /\ console'.byte = console.byte
        /\ console'.out = console.out /\ console'.event = console.event /\ console'.pc = "go"
    BY <2>1, <2>2
  <2>4. TaskResumed' /\ IdleSees'
    BY <1>2, <1>7, <2>1, <2>3 DEF TaskResumed, IdleSees, Available
  <2>5. LineEdited'
    BY <1>2, <2>3 DEF Served, LineEdited
  <2> QED
    BY <1>1, <1>2, <1>3, <1>6, <2>1, <2>3, <2>4, <2>5 DEF Served, UartTypes
<1>8. CASE ~Available(console.event)
  <2>1. console' = console /\ runner' \in Runner /\ runner'.phase \in {"idle", "others"}
    BY <1>5, <1>8 DEF Poll
  <2>2. TaskResumed'
    BY <1>4, <2>1 DEF TaskResumed
  <2>3. IdleSees'
    BY <1>2, <1>3, <1>4, <1>8, <2>1 DEF IdleSees, Available
  <2>4. LineEdited'
    BY <1>2, <2>1 DEF Served, LineEdited
  <2> QED
    BY <1>1, <1>2, <1>3, <1>6, <2>1, <2>2, <2>3, <2>4 DEF Served, UartTypes
<1> QED
  BY <1>7, <1>8

LEMMA ReadServes ==
  ASSUME UartSizes, Served, Read
  PROVE  Served'
<1> DEFINE c == ring.buf[ring.tail]
           echo == IF c = "backspace" THEN <<c, "space", c>> ELSE <<c>>
<1>1. /\ hw \in Hw /\ ring \in Rings /\ console \in Console /\ runner \in Runner
      /\ typed \in Seq(Bytes) /\ got \in Seq(Bytes)
  BY DEF Served, UartTypes
<1>2. UNCHANGED <<hw, runner, typed>> /\ console.pc = "go" /\ console.event = "read"
  BY DEF Read
<1>3. ring.head # ring.tail /\ runner.phase = "run" /\ console.line = Line(got)
  BY <1>2 DEF Served, TaskResumed, LineEdited
<1>4. /\ ring' = [ring EXCEPT !.tail = After(@)] /\ got' = Append(got, c)
      /\ console' = IF c = "backspace" /\ console.line = <<>> THEN Await(console, "read")
                    ELSE Await([console EXCEPT !.byte = c, !.out = echo], "write")
  BY <1>3 DEF Read
<1>5. ring' \in Rings /\ c \in Bytes /\ Contents(ring) = <<c>> \o Contents(ring')
  BY <1>1, <1>3, <1>4, TakeRing
<1>6. got' \in Seq(Bytes) /\ Line(got') = Edit(Line(got), c)
  <2>1. got \in Seq(Bytes) /\ c \in Bytes /\ got' = Append(got, c)
    BY <1>1, <1>4, <1>5
  <2> HIDE DEF c
  <2>2. Line(Append(got, c)) = Edit(Line(got), c)
    BY <2>1, EditAppend DEF Line
  <2>3. Append(got, c) \in Seq(Bytes)
    BY <2>1
  <2> QED
    BY <2>1, <2>2, <2>3
<1>7. NothingLost'
  <2>1. Contents(ring') \in Seq(Bytes)
    BY <1>5, CountIs
  <2>2. Append(got, c) = got \o <<c>> /\ <<c>> \in Seq(Bytes)
    BY <1>1, <1>5, AppendIsConcat
  <2>3. (got \o <<c>>) \o Contents(ring') = got \o (<<c>> \o Contents(ring'))
    <3>1. got \in Seq(Bytes)
      BY <1>1
    <3> QED
      BY <2>1, <2>2, <3>1, ConcatAssociative, SMTT(60)
  <2>4. Contents(ring)' = Contents(ring') /\ typed = got \o Contents(ring)
    BY DEF Contents, Used, Served, NothingLost
  <2> QED
    BY <1>2, <1>4, <1>5, <2>2, <2>3, <2>4 DEF NothingLost
<1>8. echo \in Seq(Bytes \cup {"space"}) /\ echo # <<>>
  <2>1. c \in Bytes \cup {"space"} /\ "space" \in Bytes \cup {"space"}
    BY <1>5
  <2> HIDE DEF c
  <2>2. <<c>> \in Seq(Bytes \cup {"space"}) /\ <<c, "space", c>> \in Seq(Bytes \cup {"space"})
    BY <2>1
  <2> QED
    BY <2>2
<1> HIDE DEF c, echo
<1>9. CASE c = "backspace" /\ console.line = <<>>
  <2>1. console' = [console EXCEPT !.pc = "await", !.event = "read"]
    BY <1>4, <1>9 DEF Await
  <2>2. ASSUME NEW g, g = [console EXCEPT !.pc = "await", !.event = "read"]
        PROVE  g \in Console /\ g.line = console.line /\ g.pc = "await" /\ g.event = "read"
    BY <1>1, <2>2 DEF Console
  <2>3. console' \in Console /\ console'.line = console.line /\ console'.pc = "await" /\ console'.event = "read"
    BY <2>1, <2>2
  <2>4. Edit(Line(got), c) = console.line
    BY <1>3, <1>9 DEF Edit
  <2>5. LineEdited'
    <3>1. Line(got)' = Line(got')
      BY DEF Line
    <3> QED
      BY <1>6, <2>3, <2>4, <3>1 DEF LineEdited
  <2>6. TaskResumed' /\ IdleSees'
    BY <1>2, <1>3, <2>3 DEF TaskResumed, IdleSees
  <2> QED
    BY <1>1, <1>2, <1>5, <1>6, <1>7, <2>3, <2>5, <2>6 DEF Served, UartTypes
<1>10. CASE ~(c = "backspace" /\ console.line = <<>>)
  <2>1. console' = [[console EXCEPT !.byte = c, !.out = echo] EXCEPT !.pc = "await", !.event = "write"]
    BY <1>4, <1>10 DEF Await
  <2>2. ASSUME NEW g, g = [[console EXCEPT !.byte = c, !.out = echo] EXCEPT !.pc = "await", !.event = "write"]
        PROVE  g = [pc |-> "await", event |-> "write", line |-> console.line, byte |-> c, out |-> echo]
    BY <1>1, <2>2 DEF Console
  <2>3. console' = [pc |-> "await", event |-> "write", line |-> console.line, byte |-> c, out |-> echo]
    BY <2>1, <2>2
  <2>4. console.line \in Seq(Bytes)
    BY <1>1 DEF Console
  <2>5. console' \in Console
    BY <1>5, <1>8, <2>3, <2>4 DEF Console
  <2>6. LineEdited'
    <3>1. Line(got)' = Line(got')
      BY DEF Line
    <3>2. Edit(console.line, console.byte)' = Edit(console.line, c)
      BY <2>3
    <3> QED
      BY <1>3, <1>6, <1>8, <2>3, <3>1, <3>2 DEF LineEdited
  <2>7. TaskResumed' /\ IdleSees'
    BY <1>2, <1>3, <2>3 DEF TaskResumed, IdleSees
  <2> QED
    BY <1>1, <1>2, <1>5, <1>6, <1>7, <2>5, <2>6, <2>7 DEF Served, UartTypes
<1> QED
  BY <1>9, <1>10

LEMMA WriteServes ==
  ASSUME UartSizes, Served, Write
  PROVE  Served'
<1>1. /\ hw \in Hw /\ ring \in Rings /\ console \in Console /\ runner \in Runner
      /\ typed \in Seq(Bytes) /\ got \in Seq(Bytes)
  BY DEF Served, UartTypes
<1>2. UNCHANGED <<ring, runner, typed, got>> /\ console.pc = "go" /\ console.event = "write"
  BY DEF Write
<1>3. runner.phase = "run" /\ console.out # <<>> /\ Edit(console.line, console.byte) = Line(got)
  BY <1>2 DEF Served, TaskResumed, LineEdited
<1>4. NothingLost'
  BY <1>2, RingStays
<1>5. hw' \in Hw
  <2>1. ASSUME NEW ready \in BOOLEAN, NEW g, g = [hw EXCEPT !.ready = ready] PROVE g \in Hw
    BY <1>1, <2>1 DEF Hw
  <2> QED
    BY <1>1, <2>1 DEF Write
<1>6. Line(got)' = Line(got)
  BY <1>2 DEF Line
<1> DEFINE left == Tail(console.out)
<1>7. left \in Seq(Bytes \cup {"space"}) /\ console.line \in Seq(Bytes) /\ console.byte \in Bytes
  BY <1>1, <1>3 DEF Console
<1>8. Edit(console.line, console.byte) \in Seq(Bytes)
  BY <1>7, EditTyped
<1>9. CASE ~hw.ready
  <2>1. console' = [console EXCEPT !.pc = "await", !.event = "write"]
    BY <1>9 DEF Write, Await
  <2>2. ASSUME NEW g, g = [console EXCEPT !.pc = "await", !.event = "write"]
        PROVE  /\ g \in Console /\ g.line = console.line /\ g.byte = console.byte /\ g.out = console.out
               /\ g.pc = "await" /\ g.event = "write"
    BY <1>1, <2>2 DEF Console
  <2>3. /\ console' \in Console /\ console'.line = console.line /\ console'.byte = console.byte
        /\ console'.out = console.out /\ console'.pc = "await" /\ console'.event = "write"
    BY <2>1, <2>2
  <2>4. LineEdited'
    <3>1. Edit(console.line, console.byte)' = Edit(console.line, console.byte)
      BY <2>3
    <3> QED
      BY <1>3, <1>6, <2>3, <3>1 DEF LineEdited
  <2>5. TaskResumed' /\ IdleSees'
    BY <1>2, <1>3, <2>3 DEF TaskResumed, IdleSees
  <2> QED
    BY <1>1, <1>2, <1>4, <1>5, <2>3, <2>4, <2>5 DEF Served, UartTypes
<1>10. CASE hw.ready /\ left # <<>>
  <2>1. PICK pc \in {"go", "await"} : console' = [console EXCEPT !.out = left, !.pc = pc]
    BY <1>10 DEF Write
  <2>2. ASSUME NEW g, g = [console EXCEPT !.out = left, !.pc = pc]
        PROVE  g = [pc |-> pc, event |-> "write", line |-> console.line, byte |-> console.byte, out |-> left]
    BY <1>1, <1>2, <2>2 DEF Console
  <2>3. console' = [pc |-> pc, event |-> "write", line |-> console.line, byte |-> console.byte, out |-> left]
    BY <2>1, <2>2
  <2> HIDE DEF left
  <2>4. console' \in Console
    BY <1>7, <2>3 DEF Console
  <2>5. LineEdited'
    <3>1. Edit(console.line, console.byte)' = Edit(console.line, console.byte)
      BY <2>3
    <3> QED
      BY <1>3, <1>6, <1>10, <2>3, <3>1 DEF LineEdited
  <2>6. TaskResumed' /\ IdleSees'
    BY <1>2, <1>3, <2>3 DEF TaskResumed, IdleSees
  <2> QED
    BY <1>1, <1>2, <1>4, <1>5, <2>4, <2>5, <2>6 DEF Served, UartTypes
<1>11. CASE hw.ready /\ left = <<>>
  <2> DEFINE line == Edit(console.line, console.byte)
  <2>1. console' = [[console EXCEPT !.out = left, !.line = line] EXCEPT !.pc = "await", !.event = "read"]
    BY <1>11 DEF Write, Await
  <2> HIDE DEF left, line
  <2>2. ASSUME NEW g, g = [[console EXCEPT !.out = left, !.line = line] EXCEPT !.pc = "await", !.event = "read"]
        PROVE  g = [pc |-> "await", event |-> "read", line |-> line, byte |-> console.byte, out |-> left]
    BY <1>1, <2>2 DEF Console
  <2>3. console' = [pc |-> "await", event |-> "read", line |-> line, byte |-> console.byte, out |-> left]
    BY <2>1, <2>2
  <2>4. console' \in Console
    BY <1>7, <1>8, <2>3 DEF Console, line
  <2>5. LineEdited'
    BY <1>3, <1>6, <2>3 DEF LineEdited, line
  <2>6. TaskResumed' /\ IdleSees'
    BY <1>2, <1>3, <2>3 DEF TaskResumed, IdleSees
  <2> QED
    BY <1>1, <1>2, <1>4, <1>5, <2>4, <2>5, <2>6 DEF Served, UartTypes
<1> QED
  BY <1>9, <1>10, <1>11

LEMMA RunnerServes ==
  ASSUME UartSizes, Served, Round \/ IdleEnds
  PROVE  Served'
<1>1. /\ hw \in Hw /\ ring \in Rings /\ console \in Console /\ runner \in Runner
      /\ typed \in Seq(Bytes) /\ got \in Seq(Bytes)
  BY DEF Served, UartTypes
<1>2. UNCHANGED <<hw, ring, console, typed, got>> /\ runner.phase # "run"
  BY DEF Round, IdleEnds
<1>3. runner' \in Runner /\ runner'.phase \in {"poll", "round", "others"}
  <2>1. ASSUME NEW phase \in {"round", "others"}, NEW g, g = [runner EXCEPT !.phase = phase]
        PROVE  g \in Runner /\ g.phase = phase
    BY <1>1, <2>1 DEF Runner
  <2>2. CASE Round
    BY <2>2 DEF Round, Runner
  <2>3. CASE IdleEnds
    BY <2>1, <2>3 DEF IdleEnds
  <2> QED
    BY <2>2, <2>3
<1>4. NothingLost'
  BY <1>2, RingStays
<1>5. TaskResumed' /\ IdleSees'
  BY <1>2, <1>3 DEF Served, TaskResumed, IdleSees
<1>6. LineEdited'
  BY <1>2 DEF Served, LineEdited, Line
<1> QED
  BY <1>1, <1>2, <1>3, <1>4, <1>5, <1>6 DEF Served, UartTypes

LEMMA WireServes ==
  ASSUME UartSizes, Served, OthersPrint \/ KeyTyped \/ ByteSent
  PROVE  Served'
<1>1. /\ hw \in Hw /\ ring \in Rings /\ console \in Console /\ runner \in Runner
      /\ typed \in Seq(Bytes) /\ got \in Seq(Bytes)
  BY DEF Served, UartTypes
<1>2. UNCHANGED <<ring, console, runner, typed, got>>
  BY DEF OthersPrint, KeyTyped, ByteSent
<1>3. hw' \in Hw /\ hw'.armed = hw.armed
  <2>1. ASSUME NEW ready \in BOOLEAN, NEW g, g = [hw EXCEPT !.ready = ready]
        PROVE  g \in Hw /\ g.armed = hw.armed
    BY <1>1, <2>1 DEF Hw
  <2>2. ASSUME NEW q \in Seq(Bytes), NEW g, g = [hw EXCEPT !.rx = q]
        PROVE  g \in Hw /\ g.armed = hw.armed
    BY <1>1, <2>2 DEF Hw
  <2>3. ASSUME NEW g, g = [hw EXCEPT !.overrun = TRUE] PROVE g \in Hw /\ g.armed = hw.armed
    BY <1>1, <2>3 DEF Hw
  <2>4. CASE OthersPrint \/ ByteSent
    BY <2>1, <2>4 DEF OthersPrint, ByteSent
  <2>5. CASE KeyTyped
    <3>1. PICK c \in Keys \cup {"enter", "backspace"} :
            hw' = IF Len(hw.rx) < Fifo THEN [hw EXCEPT !.rx = Append(@, c)] ELSE [hw EXCEPT !.overrun = TRUE]
      BY <2>5 DEF KeyTyped
    <3>2. Append(hw.rx, c) \in Seq(Bytes)
      BY <1>1 DEF Hw, Bytes
    <3>3. CASE Len(hw.rx) < Fifo
      BY <2>2, <3>1, <3>2, <3>3
    <3>4. CASE ~(Len(hw.rx) < Fifo)
      BY <2>3, <3>1, <3>4
    <3> QED
      BY <3>3, <3>4
  <2> QED
    BY <2>4, <2>5
<1>4. NothingLost'
  BY <1>2, RingStays
<1>5. TaskResumed' /\ IdleSees'
  BY <1>2, <1>3 DEF Served, TaskResumed, IdleSees
<1>6. LineEdited'
  BY <1>2 DEF Served, LineEdited, Line
<1> QED
  BY <1>1, <1>2, <1>3, <1>4, <1>5, <1>6 DEF Served, UartTypes

\* Every step of the console, its runner, its handler and its line.
LEMMA ServedSteps ==
  ASSUME UartSizes, Served, UartNext
  PROVE  Served'
BY HandlerServes, WaitForEventServes, ReadServes, WriteServes, RunnerServes, PollServes, WireServes DEF UartNext

\* Nothing moves.
LEMMA ServedStays ==
  ASSUME Served, UNCHANGED uartVars
  PROVE  Served'
<1>1. UNCHANGED <<hw, ring, console, runner, typed, got>>
  BY DEF uartVars
<1>2. NothingLost'
  BY <1>1, RingStays
<1>3. TaskResumed' /\ IdleSees'
  BY <1>1 DEF Served, TaskResumed, IdleSees
<1>4. LineEdited'
  BY <1>1 DEF Served, LineEdited, Line
<1> QED
  BY <1>1, <1>2, <1>3, <1>4 DEF Served, UartTypes

LEMMA ServedNext ==
  ASSUME UartSizes, Served, [UartNext]_uartVars
  PROVE  Served'
BY ServedSteps, ServedStays

\* The console gets what is typed, in order and edited, and never idles past it, in every run
\* of the task, the runner, the interrupt handler and the line.
THEOREM ConsoleIsServed == UartSizes => (UartSpec => []ConsoleServed)
<1> SUFFICES ASSUME UartSizes PROVE UartSpec => []ConsoleServed
  OBVIOUS
<1>1. UartInit => Served
  BY ServedInit
<1>2. Served /\ [UartNext]_uartVars => Served'
  BY ServedNext
<1>3. Served => ConsoleServed
  BY ServedMeans
<1> QED
  BY <1>1, <1>2, <1>3, PTL DEF UartSpec
==============================================================================
