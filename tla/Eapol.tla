-------------------------------- MODULE Eapol --------------------------------
(***************************************************************************)
(* Keys for a protected link: the SAE session (sae.cpp) as                 *)
(* sae_authenticate() drives it, and the 4-way handshake's Supplicant      *)
(* (eapol.cpp) as four_way_handshake() drives it, against an access point  *)
(* over an air that loses frames and delivers others after their time-out. *)
(* A secret is the tuple of what it is derived from: a PMK the two         *)
(* commits, a PTK the PMK and the two nonces; a MIC or a confirm is the    *)
(* key that made it.                                                       *)
(***************************************************************************)
EXTENDS Integers, Sequences, SequencesExt, FiniteSets, FiniteSetsExt

CONSTANTS
  AuthTries,     \* auth_tries
  KeyData,       \* key data an access point may put in message 3
  MaxSessions,   \* bound: connections tried
  MaxResends,    \* bound: messages 1 and 3 the access point repeats
  MaxLost        \* bound: frames lost, transmissions failed, time-outs before their frame
\* An element of key data; its key is a sequence, empty for a GTK of length zero.
Elements   == [kind : {"gtk", "long", "igtk", "short", "other"}, id : Nat, key : Seq(Nat)]
EapolSizes == AuthTries \in Nat /\ MaxSessions \in Nat /\ KeyData \subseteq Seq(Elements)

VARIABLES
  sta,     \* where sae_authenticate() or four_way_handshake() is
  sess,    \* the SAE session
  supp,    \* the Supplicant
  peer,    \* the access point
  sky,     \* frames on their way: to the station and to the access point
  lost     \* losses so far
eapolVars == <<sta, sess, supp, peer, sky, lost>>

None    == <<>>
NoKeys  == [own |-> 0, theirs |-> 0, pmk |-> None]
\* The group keys: the GTK with its identifier, and the IGTK; None is a GTK of length zero.
NoGroup == [id |-> 0, gtk |-> None, igtk |-> None]
NewSupp == [ptk |-> None, anonce |-> 0, snonce |-> 0, replay |-> 0, group |-> NoGroup, complete |-> FALSE]

Auth(seq, status, body) == [type |-> "auth", seq |-> seq, status |-> status, body |-> body]
M1(anonce, replay)      == [type |-> "m1", anonce |-> anonce, replay |-> replay]
M2(snonce, replay, ptk) == [type |-> "m2", snonce |-> snonce, replay |-> replay, mic |-> ptk]
M3(anonce, replay, ptk, kd) ==
  [type |-> "m3", anonce |-> anonce, replay |-> replay, mic |-> ptk, data |-> kd]
M4(replay, ptk)         == [type |-> "m4", replay |-> replay, mic |-> ptk]

ToAp(f) == sky' = [sky EXCEPT !.ap = Append(@, f)]
Heard   == Head(sky.sta)
Taken   == sky' = [sky EXCEPT !.sta = Tail(@)]
Answer(f) == sky' = [sta |-> Tail(sky.sta), ap |-> Append(sky.ap, f)]
Fail    == sta' = [sta EXCEPT !.at = "failed"]
Goto(p) == sta' = [sta EXCEPT !.at = p]

\* A commit as it goes out: the group, the scalar and the element, and after them whatever token
\* container the code wrote.  The container's three header bytes are stored each one place late
\* and the token over the last of them, so that the access point finds no container where one
\* should be.
WriteCommit(token) == [commit |-> sess.own, token |-> IF token THEN "misplaced" ELSE "none"]

(***************************************************************************)
(* SAE                                                                     *)
(***************************************************************************)
\* A new connection: derive the password element and pick the commit's scalar and element.
StartSession(n) ==
  /\ sess' = [NoKeys EXCEPT !.own = n]
  /\ sta' = [at |-> "commit", tries |-> AuthTries, token |-> FALSE, session |-> n]

\* One round of the commit loop: send the commit and wait for the answer.
SendCommit ==
  /\ sta.at = "commit"
  /\ IF sta.tries = 0 THEN Fail /\ UNCHANGED sky
     ELSE /\ sta' = [sta EXCEPT !.at = "committed", !.tries = @ - 1]
          /\ ToAp(Auth(1, "h2e", WriteCommit(sta.token)))
  /\ UNCHANGED <<sess, supp, peer, lost>>

\* The peer's contribution: in range, on the curve and not our own commit sent back.
ReadCommit(c) == c > 0 /\ c # sess.own

\* The answer to a commit: another sequence number counts as no answer, a token request has the
\* commit sent again, and a good commit gives both keys.
Committed ==
  /\ sta.at = "committed" /\ sky.sta # <<>> /\ Taken
  /\ LET f == Heard IN
     IF f.type # "auth" THEN UNCHANGED <<sta, sess>>
     ELSE CASE f.seq # 1 -> Goto("commit") /\ UNCHANGED sess
            [] f.seq = 1 /\ f.status = "token" ->
                 sta' = [sta EXCEPT !.at = "commit", !.token = TRUE] /\ UNCHANGED sess
            [] f.seq = 1 /\ f.status \in {"h2e", "success"} /\ ReadCommit(f.body) ->
                 /\ sess' = [sess EXCEPT !.theirs = f.body, !.pmk = <<sess.own, f.body>>]
                 /\ Goto("confirm")
            [] OTHER -> Fail /\ UNCHANGED sess
  /\ UNCHANGED <<supp, peer, lost>>

SendConfirm ==
  /\ sta.at = "confirm"
  /\ Goto("confirmed") /\ ToAp(Auth(2, "success", sess.pmk))
  /\ UNCHANGED <<sess, supp, peer, lost>>

\* faulty: the confirm is taken for granted once its status says success
VerifyConfirmStatus(f) == f.seq = 2 /\ f.status = "success"

\* The peer's confirm must come from the same keys, over the same two commits.
VerifyConfirm(f) == f.seq = 2 /\ f.status = "success" /\ f.body = sess.pmk

\* The answer to the confirm; there is no second try.  Then the association (module Link) and a
\* fresh Supplicant.
Confirmed ==
  /\ sta.at = "confirmed" /\ sky.sta # <<>> /\ Taken
  /\ LET f == Heard IN
     IF f.type # "auth" THEN UNCHANGED <<sta, supp>>
     ELSE IF VerifyConfirm(f) THEN Goto("handshake") /\ supp' = NewSupp
     ELSE Fail /\ UNCHANGED supp
  /\ UNCHANGED <<sess, peer, lost>>

(***************************************************************************)
(* The 4-way handshake                                                     *)
(***************************************************************************)
\* An element that ends the walk over the key data in failure: one too short for what it should
\* hold, which the padding after the last element is too, or a GTK longer than the room for it.
Fails(e) == e.kind \in {"short", "long"}

\* The places of the elements of some kinds the walk comes to, the one it fails at included.
Walked(kd, kinds) ==
  {i \in DOMAIN kd : kd[i].kind \in kinds /\ \A j \in DOMAIN kd : j < i => ~Fails(kd[j])}

\* parse_key_data(): it writes as it walks, the last element of a kind last, over what an earlier
\* message 3 left, and a failure takes nothing back; a GTK too long has written its identifier.
ParseKeyData(kd, group) ==
  LET ids   == Walked(kd, {"gtk", "long"})
      gtks  == Walked(kd, {"gtk"})
      igtks == Walked(kd, {"igtk"})
  IN [id   |-> IF ids = {} THEN group.id ELSE kd[Max(ids)].id,
      gtk  |-> IF gtks = {} THEN group.gtk ELSE kd[Max(gtks)].key,
      igtk |-> IF igtks = {} THEN group.igtk ELSE kd[Max(igtks)].key]

\* It succeeds when the walk ends and there is a GTK by then, in this message or before it.
Parsed(kd, group) == (\A i \in DOMAIN kd : ~Fails(kd[i])) /\ ParseKeyData(kd, group).gtk # None

\* Message 1: any message 1 starts over with a new nonce of ours, whatever its replay counter.
OnM1(f) ==
  LET snonce == supp.snonce + 1
      ptk    == <<sess.pmk, f.anonce, snonce>>
  IN /\ supp' = [supp EXCEPT !.anonce = f.anonce, !.replay = f.replay, !.snonce = snonce, !.ptk = ptk]
     /\ Answer(M2(snonce, f.replay, ptk))
     /\ UNCHANGED sta

\* faulty: the MIC of message 3 is not compared
AcceptsUnchecked(f) == supp.ptk # None /\ f.anonce = supp.anonce /\ f.replay > supp.replay

\* The key data of message 3 is looked at: after a message 1, for its nonce, with a counter above
\* it, and authentic under our PTK.
Accepts(f) == supp.ptk # None /\ f.anonce = supp.anonce /\ f.replay > supp.replay /\ f.mic = supp.ptk

\* With a group key by now message 4 is sent, the keys are installed, and nobody reads another
\* handshake frame; otherwise the message is dropped, but what it wrote in the group keys stays.
OnM3(f) ==
  LET group == ParseKeyData(f.data, supp.group) IN
  IF Parsed(f.data, supp.group)
  THEN /\ supp' = [supp EXCEPT !.replay = f.replay, !.group = group, !.complete = TRUE]
       /\ Goto("up") /\ Answer(M4(f.replay, supp.ptk))
  ELSE supp' = [supp EXCEPT !.group = group] /\ Taken /\ UNCHANGED sta

\* One frame in four_way_handshake(): handed to the Supplicant, or dropped.
OnFrame ==
  /\ sta.at = "handshake" /\ sky.sta # <<>>
  /\ LET f == Heard IN
     \/ f.type = "m1" /\ OnM1(f)
     \/ f.type = "m3" /\ Accepts(f) /\ OnM3(f)
     \/ f.type # "m1" /\ ~(f.type = "m3" /\ Accepts(f)) /\ Taken /\ UNCHANGED <<sta, supp>>
  /\ UNCHANGED <<sess, peer, lost>>

\* A wait that ends without its frame; a time-out of one that is on its way counts as lost.
Timeout ==
  /\ sta.at \in {"committed", "confirmed", "handshake"}
  /\ \/ sky = [sta |-> <<>>, ap |-> <<>>] /\ UNCHANGED lost
     \/ lost < MaxLost /\ lost' = lost + 1
  /\ IF sta.at = "committed" THEN Goto("commit") ELSE Fail
  /\ UNCHANGED <<sess, supp, peer, sky>>

\* A transmission fails: the connection does.
TxFails ==
  /\ sta.at \in {"commit", "confirm"} /\ lost < MaxLost
  /\ lost' = lost + 1 /\ Fail
  /\ UNCHANGED <<sess, supp, peer, sky>>

\* The console connects again, after a failure or from a link that is up.
Connect ==
  /\ sta.at \in {"failed", "up"} /\ sta.session < MaxSessions
  /\ StartSession(sta.session + 1) /\ supp' = NewSupp
  /\ UNCHANGED <<peer, sky, lost>>

(***************************************************************************)
(* The access point and the air (external)                                 *)
(***************************************************************************)
ApHears(type) == sky.ap # <<>> /\ Head(sky.ap).type = type
ApSays(f)     == sky' = [sta |-> Append(sky.sta, f), ap |-> Tail(sky.ap)]
ApDrops       == sky' = [sky EXCEPT !.ap = Tail(@)]

\* A commit: answered by a request for a token when the access point is busy and finds none, and
\* by its own commit otherwise, a new one for a new commit of the station.
ApCommits ==
  /\ ApHears("auth") /\ Head(sky.ap).seq = 1
  /\ LET b   == Head(sky.ap).body
         own == IF b.commit = peer.theirs THEN peer.own ELSE peer.own + 1
     IN IF peer.busy THEN ApSays(Auth(1, "token", 0)) /\ UNCHANGED peer
        ELSE /\ peer' = [peer EXCEPT !.theirs = b.commit, !.own = own, !.pmk = <<b.commit, own>>,
                                     !.confirmed = FALSE, !.stage = "idle", !.resends = 0]
             /\ \E c \in {own, 0, b.commit} :      \* also a bad one, and the station's own
                  ApSays(Auth(1, "h2e", c))
  /\ UNCHANGED <<sta, sess, supp, lost>>

\* A confirm: answered when it is authentic.
ApConfirms ==
  /\ ApHears("auth") /\ Head(sky.ap).seq = 2
  /\ IF Head(sky.ap).body = peer.pmk
     THEN peer' = [peer EXCEPT !.confirmed = TRUE] /\ ApSays(Auth(2, "success", peer.pmk))
     ELSE ApDrops /\ UNCHANGED peer
  /\ UNCHANGED <<sta, sess, supp, lost>>

\* Message 1 to an associated station, with a new nonce the first time; repeated with a new
\* counter.
ApStarts ==
  /\ sta.at = "handshake" /\ peer.confirmed /\ peer.stage \in {"idle", "m1"}
  /\ peer.resends < MaxResends
  /\ LET new == peer.stage = "idle"
         p   == [peer EXCEPT !.stage = "m1", !.replay = @ + 1, !.resends = @ + 1, !.ptk = None,
                             !.anonce = IF new THEN @ + 1 ELSE @, !.from = IF new THEN peer.replay + 1 ELSE @]
     IN peer' = p /\ sky' = [sky EXCEPT !.sta = Append(@, M1(p.anonce, p.replay))]
  /\ UNCHANGED <<sta, sess, supp, lost>>

\* The group keys some key data carries, and the access point once it has sent it.
Gtks(kd) == {kd[i].key : i \in {j \in DOMAIN kd : kd[j].kind = "gtk"}}
Giving(p, kd) == [p EXCEPT !.given = @ \cup ({p.ptk[1]} \X Gtks(kd))]

\* Message 2 with a counter still outstanding and a good MIC: message 3 with some key data.  A
\* second message 2 with another nonce may replace the first.
ApSendsM3 ==
  /\ ApHears("m2")
  /\ LET f == Head(sky.ap)
         p == [peer EXCEPT !.stage = "m3", !.replay = @ + 1,
                           !.ptk = <<peer.pmk, peer.anonce, f.snonce>>]
     IN \/ /\ peer.stage \in {"m1", "m3"} /\ f.replay >= peer.from /\ f.mic = p.ptk
           /\ \E kd \in KeyData : peer' = Giving(p, kd) /\ ApSays(M3(p.anonce, p.replay, p.ptk, kd))
        \/ ApDrops /\ UNCHANGED peer
  /\ UNCHANGED <<sta, sess, supp, lost>>

\* Message 3 again, as no message 4 came.
ApRepeats ==
  /\ peer.stage = "m3" /\ peer.resends < MaxResends
  /\ \E kd \in KeyData :
       /\ peer' = Giving([peer EXCEPT !.replay = @ + 1, !.resends = @ + 1], kd)
       /\ sky' = [sky EXCEPT !.sta = Append(@, M3(peer.anonce, peer.replay + 1, peer.ptk, kd))]
  /\ UNCHANGED <<sta, sess, supp, lost>>

ApDone ==
  /\ ApHears("m4") /\ ApDrops
  /\ peer' = IF peer.stage = "m3" /\ Head(sky.ap).mic = peer.ptk THEN [peer EXCEPT !.stage = "idle"] ELSE peer
  /\ UNCHANGED <<sta, sess, supp, lost>>

\* The access point stops asking for tokens.
ApCalms == peer.busy /\ peer' = [peer EXCEPT !.busy = FALSE] /\ UNCHANGED <<sta, sess, supp, sky, lost>>

Lose ==
  /\ lost < MaxLost /\ lost' = lost + 1
  /\ \E d \in {"sta", "ap"} : sky[d] # <<>> /\ sky' = [sky EXCEPT ![d] = Tail(@)]
  /\ UNCHANGED <<sta, sess, supp, peer>>

Init ==
  /\ sta = [at |-> "failed", tries |-> 0, token |-> FALSE, session |-> 0]
  /\ sess = NoKeys /\ supp = NewSupp /\ lost = 0
  /\ sky = [sta |-> <<>>, ap |-> <<>>]
  /\ \E busy \in BOOLEAN :
       peer = [busy |-> busy, theirs |-> 0, own |-> MaxSessions, pmk |-> None, confirmed |-> FALSE,
               stage |-> "idle", anonce |-> 0, replay |-> 0, from |-> 0, ptk |-> None, resends |-> 0,
               given |-> {}]

Next ==
  \/ Connect \/ SendCommit \/ Committed \/ SendConfirm \/ Confirmed \/ OnFrame \/ Timeout \/ TxFails
  \/ ApCommits \/ ApConfirms \/ ApStarts \/ ApSendsM3 \/ ApRepeats \/ ApDone \/ ApCalms \/ Lose

Spec == Init /\ [][Next]_eapolVars

\* Whoever passes SAE shares its master key with the access point, whatever frames of an earlier
\* attempt were still on their way: late commits and confirms pass for answers to the new one.
PmkAgreed ==
  sta.at \in {"handshake", "up"} => peer.confirmed /\ peer.pmk = sess.pmk

\* The keys a completed handshake installs are the access point's: its session key, though every
\* message 1 makes the station start over with another nonce while messages 3 made for the previous
\* one are on their way; and a group key the access point gave under this master key, though what a
\* refused message 3 wrote stays for the next.
KeysAgree ==
  sta.at = "up" =>
    supp.ptk = peer.ptk /\ supp.group.gtk # None /\ <<sess.pmk, supp.group.gtk>> \in peer.given
=============================================================================
