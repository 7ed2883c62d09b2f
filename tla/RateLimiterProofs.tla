------------------------- MODULE RateLimiterProofs --------------------------
(***************************************************************************)
(* The rate limiter keeps its promise for every set of clients, limit,     *)
(* window and behaviour of the wall clock.                                 *)
(***************************************************************************)
EXTENDS RateLimiter, FiniteSetTheorems, FunctionTheorems, TLAPS

Entries == [resetAt : Nat, count : Nat]
History == [start : Nat, count : Nat]
Packets == [win : Nat, nth : Nat, at : Instants]

\* What is proved by induction: the budget needs to know that the entry in the map
\* describes the client's last window.
LimiterInv == TypeOK /\ EntryIsLast /\ WindowsKeepBudget

\* newRateLimiter: nobody has been seen.
LEMMA LimiterInit == Init => LimiterInv
BY LimiterAssumption DEF Init, LimiterInv, TypeOK, EntryIsLast, WindowsKeepBudget,
    NoEntry, Instants

\* One packet of c more is let through.
LEMMA AdmitEffect ==
    ASSUME NEW c \in Clients, NEW win \in Nat, NEW nth \in Nat, now \in Instants,
           Admit(c, win, nth), admitted \in [Clients -> SUBSET Packets]
    PROVE  /\ admitted' \in [Clients -> SUBSET Packets]
           /\ admitted'[c] = admitted[c] \cup {[win |-> win, nth |-> nth, at |-> now]}
           /\ \A d \in Clients \ {c} : admitted'[d] = admitted[d]
BY DEF Admit, Packets

\* Opening a window appends it to the client's history, after the end of the last.
LEMMA OpenWindowEffect ==
    ASSUME LimiterInv, NEW c \in Clients, OpenWindow(c)
    PROVE  LET n == Len(windows[c])
               w == [start |-> now, count |-> 1]
           IN
           /\ n \in Nat /\ now \in Nat /\ now \in Instants /\ w \in History
           /\ Len(windows'[c]) = n + 1 /\ windows'[c][n + 1] = w
           /\ windows'[c] \in Seq(History)
           /\ \A i \in 1..n : windows'[c][i] = windows[c][i] /\ windows[c][i] \in History
           /\ n > 0 => now > windows[c][n].start + Window
           /\ seen'[c] = [resetAt |-> now + Window, count |-> 1] /\ seen'[c] # NoEntry
           /\ admitted'[c] = admitted[c] \cup {[win |-> n + 1, nth |-> 1, at |-> now]}
           /\ admitted' \in [Clients -> SUBSET Packets]
           /\ \A d \in Clients \ {c} : /\ windows'[d] = windows[d] /\ seen'[d] = seen[d]
                                       /\ admitted'[d] = admitted[d]
<1> USE LimiterAssumption DEF LimiterInv
<1> DEFINE n == Len(windows[c])
           w == [start |-> now, count |-> 1]
<1>1. /\ windows[c] \in Seq(History) /\ n \in Nat /\ now \in Nat /\ now \in Instants
      /\ w \in History
  BY DEF TypeOK, History, Instants
<1>2. /\ windows'[c] = Append(windows[c], w)
      /\ Len(windows'[c]) = n + 1
      /\ windows'[c][n + 1] = w
      /\ \A i \in 1..n : windows'[c][i] = windows[c][i] /\ windows[c][i] \in History
      /\ windows'[c] \in Seq(History)
  BY <1>1 DEF OpenWindow, TypeOK
<1>3. seen'[c] = [resetAt |-> now + Window, count |-> 1] /\ seen'[c] # NoEntry
  BY DEF OpenWindow, TypeOK, NoEntry
<1>4. \A d \in Clients \ {c} : windows'[d] = windows[d] /\ seen'[d] = seen[d]
  BY Zenon DEF OpenWindow, TypeOK
<1>5. n > 0 => now > windows[c][n].start + Window
  <2> HAVE n > 0
  <2>1. seen[c] # NoEntry
    <3>1. n # 0
      BY <1>1
    <3>2. seen[c] = NoEntry <=> n = 0
      BY Zenon DEF EntryIsLast
    <3> QED
      BY <3>1, <3>2, Zenon
  <2>2. seen[c] = [resetAt |-> windows[c][n].start + Window, count |-> windows[c][n].count]
    BY <1>1, Zenon DEF EntryIsLast
  <2>3. seen[c].resetAt = windows[c][n].start + Window
    BY <2>2
  <2> QED
    BY <2>1, <2>3, Zenon DEF OpenWindow, Expired
<1>6. n + 1 \in Nat /\ Admit(c, n + 1, 1) /\ admitted \in [Clients -> SUBSET Packets]
  BY <1>1 DEF OpenWindow, TypeOK, Packets
<1> QED
  BY <1>1, <1>2, <1>3, <1>4, <1>5, <1>6, AdmitEffect

\* The new window keeps the promise.
LEMMA OpenWindowStep ==
    ASSUME LimiterInv, NEW c \in Clients, OpenWindow(c)
    PROVE  LimiterInv'
<1> DEFINE n == Len(windows[c])
           w == [start |-> now, count |-> 1]
<1>1. /\ n \in Nat /\ now \in Nat /\ w \in History
      /\ Len(windows'[c]) = n + 1 /\ windows'[c][n + 1] = w
      /\ windows'[c] \in Seq(History)
      /\ \A i \in 1..n : windows'[c][i] = windows[c][i]
      /\ n > 0 => now > windows[c][n].start + Window
      /\ seen'[c] = [resetAt |-> now + Window, count |-> 1] /\ seen'[c] # NoEntry
      /\ admitted' \in [Clients -> SUBSET Packets]
      /\ \A d \in Clients \ {c} : windows'[d] = windows[d] /\ seen'[d] = seen[d]
  BY OpenWindowEffect, Zenon
<1> USE LimiterAssumption DEF LimiterInv
<1>2. TypeOK'
  <2>1. seen' \in [Clients -> Entries]
    BY <1>1 DEF TypeOK, OpenWindow, Entries
  <2>2. windows' \in [Clients -> Seq(History)]
    BY <1>1, Zenon DEF TypeOK, OpenWindow, History
  <2> QED
    BY <1>1, <2>1, <2>2, Zenon DEF TypeOK, OpenWindow, History, Entries, Packets
<1>3. EntryIsLast'
  BY <1>1 DEF EntryIsLast
<1>4. WindowsKeepBudget'
  <2> SUFFICES ASSUME NEW d \in Clients, NEW i \in 1..Len(windows'[d])
               PROVE  /\ windows'[d][i].count <= Budget
                      /\ i > 1 => windows'[d][i].start > windows'[d][i - 1].start + Window
    BY Zenon DEF WindowsKeepBudget, Budget
  <2>1. CASE d # c
    BY <2>1, <1>1, Zenon DEF WindowsKeepBudget
  <2>2. CASE d = c /\ i = n + 1
    <3>1. windows'[d][i].start = now /\ windows'[d][i].count = 1
      BY <2>2, <1>1
    <3>2. i > 1 => n > 0 /\ windows'[d][i - 1] = windows[c][n]
      BY <2>2, <1>1
    <3>3. Budget \in Int /\ Budget >= 1
      BY DEF Budget
    <3> QED
      BY <1>1, <3>1, <3>2, <3>3, Zenon
  <2>3. CASE d = c /\ i # n + 1
    <3>1. i \in 1..n /\ (i > 1 => i - 1 \in 1..n)
      BY <2>3, <1>1
    <3> QED
      BY <2>3, <3>1, <1>1, Zenon DEF WindowsKeepBudget
  <2> QED
    BY <2>1, <2>2, <2>3, Zenon
<1> QED
  BY <1>2, <1>3, <1>4, Zenon

\* Counting a packet adds one to the last window, which has not ended and was below the
\* limit.
LEMMA CountPacketEffect ==
    ASSUME LimiterInv, NEW c \in Clients, CountPacket(c)
    PROVE  LET n == Len(windows[c])
               w == [start |-> windows[c][n].start, count |-> windows[c][n].count + 1]
           IN
           /\ n \in Nat /\ n > 0 /\ now \in Instants /\ windows[c][n] \in History
           /\ w \in History /\ w.count <= Budget /\ w.count >= 1
           /\ w.start = windows[c][n].start /\ w.count = windows[c][n].count + 1
           /\ now <= w.start + Window
           /\ Len(windows'[c]) = n /\ windows'[c][n] = w
           /\ windows'[c] \in Seq(History)
           /\ \A i \in 1..n : i # n => windows'[c][i] = windows[c][i]
           /\ \A i \in 1..n : windows[c][i] \in History
           /\ seen'[c] = [resetAt |-> w.start + Window, count |-> w.count]
           /\ seen'[c] # NoEntry
           /\ admitted'[c] = admitted[c] \cup {[win |-> n, nth |-> w.count, at |-> now]}
           /\ admitted' \in [Clients -> SUBSET Packets]
           /\ \A d \in Clients \ {c} : /\ windows'[d] = windows[d] /\ seen'[d] = seen[d]
                                       /\ admitted'[d] = admitted[d]
<1> USE LimiterAssumption DEF LimiterInv
<1> DEFINE n == Len(windows[c])
           w == [start |-> windows[c][n].start, count |-> windows[c][n].count + 1]
           e == [resetAt |-> seen[c].resetAt, count |-> seen[c].count + 1]
<1>1. /\ windows[c] \in Seq(History) /\ n \in Nat /\ now \in Instants /\ n > 0
      /\ seen[c] # NoEntry /\ seen[c] \in Entries /\ now \in Nat
  BY DEF TypeOK, History, Entries, CountPacket, Expired, EntryIsLast, Instants
<1>2. /\ windows[c][n] \in History /\ w \in History /\ e \in Entries
      /\ seen[c].resetAt = windows[c][n].start + Window
      /\ seen[c].count = windows[c][n].count /\ seen[c].count >= 1
      /\ \A i \in 1..n : windows[c][i] \in History
  <2>1. windows[c][n] \in History /\ \A i \in 1..n : windows[c][i] \in History
    BY <1>1
  <2>2. seen[c] = [resetAt |-> windows[c][n].start + Window, count |-> windows[c][n].count]
    BY <1>1, Zenon DEF EntryIsLast
  <2>3. seen[c].count >= 1
    BY <1>1, Zenon DEF EntryIsLast
  <2>4. /\ seen[c].resetAt = windows[c][n].start + Window
        /\ seen[c].count = windows[c][n].count
    BY <2>2
  <2>5. w \in History
    BY <2>1 DEF History
  <2>6. e \in Entries
    BY <1>1 DEF Entries
  <2> QED
    BY <2>1, <2>3, <2>4, <2>5, <2>6, Zenon
<1>3. w.count <= Budget
  BY <1>1, <1>2 DEF CountPacket, UsedUp, Budget, Entries, History
<1>4. windows' = [windows EXCEPT ![c] = [windows[c] EXCEPT ![n] = w]]
  <2>1. [windows[c][n] EXCEPT !.count = @ + 1] = w
    BY <1>2 DEF History
  <2> QED
    BY <2>1, Zenon DEF CountPacket
<1>5. /\ windows'[c] \in Seq(History)
      /\ Len(windows'[c]) = n
      /\ windows'[c][n] = w
      /\ \A i \in 1..n : i # n => windows'[c][i] = windows[c][i]
  BY <1>1, <1>2, <1>4 DEF TypeOK
<1>6. seen' = [seen EXCEPT ![c] = e]
  <2>1. [seen[c] EXCEPT !.count = @ + 1] = e
    BY <1>1 DEF Entries
  <2> QED
    BY <2>1, Zenon DEF CountPacket
<1>7. seen'[c] = e /\ seen'[c] # NoEntry
  BY <1>1, <1>2, <1>6 DEF TypeOK, NoEntry, Entries
<1>8. \A d \in Clients \ {c} : windows'[d] = windows[d] /\ seen'[d] = seen[d]
  BY <1>4, <1>6, Zenon DEF TypeOK
<1>9. /\ w.start = windows[c][n].start /\ w.count = windows[c][n].count + 1
      /\ w.count = seen[c].count + 1 /\ w.count >= 1 /\ w.count \in Nat
  BY <1>1, <1>2 DEF Entries
<1>10. e = [resetAt |-> w.start + Window, count |-> w.count]
  BY <1>1, <1>2, <1>9, Zenon DEF Entries
<1>11. now <= w.start + Window
  BY <1>1, <1>2, <1>9 DEF CountPacket, Expired, Entries
<1>12. Admit(c, n, w.count) /\ admitted \in [Clients -> SUBSET Packets]
  BY <1>9, Zenon DEF CountPacket, TypeOK, Packets
<1>13. /\ admitted'[c] = admitted[c] \cup {[win |-> n, nth |-> w.count, at |-> now]}
       /\ admitted' \in [Clients -> SUBSET Packets]
       /\ \A d \in Clients \ {c} : admitted'[d] = admitted[d]
  BY <1>1, <1>9, <1>12, AdmitEffect, Zenon
<1> QED
  BY <1>1, <1>2, <1>3, <1>5, <1>7, <1>8, <1>9, <1>10, <1>11, <1>13, Zenon

\* The last window still keeps the promise.
LEMMA CountPacketStep ==
    ASSUME LimiterInv, NEW c \in Clients, CountPacket(c)
    PROVE  LimiterInv'
<1> DEFINE n == Len(windows[c])
           w == [start |-> windows[c][n].start, count |-> windows[c][n].count + 1]
<1>1. /\ n \in Nat /\ n > 0 /\ windows[c][n] \in History
      /\ w \in History /\ w.count <= Budget /\ w.count >= 1
      /\ w.start = windows[c][n].start
      /\ Len(windows'[c]) = n /\ windows'[c][n] = w
      /\ windows'[c] \in Seq(History)
      /\ \A i \in 1..n : i # n => windows'[c][i] = windows[c][i]
      /\ seen'[c] = [resetAt |-> w.start + Window, count |-> w.count]
      /\ seen'[c] # NoEntry
      /\ admitted' \in [Clients -> SUBSET Packets]
      /\ \A d \in Clients \ {c} : windows'[d] = windows[d] /\ seen'[d] = seen[d]
  BY CountPacketEffect, Zenon
<1> HIDE DEF w
<1> USE LimiterAssumption DEF LimiterInv
<1>2. TypeOK'
  <2>1. seen' \in [Clients -> Entries]
    <3>1. seen'[c] \in Entries
      BY <1>1 DEF Entries, History
    <3>2. DOMAIN seen' = Clients /\ seen' = [d \in Clients |-> seen'[d]]
      BY Zenon DEF TypeOK, CountPacket
    <3> QED
      BY <1>1, <3>1, <3>2 DEF TypeOK, Entries
  <2>2. windows' \in [Clients -> Seq(History)]
    <3>1. windows' = [d \in Clients |-> windows'[d]]
      BY Zenon DEF TypeOK, CountPacket
    <3> QED
      BY <1>1, <3>1, Zenon DEF TypeOK, History
  <2> QED
    BY <1>1, <2>1, <2>2, Zenon DEF TypeOK, CountPacket, History, Entries, Packets
<1>3. EntryIsLast'
  BY <1>1 DEF EntryIsLast
<1>4. WindowsKeepBudget'
  <2> SUFFICES ASSUME NEW d \in Clients, NEW i \in 1..Len(windows'[d])
               PROVE  /\ windows'[d][i].count <= Budget
                      /\ i > 1 => windows'[d][i].start > windows'[d][i - 1].start + Window
    BY Zenon DEF WindowsKeepBudget, Budget
  <2>1. CASE d # c
    BY <2>1, <1>1, Zenon DEF WindowsKeepBudget
  <2>2. CASE d = c
    <3>1. i \in 1..n /\ (i > 1 => i - 1 \in 1..n /\ i - 1 # n)
      BY <2>2, <1>1
    <3>2. windows'[c][i].start = windows[c][i].start
      BY <3>1, <1>1, Zenon
    <3> QED
      BY <2>2, <3>1, <3>2, <1>1, Zenon DEF WindowsKeepBudget
  <2> QED
    BY <2>1, <2>2, Zenon
<1> QED
  BY <1>2, <1>3, <1>4, Zenon

\* A window is opened only after the last one, and counted only below the limit.
LEMMA LimiterStep == LimiterInv /\ [Next]_vars => LimiterInv'
<1> SUFFICES ASSUME LimiterInv, [Next]_vars PROVE LimiterInv'
  OBVIOUS
<1>1. CASE UNCHANGED vars
  BY <1>1, Zenon DEF vars, LimiterInv, TypeOK, EntryIsLast, WindowsKeepBudget
<1>2. CASE ClockChange
  BY <1>2, Zenon DEF ClockChange, LimiterInv, TypeOK, EntryIsLast, WindowsKeepBudget
<1>3. ASSUME NEW c \in Clients, Allow(c) PROVE LimiterInv'
  <2>1. CASE OpenWindow(c)
    BY <2>1, OpenWindowStep, Zenon
  <2>2. CASE CountPacket(c)
    BY <2>2, CountPacketStep, Zenon
  <2>3. CASE Refuse(c)
    BY <2>3, <1>1, Zenon DEF Refuse
  <2> QED
    BY <1>3, <2>1, <2>2, <2>3, Zenon DEF Allow
<1> QED
  BY <1>1, <1>2, <1>3, Zenon DEF Next

\* Whatever the limit, the window and the clock: no window of a client lets more than
\* the budget through, and windows do not overlap (limiter.go:28-48).
THEOREM LimiterCorrect == Spec => [](TypeOK /\ WindowsKeepBudget)
<1>1. LimiterInv => TypeOK /\ WindowsKeepBudget
  BY Zenon DEF LimiterInv
<1> QED
  BY LimiterInit, LimiterStep, <1>1, PTL DEF Spec

-----------------------------------------------------------------------------
(***************************************************************************)
(* Bursts.  Every packet that went through is counted by one window, at    *)
(* one place of it; while the clock is not set back it went through before *)
(* the window ended.                                                       *)
(***************************************************************************)

\* Windows are more than a window's length apart, adjacent or not.
WindowsApart ==
    \A c \in Clients : \A i, j \in 1..Len(windows[c]) :
        i < j => windows[c][j].start > windows[c][i].start + Window

\* A packet has a place in its window, and came before the window's end.
PacketsCounted ==
    \A c \in Clients : \A p \in admitted[c] :
        /\ p.win \in 1..Len(windows[c])
        /\ p.nth \in 1..windows[c][p.win].count
        /\ p.at <= windows[c][p.win].start + Window

\* No two packets have the same place.
PlacesDistinct ==
    \A c \in Clients : \A p, q \in admitted[c] : p.win = q.win /\ p.nth = q.nth => p = q

\* Every place that was counted is some packet's.
PlacesTaken ==
    \A c \in Clients : \A i \in 1..Len(windows[c]) : \A k \in 1..windows[c][i].count :
        \E p \in admitted[c] : p.win = i /\ p.nth = k

\* While the clock is not set back, nothing lies in the future and no packet before the
\* start of its window.
PacketsInTime ==
    steady => \A c \in Clients :
        /\ \A i \in 1..Len(windows[c]) : windows[c][i].start <= now
        /\ \A p \in admitted[c] : windows[c][p.win].start <= p.at /\ p.at <= now

PacketsFinite == \A c \in Clients : IsFiniteSet(admitted[c])

PacketsInv ==
    /\ LimiterInv /\ WindowsApart /\ PacketsCounted /\ PlacesDistinct /\ PlacesTaken
    /\ PacketsInTime /\ PacketsFinite

\* newRateLimiter: nothing has gone through.
LEMMA PacketsInit == Init => PacketsInv
<1> SUFFICES ASSUME Init PROVE PacketsInv
  OBVIOUS
<1>1. \A c \in Clients : windows[c] = <<>> /\ admitted[c] = {}
  BY Zenon DEF Init
<1>2. WindowsApart /\ PacketsCounted /\ PlacesDistinct /\ PlacesTaken /\ PacketsInTime
  BY <1>1 DEF WindowsApart, PacketsCounted, PlacesDistinct, PlacesTaken, PacketsInTime
<1>3. PacketsFinite
  BY <1>1, FS_EmptySet, Zenon DEF PacketsFinite
<1> QED
  BY LimiterInit, <1>2, <1>3, Zenon DEF PacketsInv

\* A new window starts after all the others have ended and has one packet.
LEMMA OpenWindowPackets ==
    ASSUME PacketsInv, NEW c \in Clients, OpenWindow(c)
    PROVE  PacketsInv'
<1> DEFINE n == Len(windows[c])
           w == [start |-> now, count |-> 1]
           p == [win |-> n + 1, nth |-> 1, at |-> now]
<1>1. /\ n \in Nat /\ now \in Nat
      /\ Len(windows'[c]) = n + 1 /\ windows'[c][n + 1] = w
      /\ \A i \in 1..n : windows'[c][i] = windows[c][i] /\ windows[c][i] \in History
      /\ n > 0 => now > windows[c][n].start + Window
      /\ admitted'[c] = admitted[c] \cup {p}
      /\ \A d \in Clients \ {c} : windows'[d] = windows[d] /\ admitted'[d] = admitted[d]
  BY OpenWindowEffect, Zenon DEF PacketsInv
<1>2. w.start = now /\ w.count = 1 /\ p.win = n + 1 /\ p.nth = 1 /\ p.at = now
  OBVIOUS
<1>3. now' = now /\ steady' = steady
  BY Zenon DEF OpenWindow
<1>4. \A q \in admitted[c] : q.win \in 1..n /\ q.win # n + 1
  BY <1>1 DEF PacketsInv, PacketsCounted
<1>12. \A i \in 1..n : windows[c][i].start \in Nat /\ windows'[c][i] = windows[c][i]
  BY <1>1, Zenon DEF History
<1>13. \A d \in Clients : d # c => windows'[d] = windows[d] /\ admitted'[d] = admitted[d]
  BY <1>1, Zenon
<1> HIDE DEF w, p
<1>5. WindowsApart'
  <2> SUFFICES ASSUME NEW d \in Clients, NEW i \in 1..Len(windows'[d]),
                      NEW j \in 1..Len(windows'[d]), i < j
               PROVE  windows'[d][j].start > windows'[d][i].start + Window
    BY Zenon DEF WindowsApart
  <2>1. CASE d # c
    BY <1>1, <2>1, Zenon DEF PacketsInv, WindowsApart
  <2>2. CASE d = c /\ j # n + 1
    <3>1. i \in 1..n /\ j \in 1..n
      BY <1>1, <2>2
    <3> QED
      BY <1>1, <2>2, <3>1, Zenon DEF PacketsInv, WindowsApart
  <2>3. CASE d = c /\ j = n + 1
    <3>1. i \in 1..n /\ n \in 1..n /\ n > 0
      BY <1>1, <2>3
    <3>2. windows[c][i].start <= windows[c][n].start
      <4>1. CASE i = n
        BY <1>12, <3>1, <4>1
      <4>2. CASE i # n
        <5>1. windows[c][n].start > windows[c][i].start + Window
          BY <3>1, <4>2 DEF PacketsInv, WindowsApart
        <5> QED
          BY <1>12, <3>1, <5>1, LimiterAssumption
      <4> QED
        BY <4>1, <4>2, Zenon
    <3>3. windows'[d][j].start = now /\ windows'[d][i].start = windows[c][i].start
      BY <1>1, <1>2, <2>3, <3>1, Zenon
    <3> QED
      <4>1. /\ now > windows[c][n].start + Window /\ now \in Nat
            /\ windows[c][n].start \in Nat /\ windows[c][i].start \in Nat
        BY <1>1, <1>12, <3>1, Zenon
      <4> QED
        BY <3>2, <3>3, <4>1, LimiterAssumption, SMTT(30)
  <2> QED
    BY <2>1, <2>2, <2>3, Zenon
<1>6. PacketsCounted'
  <2> SUFFICES ASSUME NEW d \in Clients, NEW q \in admitted'[d]
               PROVE  /\ q.win \in 1..Len(windows'[d])
                      /\ q.nth \in 1..windows'[d][q.win].count
                      /\ q.at <= windows'[d][q.win].start + Window
    BY Zenon DEF PacketsCounted
  <2>1. CASE q \in admitted[d]
    <3>1. q.win \in 1..Len(windows[d]) /\ q.win \in 1..Len(windows'[d])
          /\ windows'[d][q.win] = windows[d][q.win]
      BY <1>1, <2>1 DEF PacketsInv, PacketsCounted
    <3> QED
      BY <2>1, <3>1, Zenon DEF PacketsInv, PacketsCounted
  <2>2. CASE q \notin admitted[d]
    <3>1. d = c /\ q = p
      BY <1>1, <2>2, Zenon
    <3>2. n + 1 \in 1..(n + 1) /\ 1 \in 1..1 /\ now <= now + Window
      BY <1>1, LimiterAssumption
    <3> QED
      BY <1>1, <1>2, <3>1, <3>2, Zenon
  <2> QED
    BY <2>1, <2>2, Zenon
<1>7. PlacesDistinct'
  <2> SUFFICES ASSUME NEW d \in Clients, NEW q \in admitted'[d], NEW r \in admitted'[d],
                      q.win = r.win, q.nth = r.nth
               PROVE  q = r
    BY Zenon DEF PlacesDistinct
  <2>1. CASE q \in admitted[d] /\ r \in admitted[d]
    BY <2>1, Zenon DEF PacketsInv, PlacesDistinct
  <2>2. CASE q \notin admitted[d] \/ r \notin admitted[d]
    <3>1. d = c
      BY <1>13, <2>2, Zenon
    <3> QED
      BY <1>1, <1>2, <1>4, <2>2, <3>1, Zenon
  <2> QED
    BY <2>1, <2>2, Zenon
<1>8. PlacesTaken'
  <2> SUFFICES ASSUME NEW d \in Clients, NEW i \in 1..Len(windows'[d]),
                      NEW k \in 1..windows'[d][i].count
               PROVE  \E q \in admitted'[d] : q.win = i /\ q.nth = k
    BY Zenon DEF PlacesTaken
  <2>4. \A e \in Clients : \A h \in 1..Len(windows[e]) : \A m \in 1..windows[e][h].count :
            \E q \in admitted[e] : q.win = h /\ q.nth = m
    BY Zenon DEF PacketsInv, PlacesTaken
  <2>1. CASE d # c
    <3>1. i \in 1..Len(windows[d]) /\ k \in 1..windows[d][i].count
          /\ admitted'[d] = admitted[d]
      BY <1>13, <2>1, Zenon
    <3> QED
      BY <2>4, <3>1
  <2>2. CASE d = c /\ i # n + 1
    <3>1. i \in 1..n
      BY <1>1, <2>2
    <3> QED
      <4>1. i \in 1..Len(windows[c]) /\ k \in 1..windows[c][i].count
        BY <1>12, <2>2, <3>1, Zenon
      <4>2. PICK q \in admitted[c] : q.win = i /\ q.nth = k
        BY <2>4, <4>1
      <4> QED
        BY <1>1, <2>2, <4>2, Zenon
  <2>3. CASE d = c /\ i = n + 1
    <3>1. k = 1
      BY <1>1, <1>2, <2>3
    <3> QED
      BY <1>1, <1>2, <2>3, <3>1, Zenon
  <2> QED
    BY <2>1, <2>2, <2>3, Zenon
<1>9. PacketsInTime'
  <2> SUFFICES ASSUME steady, NEW d \in Clients
               PROVE  /\ \A i \in 1..Len(windows'[d]) : windows'[d][i].start <= now
                      /\ \A q \in admitted'[d] :
                            windows'[d][q.win].start <= q.at /\ q.at <= now
    BY <1>3, Zenon DEF PacketsInTime
  <2>1. CASE d # c
    BY <1>1, <2>1, Zenon DEF PacketsInv, PacketsInTime
  <2>2. CASE d = c
    <3>1. \A i \in 1..(n + 1) : i = n + 1 \/ i \in 1..n
      BY <1>1
    <3>2. now <= now
      BY <1>1
    <3>3. /\ \A i \in 1..n : windows[c][i].start <= now
          /\ \A q \in admitted[c] : windows[c][q.win].start <= q.at /\ q.at <= now
      BY Zenon DEF PacketsInv, PacketsInTime
    <3>4. \A i \in 1..(n + 1) : windows'[c][i].start <= now
      BY <1>1, <1>2, <1>12, <3>1, <3>2, <3>3, Zenon
    <3>5. ASSUME NEW q \in admitted'[c]
          PROVE  windows'[c][q.win].start <= q.at /\ q.at <= now
      <4>1. CASE q \in admitted[c]
        BY <1>4, <1>12, <3>3, <4>1, Zenon
      <4>2. CASE q = p
        BY <1>1, <1>2, <3>2, <4>2, Zenon
      <4> QED
        BY <1>1, <4>1, <4>2, Zenon
    <3> QED
      BY <1>1, <2>2, <3>4, <3>5, Zenon
  <2> QED
    BY <2>1, <2>2, Zenon
<1>10. PacketsFinite'
  <2>1. IsFiniteSet(admitted[c]) /\ IsFiniteSet(admitted[c] \cup {p})
    BY FS_AddElement, Zenon DEF PacketsInv, PacketsFinite
  <2> QED
    BY <1>1, <1>13, <2>1, Zenon DEF PacketsInv, PacketsFinite
<1>11. LimiterInv'
  BY OpenWindowStep, Zenon DEF PacketsInv
<1> QED
  BY <1>5, <1>6, <1>7, <1>8, <1>9, <1>10, <1>11, Zenon DEF PacketsInv

\* A counted packet takes the next place of the last window, whose start stays.
LEMMA CountPacketPackets ==
    ASSUME PacketsInv, NEW c \in Clients, CountPacket(c)
    PROVE  PacketsInv'
<1> DEFINE n == Len(windows[c])
           w == [start |-> windows[c][n].start, count |-> windows[c][n].count + 1]
           p == [win |-> n, nth |-> w.count, at |-> now]
<1>1. /\ n \in Nat /\ n > 0 /\ now \in Instants
      /\ w.start = windows[c][n].start /\ w.count = windows[c][n].count + 1
      /\ now <= w.start + Window
      /\ Len(windows'[c]) = n /\ windows'[c][n] = w
      /\ \A i \in 1..n : i # n => windows'[c][i] = windows[c][i]
      /\ \A i \in 1..n : windows[c][i] \in History
      /\ admitted'[c] = admitted[c] \cup {p}
      /\ \A d \in Clients \ {c} : windows'[d] = windows[d] /\ admitted'[d] = admitted[d]
  BY CountPacketEffect, Zenon DEF PacketsInv
<1>2. p.win = n /\ p.nth = w.count /\ p.at = now
  OBVIOUS
<1>3. now' = now /\ steady' = steady
  BY Zenon DEF CountPacket
<1> HIDE DEF w, p
<1>4. \A i \in 1..n : windows[c][i].start \in Nat /\ windows[c][i].count \in Nat
  BY <1>1, Zenon DEF History
<1>5. \A i \in 1..n : windows'[c][i].start = windows[c][i].start
  BY <1>1, Zenon
<1>6. n \in 1..n
  BY <1>1
<1>7. \A i \in 1..n : \A k \in 1..windows[c][i].count : k \in 1..windows'[c][i].count
  <2> TAKE i \in 1..n
  <2>1. CASE i = n
    BY <1>1, <1>4, <2>1
  <2>2. CASE i # n
    BY <1>1, <2>2, Zenon
  <2> QED
    BY <2>1, <2>2, Zenon
<1>8. \A q \in admitted[c] : /\ q.win \in 1..n /\ q.nth \in 1..windows[c][q.win].count
                             /\ q.at <= windows[c][q.win].start + Window
  BY Zenon DEF PacketsInv, PacketsCounted
<1>9. \A d \in Clients : d # c => windows'[d] = windows[d] /\ admitted'[d] = admitted[d]
  BY <1>1, Zenon
<1>10. WindowsApart'
  <2> SUFFICES ASSUME NEW d \in Clients, NEW i \in 1..Len(windows'[d]),
                      NEW j \in 1..Len(windows'[d]), i < j
               PROVE  windows'[d][j].start > windows'[d][i].start + Window
    BY Zenon DEF WindowsApart
  <2>1. CASE d # c
    BY <1>9, <2>1, Zenon DEF PacketsInv, WindowsApart
  <2>2. CASE d = c
    BY <1>1, <1>5, <2>2, Zenon DEF PacketsInv, WindowsApart
  <2> QED
    BY <2>1, <2>2, Zenon
<1>11. PacketsCounted'
  <2> SUFFICES ASSUME NEW d \in Clients, NEW q \in admitted'[d]
               PROVE  /\ q.win \in 1..Len(windows'[d])
                      /\ q.nth \in 1..windows'[d][q.win].count
                      /\ q.at <= windows'[d][q.win].start + Window
    BY Zenon DEF PacketsCounted
  <2>1. CASE d # c
    BY <1>9, <2>1, Zenon DEF PacketsInv, PacketsCounted
  <2>2. CASE d = c /\ q \in admitted[c]
    BY <1>1, <1>5, <1>7, <1>8, <2>2, Zenon
  <2>3. CASE d = c /\ q = p
    <3>1. w.count \in 1..w.count
      BY <1>1, <1>4, <1>6
    <3> QED
      BY <1>1, <1>2, <1>6, <2>3, <3>1, Zenon
  <2> QED
    BY <1>1, <2>1, <2>2, <2>3, Zenon
<1>12. PlacesDistinct'
  <2> SUFFICES ASSUME NEW d \in Clients, NEW q \in admitted'[d], NEW r \in admitted'[d],
                      q.win = r.win, q.nth = r.nth
               PROVE  q = r
    BY Zenon DEF PlacesDistinct
  <2>1. CASE q \in admitted[d] /\ r \in admitted[d]
    BY <2>1, Zenon DEF PacketsInv, PlacesDistinct
  <2>2. CASE q \notin admitted[d] \/ r \notin admitted[d]
    <3>1. d = c
      BY <1>9, <2>2, Zenon
    <3>2. \A o \in admitted[c] : o.win = n => o.nth # w.count
      BY <1>1, <1>4, <1>6, <1>8
    <3> QED
      BY <1>1, <1>2, <2>2, <3>1, <3>2, Zenon
  <2> QED
    BY <2>1, <2>2, Zenon
<1>13. PlacesTaken'
  <2> SUFFICES ASSUME NEW d \in Clients, NEW i \in 1..Len(windows'[d]),
                      NEW k \in 1..windows'[d][i].count
               PROVE  \E q \in admitted'[d] : q.win = i /\ q.nth = k
    BY Zenon DEF PlacesTaken
  <2>1. \A e \in Clients : \A h \in 1..Len(windows[e]) : \A m \in 1..windows[e][h].count :
            \E q \in admitted[e] : q.win = h /\ q.nth = m
    BY Zenon DEF PacketsInv, PlacesTaken
  <2>2. CASE d # c
    <3>1. i \in 1..Len(windows[d]) /\ k \in 1..windows[d][i].count
          /\ admitted'[d] = admitted[d]
      BY <1>9, <2>2, Zenon
    <3> QED
      BY <2>1, <3>1
  <2>3. CASE d = c /\ ~(i = n /\ k = w.count)
    <3>1. i \in 1..Len(windows[c])
      BY <1>1, <2>3, Zenon
    <3>2. k \in 1..windows[c][i].count
      <4>1. CASE i = n
        BY <1>1, <1>4, <1>6, <2>3, <4>1
      <4>2. CASE i # n
        BY <1>1, <2>3, <3>1, <4>2, Zenon
      <4> QED
        BY <4>1, <4>2, Zenon
    <3>3. PICK q \in admitted[c] : q.win = i /\ q.nth = k
      BY <2>1, <3>1, <3>2
    <3> QED
      BY <1>1, <2>3, <3>3, Zenon
  <2>4. CASE d = c /\ i = n /\ k = w.count
    BY <1>1, <1>2, <2>4, Zenon
  <2> QED
    BY <2>2, <2>3, <2>4, Zenon
<1>14. PacketsInTime'
  <2> SUFFICES ASSUME steady, NEW d \in Clients
               PROVE  /\ \A i \in 1..Len(windows'[d]) : windows'[d][i].start <= now
                      /\ \A q \in admitted'[d] :
                            windows'[d][q.win].start <= q.at /\ q.at <= now
    BY <1>3, Zenon DEF PacketsInTime
  <2>1. CASE d # c
    BY <1>9, <2>1, Zenon DEF PacketsInv, PacketsInTime
  <2>2. CASE d = c
    <3>1. /\ \A i \in 1..n : windows[c][i].start <= now
          /\ \A q \in admitted[c] : windows[c][q.win].start <= q.at /\ q.at <= now
      BY Zenon DEF PacketsInv, PacketsInTime
    <3>2. now <= now
      BY <1>1 DEF Instants
    <3>3. ASSUME NEW q \in admitted'[c]
          PROVE  windows'[c][q.win].start <= q.at /\ q.at <= now
      <4>1. CASE q \in admitted[c]
        BY <1>5, <1>8, <3>1, <4>1, Zenon
      <4>2. CASE q = p
        BY <1>2, <1>5, <1>6, <3>1, <3>2, <4>2, Zenon
      <4> QED
        BY <1>1, <4>1, <4>2, Zenon
    <3> QED
      BY <1>1, <1>5, <2>2, <3>1, <3>3, Zenon
  <2> QED
    BY <2>1, <2>2, Zenon
<1>15. PacketsFinite'
  <2>1. IsFiniteSet(admitted[c]) /\ IsFiniteSet(admitted[c] \cup {p})
    BY FS_AddElement, Zenon DEF PacketsInv, PacketsFinite
  <2> QED
    BY <1>1, <1>9, <2>1, Zenon DEF PacketsInv, PacketsFinite
<1>16. LimiterInv'
  BY CountPacketStep, Zenon DEF PacketsInv
<1> QED
  BY <1>10, <1>11, <1>12, <1>13, <1>14, <1>15, <1>16, Zenon DEF PacketsInv

\* Every step accounts for the packets; a clock that is set back ends the promise.
LEMMA PacketsStep == PacketsInv /\ [Next]_vars => PacketsInv'
<1> SUFFICES ASSUME PacketsInv, [Next]_vars PROVE PacketsInv'
  OBVIOUS
<1>0. LimiterInv'
  BY LimiterStep, Zenon DEF PacketsInv
<1>1. CASE UNCHANGED vars
  BY <1>0, <1>1 DEF vars, PacketsInv, WindowsApart, PacketsCounted, PlacesDistinct,
                    PlacesTaken, PacketsInTime, PacketsFinite
<1>2. CASE ClockChange
  <2>1. UNCHANGED <<windows, admitted>> /\ (steady' => steady /\ now <= now')
        /\ now \in Nat /\ now' \in Nat
    <3>1. PICK d \in ClockSteps : /\ now + d \in Instants /\ now' = now + d
                                  /\ steady' = (steady /\ d >= 0)
      BY <1>2, Zenon DEF ClockChange
    <3>2. now \in Instants /\ (steady' => steady /\ d >= 0)
      BY <3>1, Zenon DEF PacketsInv, LimiterInv, TypeOK
    <3>3. now \in Nat /\ now' \in Nat /\ (d >= 0 => now <= now')
      BY <3>1, <3>2, LimiterAssumption DEF Instants
    <3> QED
      BY <1>2, <3>2, <3>3, Zenon DEF ClockChange
  <2>2. PacketsInTime'
    <3> SUFFICES ASSUME steady', NEW c \in Clients
                 PROVE  /\ \A i \in 1..Len(windows[c]) : windows[c][i].start <= now'
                        /\ \A p \in admitted[c] : windows[c][p.win].start <= p.at
                                                  /\ p.at <= now'
      BY <2>1, Zenon DEF PacketsInTime
    <3>1. /\ \A i \in 1..Len(windows[c]) : windows[c][i].start <= now
          /\ \A p \in admitted[c] : windows[c][p.win].start <= p.at /\ p.at <= now
      BY <2>1, Zenon DEF PacketsInv, PacketsInTime
    <3>2. /\ \A i \in 1..Len(windows[c]) : windows[c][i].start \in Nat
          /\ \A p \in admitted[c] : p.at \in Nat
      <4>1. windows[c] \in Seq(History)
        BY Zenon DEF PacketsInv, LimiterInv, TypeOK, History
      <4>2. admitted[c] \in SUBSET [win : Nat, nth : Nat, at : Instants]
        BY Zenon DEF PacketsInv, LimiterInv, TypeOK
      <4> QED
        <5>1. \A i \in 1..Len(windows[c]) : windows[c][i] \in History
          BY <4>1
        <5>2. \A p \in admitted[c] : p.at \in Instants
          BY <4>2, Zenon
        <5> QED
          BY <5>1, <5>2, LimiterAssumption DEF Instants, History
    <3> QED
      BY <2>1, <3>1, <3>2
  <2> QED
    BY <1>0, <2>1, <2>2 DEF PacketsInv, WindowsApart, PacketsCounted, PlacesDistinct,
                            PlacesTaken, PacketsFinite
<1>3. ASSUME NEW c \in Clients, Allow(c) PROVE PacketsInv'
  BY <1>1, <1>3, OpenWindowPackets, CountPacketPackets, Zenon DEF Allow, Refuse
<1> QED
  BY <1>1, <1>2, <1>3, Zenon DEF Next

\* Packets of two windows with b places each are at most 2 * b.
LEMMA TwoWindowsHold ==
    ASSUME NEW S, NEW b \in Nat, NEW i \in Nat,
           \A p \in S : p.win \in {i, i + 1} /\ p.nth \in 1..b,
           \A p, q \in S : p.win = q.win /\ p.nth = q.nth => p = q
    PROVE  Cardinality(S) <= 2 * b
<1> DEFINE f == [p \in S |-> IF p.win = i THEN p.nth ELSE b + p.nth]
<1>1. \A p \in S : f[p] \in 1..(2 * b)
  OBVIOUS
<1>2. ASSUME NEW p \in S, NEW q \in S, f[p] = f[q] PROVE p = q
  <2>1. p.win = q.win /\ p.nth = q.nth
    BY <1>2
  <2> QED
    BY <2>1, Zenon
<1>3. f \in [S -> 1..(2 * b)]
  BY <1>1, Zenon
<1> HIDE DEF f
<1>4. f \in Injection(S, 1..(2 * b))
  BY <1>2, <1>3, Fun_IsInj, Zenon
<1>5. IsFiniteSet(1..(2 * b)) /\ Cardinality(1..(2 * b)) = 2 * b
  BY FS_Interval, 1 \in Int, 2 * b \in Int
<1> QED
  BY <1>4, <1>5, FS_Injection

\* A window whose first b places are taken holds b packets.
LEMMA PlacesHold ==
    ASSUME NEW S, IsFiniteSet(S), NEW b \in Nat, NEW i,
           \A k \in 1..b : \E p \in S : p.win = i /\ p.nth = k
    PROVE  b <= Cardinality(S)
<1> DEFINE f == [k \in 1..b |-> CHOOSE p \in S : p.win = i /\ p.nth = k]
<1>1. \A k \in 1..b : f[k] \in S /\ f[k].nth = k
  OBVIOUS
<1>2. f \in [1..b -> S]
  BY <1>1, Zenon
<1> HIDE DEF f
<1>3. f \in Injection(1..b, S)
  BY <1>1, <1>2, Fun_IsInj, Zenon
<1>4. Cardinality(1..b) = b
  BY FS_Interval, 1 \in Int, b \in Int
<1> QED
  BY <1>3, <1>4, FS_Injection

\* Packets that went through within a window's length of each other belong to the same
\* or to adjacent windows.
LEMMA CloseTogether ==
    ASSUME PacketsInv, steady, NEW c \in Clients, NEW t \in Instants,
           NEW p \in admitted[c], NEW q \in admitted[c],
           p.at \in t..(t + Window), q.at \in t..(t + Window)
    PROVE  q.win <= p.win + 1
<1> SUFFICES ASSUME q.win > p.win + 1 PROVE FALSE
  <2>1. p.win \in Nat /\ q.win \in Nat
    BY DEF PacketsInv, PacketsCounted
  <2> QED
    BY <2>1
<1> DEFINE n == Len(windows[c])
           start(i) == windows[c][i].start
<1>1. /\ windows[c] \in Seq(History) /\ p.win \in 1..n /\ q.win \in 1..n /\ n \in Nat
      /\ t \in Nat /\ p.at \in Int /\ q.at \in Int
  <2>1. windows[c] \in Seq(History) /\ n \in Nat
    BY DEF PacketsInv, LimiterInv, TypeOK, History
  <2>2. p.win \in 1..n /\ q.win \in 1..n
    BY Zenon DEF PacketsInv, PacketsCounted
  <2> QED
    BY <2>1, <2>2, LimiterAssumption DEF Instants
<1>2. p.win + 1 \in 1..n
  BY <1>1
<1>3. start(p.win + 1) \in Nat /\ start(p.win) \in Nat /\ start(q.win) \in Nat
  <2>1. \A i \in 1..n : windows[c][i] \in History
    BY <1>1
  <2> QED
    BY <1>1, <1>2, <2>1, Zenon DEF History
<1>4. p.win < p.win + 1 /\ p.win + 1 < q.win
  BY <1>1
<1>5. start(p.win + 1) > start(p.win) + Window /\ start(q.win) > start(p.win + 1) + Window
  BY <1>1, <1>2, <1>4, Zenon DEF PacketsInv, WindowsApart
<1>6. p.at <= start(p.win) + Window /\ start(q.win) <= q.at
  BY Zenon DEF PacketsInv, PacketsCounted, PacketsInTime
<1> HIDE DEF start
<1> QED
  BY <1>1, <1>3, <1>5, <1>6, LimiterAssumption, SMTT(30)

\* While the wall clock is not set back, no span as long as a window sees more than two
\* budgets of a client, for every limit and window: the packets of such a span have
\* their places in two adjacent windows (limiter.go:33-47).
THEOREM BurstBoundAlways == Spec => []BurstBound
<1>1. PacketsInv => BurstBound
  <2> SUFFICES ASSUME PacketsInv, steady, NEW c \in Clients, NEW t \in Instants
               PROVE  Passed(c, t, Window) <= 2 * Budget
    BY Zenon DEF BurstBound
  <2> DEFINE S == {p \in admitted[c] : p.at \in t..(t + Window)}
  <2>1. Budget \in Nat
    BY LimiterAssumption DEF Budget
  <2>2. \A p \in S : p.win \in Nat /\ p.win >= 1 /\ p.nth \in 1..Budget
    <3> TAKE p \in S
    <3>1. p.win \in 1..Len(windows[c]) /\ p.nth \in 1..windows[c][p.win].count
      BY Zenon DEF PacketsInv, PacketsCounted
    <3>2. windows[c][p.win].count <= Budget
      BY <3>1, Zenon DEF PacketsInv, LimiterInv, WindowsKeepBudget
    <3>3. windows[c] \in Seq(History)
      BY Zenon DEF PacketsInv, LimiterInv, TypeOK, History
    <3>4. windows[c][p.win] \in History
      BY <3>1, <3>3
    <3>5. windows[c][p.win].count \in Nat
      BY <3>4, Zenon DEF History
    <3> QED
      BY <2>1, <3>1, <3>2, <3>5
  <2>3. \A p, q \in S : p.win = q.win /\ p.nth = q.nth => p = q
    BY Zenon DEF PacketsInv, PlacesDistinct
  <2>4. \A p, q \in S : q.win <= p.win + 1
    BY CloseTogether, Zenon
  <2>5. \E i \in Nat : \A p \in S : p.win \in {i, i + 1}
    <3>1. CASE S = {}
      BY <3>1, Zenon
    <3>2. CASE \E p, q \in S : q.win = p.win + 1
      <4>1. PICK p, q \in S : q.win = p.win + 1
        BY <3>2, Zenon
      <4> SUFFICES \A r \in S : r.win \in {p.win, p.win + 1}
        BY <2>2, Zenon
      <4> TAKE r \in S
      <4>2. p.win \in Nat /\ q.win \in Nat /\ r.win \in Nat
        BY <2>2, Zenon
      <4>3. r.win <= p.win + 1 /\ q.win <= r.win + 1
        BY <2>4, Zenon
      <4> QED
        BY <4>1, <4>2, <4>3
    <3>3. CASE S # {} /\ ~\E p, q \in S : q.win = p.win + 1
      <4>1. PICK p \in S : TRUE
        BY <3>3, Zenon
      <4> SUFFICES \A r \in S : r.win = p.win
        BY <2>2, Zenon
      <4> TAKE r \in S
      <4>2. p.win \in Nat /\ r.win \in Nat
        BY <2>2, Zenon
      <4>3. r.win <= p.win + 1 /\ p.win <= r.win + 1 /\ r.win # p.win + 1
            /\ p.win # r.win + 1
        BY <2>4, <3>3, Zenon
      <4> QED
        BY <4>2, <4>3
    <3> QED
      BY <3>1, <3>2, <3>3, Zenon
  <2>6. Passed(c, t, Window) = Cardinality(S)
    BY Zenon DEF Passed
  <2> HIDE DEF S
  <2>7. PICK i \in Nat : \A p \in S : p.win \in {i, i + 1}
    BY <2>5, Zenon
  <2>8. \A p \in S : p.win \in {i, i + 1} /\ p.nth \in 1..Budget
    BY <2>2, <2>7, Zenon
  <2> QED
    BY <2>1, <2>3, <2>6, <2>8, TwoWindowsHold, Zenon
<1> QED
  BY PacketsInit, PacketsStep, <1>1, PTL DEF Spec

\* While the wall clock is not set back, a client is refused only after its whole budget
\* went through within the last window's length (limiter.go:41-43): the places counted
\* by the entry are all taken by packets that are no older than the window.
THEOREM RefusedHadBudgetAlways == Spec => []RefusedHadBudget
<1>1. PacketsInv => RefusedHadBudget
  <2> SUFFICES ASSUME PacketsInv, steady, NEW c \in Clients, ~Expired(c), UsedUp(c)
               PROVE  Passed(c, now - Window, Window) >= Budget
    BY Zenon DEF RefusedHadBudget
  <2> DEFINE n == Len(windows[c])
             S == {p \in admitted[c] : p.at \in (now - Window)..(now - Window + Window)}
  <2>1. /\ windows[c] \in Seq(History) /\ n \in Nat /\ now \in Nat
        /\ admitted[c] \subseteq Packets
    <3>1. windows[c] \in Seq(History) /\ now \in Instants /\ admitted[c] \subseteq Packets
      BY Zenon DEF PacketsInv, LimiterInv, TypeOK, History, Packets
    <3> QED
      BY <3>1, LimiterAssumption DEF Instants
  <2>2. seen[c] # NoEntry /\ ~(now > seen[c].resetAt)
    BY Zenon DEF Expired
  <2>3. n > 0
    <3>1. n # 0
      BY <2>2, Zenon DEF PacketsInv, LimiterInv, EntryIsLast
    <3> QED
      BY <2>1, <3>1
  <2>4. /\ seen[c] = [resetAt |-> windows[c][n].start + Window,
                      count |-> windows[c][n].count]
        /\ seen[c].count >= 1
    BY <2>3, Zenon DEF PacketsInv, LimiterInv, EntryIsLast
  <2>5. n \in 1..n /\ windows[c][n] \in History
    BY <2>1, <2>3
  <2>6. windows[c][n].start \in Nat /\ windows[c][n].count \in Nat
    BY <2>5, Zenon DEF History
  <2>7. windows[c][n].start >= now - Window
    <3>1. seen[c].resetAt = windows[c][n].start + Window
      BY <2>4
    <3> QED
      BY <2>1, <2>2, <2>6, <3>1, LimiterAssumption
  <2>8. Budget \in Nat /\ Budget <= windows[c][n].count
    <3>1. seen[c].count = windows[c][n].count
      BY <2>4
    <3>2. windows[c][n].count >= Limit /\ windows[c][n].count >= 1
      BY <2>4, <3>1, Zenon DEF UsedUp
    <3> QED
      BY <2>6, <3>2, LimiterAssumption DEF Budget
  <2>9. ASSUME NEW k \in 1..Budget PROVE \E p \in S : p.win = n /\ p.nth = k
    <3>1. k \in 1..windows[c][n].count
      BY <2>6, <2>8
    <3>2. PICK p \in admitted[c] : p.win = n /\ p.nth = k
      BY <2>5, <3>1 DEF PacketsInv, PlacesTaken
    <3>3. windows[c][n].start <= p.at /\ p.at <= now
      BY <3>2, Zenon DEF PacketsInv, PacketsInTime
    <3>4. p.at \in Nat
      <4>1. p \in Packets
        BY <2>1, Zenon
      <4> QED
        BY <4>1, LimiterAssumption DEF Packets, Instants
    <3>5. p.at \in (now - Window)..(now - Window + Window)
      BY <2>1, <2>6, <2>7, <3>3, <3>4, LimiterAssumption
    <3> QED
      BY <3>2, <3>5, Zenon
  <2>10. IsFiniteSet(S)
    <3>1. IsFiniteSet(admitted[c]) /\ S \in SUBSET admitted[c]
      BY Zenon DEF PacketsInv, PacketsFinite
    <3> HIDE DEF S
    <3> QED
      BY <3>1, FS_Subset, Zenon
  <2>11. Passed(c, now - Window, Window) = Cardinality(S)
    BY Zenon DEF Passed
  <2> HIDE DEF S, n
  <2>12. Budget <= Cardinality(S)
    BY <2>8, <2>9, <2>10, PlacesHold, Zenon
  <2>13. Cardinality(S) \in Nat
    BY <2>10, FS_CardinalityType, Zenon
  <2> QED
    BY <2>8, <2>11, <2>12, <2>13, Zenon
<1> QED
  BY PacketsInit, PacketsStep, <1>1, PTL DEF Spec
=============================================================================
