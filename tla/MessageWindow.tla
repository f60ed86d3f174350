--------------------------- MODULE MessageWindow ---------------------------
(***************************************************************************)
(* The window of each channel's history that the app keeps in memory.  A   *)
(* message is its place in the order of history: a message that a radio    *)
(* had banked comes after newer ones.  The window is loaded from the store *)
(* once, grows by pages of older rows, and is trimmed as messages arrive;  *)
(* the app has copies of two fields of the current channel's state.  A     *)
(* page is read and prepended at once, but the task that does it goes on   *)
(* after an await, while messages arrive and the channel may change; a     *)
(* switch of channel likewise ends after the awaits that mount the new     *)
(* transcript.  A reconnect drops every state and loads the first channel  *)
(* again (rows of no profile, or of another, are in Profiles).             *)
(***************************************************************************)
EXTENDS FiniteSetsExt, Naturals

CONSTANTS
  Chans,    \* channels; 0 is none
  Messages, \* numbers: the order of history
  ChanOf,   \* the channel of each message
  Limit,    \* DEFAULT_HISTORY_LIMIT
  PageSize, \* OLDER_HISTORY_PAGE_SIZE
  Ceiling,  \* MOUNTED_CHAT_UNREAD_CEILING
  MaxMoves  \* bound: changes of tab or channel, and reconnects

ASSUME WindowAssumption ==
  /\ Chans # {} /\ 0 \notin Chans
  /\ Messages \subseteq Nat /\ IsFiniteSet(Messages) /\ ChanOf \in [Messages -> Chans]
  /\ Limit \in Nat \ {0} /\ PageSize \in Nat \ {0} /\ Ceiling \in Nat /\ MaxMoves \in Nat

VARIABLES
  stored,    \* messages in the store
  entries, \* ChannelChatState.entries
  state,   \* its has_older_history, mounted_target and loaded
  mine,    \* _has_older_history and _mounted_chat_target
  at,      \* current_channel_index
  visible, \* the CHAT tab, in CHANNEL mode
  fresh,   \* new_message_ids, and the entries with is_new
  unread,  \* unread_message_ids, and the entries with unread
  count,   \* unread_count of each channel
  unseen,  \* messages that came while their channel was not shown, since then
  page,    \* the page whose task is at its await
  raced,   \* a page met an older message, or a trim, while it was mounted
  mounting, \* switches of channel at their awaits
  crossed, \* a page met a change of channel, or a reconnect
  mixed,   \* a page was read while a switch was at its awaits
  moves

windowVars == <<stored, entries, state, mine, at, visible, fresh, unread, count, unseen,
                page, raced, mounting, crossed, mixed, moves>>

FirstChan == CHOOSE c \in Chans : TRUE  \* slot 0

Below(n, c) == {m \in stored : ChanOf[m] = c /\ m < n}
Oldest(set) == Min(set)
Newest(set, n) == {m \in set : Cardinality({k \in set : k > m}) < n}

-----------------------------------------------------------------------------
Bounds(older, target) == [older |-> older, target |-> target]
Bounded(older, loaded) == [older |-> older, target |-> Limit, loaded |-> loaded]
NoPage == [chan |-> 0, older |-> FALSE]

(* load_recent_page, the first time a channel is touched.                  *)
recent(c) == Newest({m \in stored : ChanOf[m] = c}, Limit)
has_more(c) == Cardinality({m \in stored : ChanOf[m] = c}) > Limit
loadedEntries(c) == IF state[c].loaded THEN entries[c] ELSE recent(c)
loadedState(c) ==
  IF state[c].loaded THEN state[c]
  ELSE Bounded(has_more(c), TRUE)

(* _capture_current_channel_state.                                         *)
captured(st, b) == [st EXCEPT ![at] = [older |-> b.older, target |-> b.target, loaded |-> TRUE]]

(* _trim_mounted_chat_window pops the oldest while it may.                 *)
may_pop(win, target) ==
  Min(win) \notin fresh' \cup unread' \/ Cardinality(win) > target + Ceiling

trimmed(win, target) ==
  LET Stop(w) == Cardinality(w) <= target \/ ~may_pop(w, target)
      suffixes == {Newest(win, n) : n \in 0..Cardinality(win)}
  IN  CHOOSE w \in suffixes :
        /\ Stop(w)
        /\ \A v \in suffixes : Cardinality(v) > Cardinality(w) => ~Stop(v)

(* Bug: whatever is older than the window is inserted before it.           *)
NeverOutside(m, win, st) == FALSE

(* outside_mounted_window.                                                 *)
outside_window(m, win, st) ==
  /\ win # {} /\ m < Min(win)
  /\ st.older \/ Cardinality(win) >= st.target

(* _clear_message_read_state of several entries.                           *)
Read(set) ==
  /\ fresh' = fresh \ set /\ unread' = unread \ set /\ unseen' = unseen \ set
  /\ LET n == Cardinality(set \cap unread) IN
     count' = [count EXCEPT ![at] = IF @ > n THEN @ - n ELSE 0]

-----------------------------------------------------------------------------
(* _accept_received_message; a duplicate changes nothing.  The widget of   *)
(* the current channel's entry is mounted, and the window trimmed.         *)
Receive(m) ==
  LET c == ChanOf[m]
      win == loadedEntries(c)
      st == loadedState(c)
      out == outside_window(m, win, st)
      target == mine.target
      after == IF out THEN win ELSE IF c = at THEN trimmed(win \cup {m}, target)
               ELSE win \cup {m}
      older == mine.older \/ out \/ Cardinality(after) < Cardinality(win \cup {m})
  IN
  /\ m \notin stored /\ stored' = stored \cup {m}
  /\ fresh' = fresh \cup {m}
  /\ IF visible /\ c = at THEN UNCHANGED <<unread, count, unseen>>
     ELSE /\ unread' = unread \cup {m}
          /\ count' = [count EXCEPT ![c] = @ + 1]
          /\ unseen' = unseen \cup {m}
  /\ entries' = [entries EXCEPT ![c] = after]
  /\ IF c = at
     THEN mine' = Bounds(older, target) /\ state' = captured(state, mine')
     ELSE state' = [state EXCEPT ![c] = [st EXCEPT !.older = @ \/ out]] /\ UNCHANGED mine
  /\ raced' = (raced \/ (page # NoPage /\ c = at /\ after # win \cup {m}))
  /\ UNCHANGED <<at, visible, page, mounting, crossed, mixed, moves>>

(* load_older_chat_history, up to the await that mounts the page; an empty *)
(* page is the end of history.                                             *)
LoadOlder ==
  /\ visible /\ page = NoPage /\ mine.older /\ entries[at] # {}
  /\ LET older == Below(Oldest(entries[at]), at)
         got == Newest(older, PageSize)
     IN  IF got = {}
         THEN /\ mine' = Bounds(FALSE, mine.target) /\ state' = captured(state, mine')
              /\ UNCHANGED <<entries, page>>
         ELSE /\ entries' = [entries EXCEPT ![at] = @ \cup got]
              /\ mine' = Bounds(mine.older, mine.target + Cardinality(got))
              /\ page' = [chan |-> at, older |-> Cardinality(older) > PageSize]
              /\ UNCHANGED state
  /\ mixed' = (mixed \/ mounting > 0)
  /\ UNCHANGED <<stored, at, visible, fresh, unread, count, unseen, raced, mounting,
                 crossed, moves>>

PageMounted ==
  /\ page # NoPage /\ page' = NoPage
  /\ mine' = Bounds(page.older, mine.target) /\ state' = captured(state, mine')
  /\ UNCHANGED <<stored, entries, at, visible, fresh, unread, count, unseen, raced,
                 mounting, crossed, mixed, moves>>

(* Bug: the unread messages are only those of the window.                  *)
ViewedWindow(c, win) ==
  /\ unread' = unread \ win
  /\ count' = [count EXCEPT ![c] = @ - Cardinality(win \cap unread)]
  /\ unseen' = {m \in unseen : ChanOf[m] # c}

(* _mark_unread_messages_viewed.                                           *)
mark_viewed(c, win) ==
  /\ unread' = unread \ win /\ count' = [count EXCEPT ![c] = 0]
  /\ unseen' = {m \in unseen : ChanOf[m] # c}

(* show_tab and _switch_chat_mode: _mark_new_messages_read on the way out. *)
LeaveChat ==
  /\ visible /\ moves < MaxMoves /\ moves' = moves + 1
  /\ visible' = FALSE
  /\ Read(entries[at] \cap fresh)
  /\ UNCHANGED <<stored, entries, state, mine, at, page, raced, mounting, crossed, mixed>>

EnterChat ==
  /\ ~visible /\ moves < MaxMoves /\ moves' = moves + 1
  /\ visible' = TRUE
  /\ mark_viewed(at, entries[at])
  /\ UNCHANGED <<stored, entries, state, mine, at, fresh, page, raced, mounting, crossed,
                 mixed>>

(* _switch_channel, up to the awaits of _mount_channel_transcript: what    *)
(* was new in the old channel is read, if shown.                           *)
SwitchChannel(c) ==
  /\ c # at /\ moves < MaxMoves /\ moves' = moves + 1
  /\ at' = c
  /\ entries' = [entries EXCEPT ![c] = loadedEntries(c)]
  /\ state' = [captured(state, mine) EXCEPT ![c] = loadedState(c)]
  /\ mine' = Bounds(loadedState(c).older, loadedState(c).target)
  /\ Read(IF visible THEN entries[at] \cap fresh ELSE {})
  /\ mounting' = mounting + 1
  /\ crossed' = (crossed \/ page # NoPage)
  /\ UNCHANGED <<stored, visible, page, raced, mixed>>

(* Its end, for the channel that is current by then.                       *)
TranscriptMounted ==
  /\ mounting > 0 /\ mounting' = mounting - 1
  /\ IF visible THEN mark_viewed(at, entries[at]) ELSE UNCHANGED <<unread, count, unseen>>
  /\ UNCHANGED <<stored, entries, state, mine, at, visible, fresh, page, raced, crossed,
                 mixed, moves>>

(* _reload_active_profile_view, on a reconnect.                            *)
Reload ==
  /\ moves < MaxMoves /\ moves' = moves + 1
  /\ at' = FirstChan
  /\ entries' = [c \in Chans |-> IF c = FirstChan THEN recent(c) ELSE {}]
  /\ state' = [c \in Chans |-> IF c = FirstChan THEN Bounded(has_more(c), TRUE)
                               ELSE Bounded(FALSE, FALSE)]
  /\ mine' = Bounds(has_more(FirstChan), Limit)
  /\ fresh' = {} /\ unread' = {} /\ unseen' = {} /\ count' = [c \in Chans |-> 0]
  /\ crossed' = (crossed \/ page # NoPage)
  /\ UNCHANGED <<stored, visible, page, raced, mounting, mixed>>

(* chat_selection_changed.                                                 *)
SelectMessage(m) ==
  /\ visible /\ m \in entries[at] \cap fresh
  /\ Read({m})
  /\ UNCHANGED <<stored, entries, state, mine, at, visible, page, raced, mounting, crossed,
                 mixed, moves>>

WindowInit ==
  /\ stored \in SUBSET Messages /\ at = FirstChan
  /\ state = [c \in Chans |-> Bounded(c = at /\ has_more(c), c = at)]
  /\ entries = [c \in Chans |-> IF c = at THEN recent(c) ELSE {}]
  /\ mine = Bounds(has_more(at), Limit)
  /\ visible = TRUE /\ fresh = {} /\ unread = {}
  /\ count = [c \in Chans |-> 0] /\ unseen = {}
  /\ page = NoPage /\ raced = FALSE /\ mounting = 0 /\ crossed = FALSE /\ mixed = FALSE
  /\ moves = 0

WindowNext ==
  \/ \E m \in Messages : Receive(m) \/ SelectMessage(m)
  \/ LoadOlder \/ PageMounted
  \/ LeaveChat \/ EnterChat \/ TranscriptMounted \/ Reload
  \/ \E c \in Chans : SwitchChannel(c)

WindowSpec == WindowInit /\ [][WindowNext]_windowVars

-----------------------------------------------------------------------------
Targets == Limit..(Limit + Cardinality(Messages))

(* Types of the window's state.                                            *)
WindowTypeOK ==
  /\ stored \subseteq Messages /\ entries \in [Chans -> SUBSET Messages]
  /\ state \in [Chans -> [older : BOOLEAN, target : Targets, loaded : BOOLEAN]]
  /\ mine \in [older : BOOLEAN, target : Targets]
  /\ at \in Chans /\ {visible, raced, crossed, mixed} \subseteq BOOLEAN
  /\ {moves, mounting} \subseteq 0..MaxMoves
  /\ UNION {fresh, unread, unseen} \subseteq Messages
  /\ count \in [Chans -> Nat]
  /\ page \in [chan : Chans \cup {0}, older : BOOLEAN]

Rest(c) == {m \in stored : ChanOf[m] = c} \ entries[c]
Older(c) == IF c = at THEN mine.older ELSE state[c].older

(* No message is lost from view: a loaded window has every row from its    *)
(* oldest on, whatever order messages came in and whatever was trimmed,    *)
(* and as long as rows remain before it, LOAD OLDER offers them (unless a  *)
(* page met an older message).  A page that meets another channel leaves   *)
(* its end of history there, and no more is promised.                      *)
NothingIsHidden ==
  \A c \in Chans : state[c].loaded /\ ~crossed =>
    /\ \A m \in Rest(c) : entries[c] # {} /\ m < Min(entries[c])
    /\ ~raced /\ Rest(c) # {} => Older(c)

(* CHAT (N) counts each message that came while its channel was not shown, *)
(* once, until it is read or the channel is shown with its transcript in   *)
(* place, whichever of them the window has lost meanwhile, or pages have   *)
(* brought back.  A reconnect forgets them, and they are not counted       *)
(* again.  (A page read while a switch is at its awaits may bring back     *)
(* what is marked unread but was counted long ago.)                        *)
UnreadIsCounted ==
  ~mixed => \A c \in Chans : count[c] = Cardinality({m \in unseen : ChanOf[m] = c})

=============================================================================
