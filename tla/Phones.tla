------------------------------- MODULE Phones -------------------------------
(***************************************************************************)
(* The room and the phones that follow it without a connection: a phone    *)
(* keeps the room's last state and runs its own copy of the timeline.      *)
(***************************************************************************)
EXTENDS Room

\* A phone that knows the room's state and the catalog.
Phone == INSTANCE ClientTimeline

\* "the client runs exactly the same algorithm": a phone that follows its own
\* copy of the timeline, however long it hears nothing, is where the server is,
\* and its player is told so.
PhonesAgree ==
    \A later \in now..(MaxTime + 1) :
        LET phone == Phone!Normalize(st, later, catalog)
            server == Normalize(st, later, catalog)
        IN  /\ phone = server
            /\ Phone!Target(phone, later).positionMs = PositionAt(server.playback, later)

\* What a phone fetches ahead is what then plays: the track after the current
\* one is the first of the upcoming ones, and without any playback stops.  The
\* download list has it before all others, unless it plays already.
PrefetchComesTrue ==
    LET end == Phone!EndsAt(st.playback)
        next == Normalize(st, end, catalog).playback
        ahead == Phone!Upcoming(st, 2, catalog)
        fetched == Phone!PrefetchList(st, 2, catalog)
    IN  end >= now =>
            IF ahead = <<>> THEN ~next.playing
            ELSE /\ next.trackID = ahead[1]
                 /\ next.trackID # st.playback.trackID
                    => fetched # <<>> /\ fetched[1] = next.trackID
=============================================================================
