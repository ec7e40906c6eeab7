----------------------------- MODULE MCMigrations ----------------------------
EXTENDS Migrations

Database(schema, rating, delta) ==
    [db |-> [schema |-> schema, versions |-> {}, rating |-> rating, delta |-> delta],
     earned |-> rating]

\* The legacy schema of the tests.
Legacy == {"room_states", "player_stats"}

\* A new file; the legacy one; legacy ones whose columns were added by hand.
MCDatabases ==
    {Database({}, 0, 0), Database(Legacy, 2, 0), Database(Legacy, 0, 0),
     Database(Legacy \cup {"spectator_history", "previous_state", "matches"}, 2, 0),
     Database(Legacy \cup RoomColumns \cup {"rating_delta"}, 2, 0),
     Database(Legacy \cup RoomColumns \cup PlayerColumns \cup {"last_result_at"}, 2, 2)}
==============================================================================
