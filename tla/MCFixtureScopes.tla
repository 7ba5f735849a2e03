-------------------------- MODULE MCFixtureScopes --------------------------
(***************************************************************************)
(* The decorator stacks of the suite, as FixtureScopes layers.             *)
(***************************************************************************)
EXTENDS FixtureScopes

Auth == [kind |-> "authenticate", colls |-> <<>>]
Clean(s) == [kind |-> "clean_collections_after", colls |-> s]
Insert(c) == [kind |-> "insert_collection_data", colls |-> <<c>>]

TridentCollections == {"multicasts", "devices", "zones", "transmissions", "fleets"}

\* test_multicast_messages.py, test_broadcast_message_to_a_vessel_geofence_upload:
\* @authenticate, @clean_collections_after('multicasts', 'devices'),
\* @insert_collection_data('zones', ...), @insert_collection_data('transmissions', ...).
MulticastStack ==
    <<Auth, Clean(<<"multicasts", "devices">>), Insert("zones"), Insert("transmissions")>>
MulticastWrites == {"devices", "multicasts", "transmissions"}

\* test_get_fleet_data.py (lines 11-14 and others): @clean_collections_after('fleets'),
\* @insert_collection_data('fleets', ...), @authenticate.
FleetStack == <<Clean(<<"fleets">>), Insert("fleets"), Auth>>
FleetWrites == {"fleets"}
=============================================================================
