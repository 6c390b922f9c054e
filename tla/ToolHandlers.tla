------------------------------ MODULE ToolHandlers ------------------------------
(* The handlers of the tools that write to a RouterOS menu (src/domain/tools), *)
(* each as the sequence of steps its code takes for an action, in the order of *)
(* the code.  A step is a check, which may end the call with an answer, or a   *)
(* request to the router, written here with the name ManageTools gives it:     *)
(*   find*           read the menu and keep the records of the call's key      *)
(*   arguments ...   refuse what the schema lets through but the action needs, *)
(*                   or (named) what the router does not take                  *)
(*   exists, same*   answer "already exists" for a record that is found        *)
(*   conflict        refuse to change a record that is found                   *)
(*   gone, missing   nothing is found: an answer, or an error                  *)
(*   switched, un*   the record already is what the call asks for              *)
(*   preview         the answer of a dry run                                   *)
(*   create, update, switch, remove, execute    the request that writes        *)
(* The tools' own names for an action are reduced to these: "add" also stands  *)
(* for create, "switchOn/Off" for enable/disable, start/stop, trust/untrust    *)
(* and make-static, "update" for set-password, "set" for the update of a       *)
(* settings menu with one record.                                              *)

EXTENDS TLC, Sequences

Removal(nothing) == <<"find", nothing, "preview", "remove">>
Toggle           == <<"find", "missing", "preview", "switch">>
CheckedToggle    == <<"find", "missing", "switched", "preview", "switch">>
Settings         == [set |-> <<"find", "unchanged", "preview", "update">>]
Both(program)    == [switchOn |-> program, switchOff |-> program]

(* An add that compares nothing: whatever has the key counts as the record.    *)
PlainAdd == [add |-> <<"find", "exists", "preview", "create">>]
(* An add that compares: arguments before the comparison, or after it.         *)
CheckedAdd == [add |-> <<"find", "arguments", "same", "conflict", "preview", "create">>]
LateCheckedAdd == [add |-> <<"find", "same", "conflict", "arguments", "preview", "create">>]
StateAdd == [add |-> <<"find", "sameState", "conflict", "preview", "create">>]

manage_address_list_entry == PlainAdd @@ [remove |-> Removal("gone")]
manage_interface_list     == PlainAdd @@ [remove |-> Removal("gone")]
manage_interface_list_member == PlainAdd @@ [remove |-> Removal("gone")]
manage_routing_table      == PlainAdd @@ [remove |-> Removal("gone")]
manage_bridge_port        == PlainAdd @@ [remove |-> Removal("missing")]
manage_bridge             == [add    |-> <<"find", "named", "exists", "preview", "create">>,
                              remove |-> Removal("missing")]
manage_dhcp_client        == PlainAdd @@ Both(Toggle) @@ [remove |-> Removal("gone")]
manage_log_rule           == PlainAdd @@ Both(Toggle) @@ [remove |-> Removal("gone")]
manage_wireguard_interface == PlainAdd @@ Both(Toggle) @@ [remove |-> Removal("gone")]
manage_ipsec_policy       == [add    |-> <<"find", "exists", "arguments", "preview", "create">>,
                              remove |-> Removal("gone")] @@ Both(Toggle)
manage_log_action         == [add    |-> <<"find", "arguments", "exists", "preview", "create">>,
                              remove |-> Removal("gone")]

manage_ip_pool            == CheckedAdd @@ [remove |-> Removal("gone")]
manage_dhcp_server_add    == CheckedAdd
manage_dhcp_server        == manage_dhcp_server_add @@ Both(Toggle) @@ [remove |-> Removal("gone")]
manage_vrrp_instance_add  == CheckedAdd
manage_vrrp_instance      == manage_vrrp_instance_add @@ Both(Toggle) @@ [remove |-> Removal("gone")]
manage_vlan_add           == [add |-> <<"find", "named", "arguments", "same", "conflict",
                                        "preview", "create">>]
manage_vlan               == manage_vlan_add @@ Both(Toggle) @@ [remove |-> Removal("gone")]
manage_container_env      == LateCheckedAdd @@ [remove |-> Removal("gone")]
manage_container_mount    == LateCheckedAdd @@ [remove |-> Removal("gone")]
manage_queue              == LateCheckedAdd @@ Both(Toggle) @@ [remove |-> Removal("gone")]
manage_ipsec_peer         == LateCheckedAdd @@ Both(Toggle) @@ [remove |-> Removal("gone")]

(* A wireguard peer's or a group's field that is not given matches anything.   *)
manage_wireguard_peer == [add    |-> <<"find", "sameGiven", "conflict", "preview", "create">>,
                          remove |-> Removal("missing")]
manage_user_group_add == [add    |-> <<"find", "sameGiven", "conflict", "preview", "create">>]
(* The update of a group compares the policy only, and looks for something to  *)
(* change after the dry run's answer.                                          *)
manage_user_group == manage_user_group_add @@
  [update |-> <<"find", "missing", "unchangedMain", "preview", "empty", "update">>,
   remove |-> Removal("gone")]

(* A route of any table is looked at when the call names none.                 *)
manage_route_add == [add |-> <<"findTable", "sameState", "conflict", "preview", "create">>]
manage_route     == manage_route_add @@
  [remove |-> <<"findTable", "missing", "preview", "remove">>]
manage_ip_address_add == StateAdd
manage_ip_address == manage_ip_address_add @@
  [update |-> <<"find", "missing", "unchangedState", "preview", "update">>,
   remove |-> Removal("missing")]

(* Rules are found by their comment; a filter or NAT rule need not have one.   *)
manage_firewall_rule_add ==
  [add |-> <<"arguments", "find", "sameState", "conflict", "preview", "create">>]
manage_firewall_rule == manage_firewall_rule_add @@
  Both(<<"keyed", "find", "missing", "switched", "preview", "switch">>) @@
  [remove |-> <<"keyed", "find", "missing", "preview", "remove">>]
manage_mangle_rule_add ==
  [add |-> <<"arguments", "find", "same", "conflict", "preview", "create">>]
manage_mangle_rule == manage_mangle_rule_add @@
  Both(<<"addOnly">> \o CheckedToggle) @@ [remove |-> <<"addOnly">> \o Removal("gone")]
manage_routing_rule_add ==
  [add |-> <<"named", "find", "keyed", "sameGiven", "conflict", "preview", "create">>]
manage_routing_rule == manage_routing_rule_add @@
  Both(<<"addOnly">> \o CheckedToggle) @@ [remove |-> <<"addOnly">> \o Removal("gone")]

(* A DNS name may have several records, a watched host several ports.          *)
manage_dns_entry_add ==
  [add |-> <<"arguments", "find", "sameAny", "conflict", "preview", "create">>]
manage_dns_entry == manage_dns_entry_add @@
  [remove |-> <<"findValue", "missing", "ambiguous", "preview", "remove">>]
manage_netwatch_entry_add ==
  [add |-> <<"find", "samePort", "otherPort", "preview", "create">>]
manage_netwatch_entry == manage_netwatch_entry_add @@ Both(Toggle) @@
  [remove |-> Removal("gone")]

manage_ppp_profile_add == PlainAdd
manage_ppp_profile == manage_ppp_profile_add @@
  [update |-> <<"find", "missing", "unchanged", "preview", "update">>,
   remove |-> Removal("gone")]
(* A password that is given always counts as a change.                         *)
ClientUpdate == [update |-> <<"find", "missing", "unchangedNoSecret", "preview", "update">>]
manage_ovpn_client_add  == CheckedAdd
manage_ovpn_client      == manage_ovpn_client_add @@ ClientUpdate @@ [remove |-> Removal("gone")]
manage_pppoe_client_add == CheckedAdd
manage_pppoe_client     == manage_pppoe_client_add @@ ClientUpdate @@ [remove |-> Removal("gone")]

(* An add that takes any record of the name for a conflict.                    *)
StrictAdd == [add |-> <<"find", "arguments", "conflict", "preview", "create">>]
BlindUpdate == [update |-> <<"find", "missing", "preview", "update">>]
manage_script_add        == StrictAdd
manage_script            == manage_script_add @@ BlindUpdate @@ [remove |-> Removal("gone")]
manage_scheduled_job_add == StrictAdd
manage_scheduled_job     == manage_scheduled_job_add @@ BlindUpdate @@ Both(CheckedToggle) @@
                            [remove |-> Removal("gone")]
manage_container_add     == StrictAdd
manage_container         == manage_container_add @@ Both(CheckedToggle) @@
                            [remove |-> Removal("missing")]
manage_user_add == [add |-> <<"arguments", "secret", "find", "same", "conflict",
                              "preview", "create">>]
manage_user     == manage_user_add @@ Both(Toggle) @@
  [update |-> <<"secret", "find", "missing", "preview", "update">>,
   remove |-> Removal("gone")]

(* Menus whose records the router makes.                                       *)
manage_dhcp_lease   == [switchOn |-> CheckedToggle, remove |-> Removal("gone")]
manage_certificate  == Both(CheckedToggle) @@ [remove |-> Removal("missing")]
manage_ip_service   == Both(CheckedToggle)
manage_package      == Both(CheckedToggle)
manage_wifi_interface == [update |-> <<"given", "find", "missing", "unchanged", "preview", "update">>]
delete_file         == [remove |-> Removal("gone")]

(* Settings menus: one record, of which only what differs is written.          *)
manage_container_config == Settings
manage_dns_settings     == Settings
manage_ntp_client       == Settings
(* The clock's time moves on while nobody writes it.                           *)
set_system_clock        == [set |-> <<"find", "unchangedNow", "preview", "update">>]
manage_ovpn_server_instance == <<"find", "missing", "ambiguous">>
manage_ovpn_server_switch   == Both(manage_ovpn_server_instance \o <<"switched", "preview", "switch">>)
manage_ovpn_server == manage_ovpn_server_switch @@
  [set |-> manage_ovpn_server_instance \o <<"given", "unchanged", "preview", "update">>]

(* Commands: the router is told to do something; no record is compared.        *)
run_script     == [run |-> <<"find", "missing", "execute">>]
manage_upgrade == [run |-> <<"preview", "execute">>]
create_backup  == [run |-> <<"arguments", "preview", "execute">>]
(* A reboot first removes the job of an earlier one; with a delay it makes a   *)
(* job of its own.                                                             *)
reboot         == [run |-> <<"preview", "find", "clear", "execute">>,
                   add |-> <<"preview", "find", "clear", "create">>]

(* The handlers whose annotation says idempotentHint: true.                    *)
IdempotentTools ==
  {manage_address_list_entry, manage_interface_list, manage_interface_list_member,
   manage_routing_table, manage_bridge_port, manage_bridge, manage_dhcp_client,
   manage_log_rule, manage_wireguard_interface, manage_ipsec_policy, manage_log_action,
   manage_ip_pool, manage_dhcp_server, manage_vrrp_instance, manage_vlan,
   manage_container_env, manage_container_mount, manage_queue, manage_ipsec_peer,
   manage_wireguard_peer, manage_user_group, manage_route, manage_ip_address,
   manage_firewall_rule, manage_mangle_rule, manage_routing_rule, manage_dns_entry,
   manage_netwatch_entry, manage_ppp_profile, manage_ovpn_client, manage_pppoe_client,
   manage_script, manage_scheduled_job, manage_container, manage_user, manage_dhcp_lease,
   manage_ip_service, manage_package, manage_wifi_interface, delete_file,
   manage_container_config, manage_dns_settings, manage_ntp_client, set_system_clock,
   manage_ovpn_server}
OtherTools == {manage_certificate, run_script, manage_upgrade, create_backup, reboot}
==================================================================================
