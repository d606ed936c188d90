------------------------------ MODULE Workers ------------------------------
(***************************************************************************)
(* The workers of virtdeck/backend, ui/api/metrics.py and pbs/workers.py:  *)
(* for each class the programs its run() can be, over its arguments.  What *)
(* it means to run one is in module Operation.                             *)
(***************************************************************************)
EXTENDS ProviderApi, Naturals, Sequences

Make(does, on, skip) == [does |-> does, on |-> on, skip |-> skip]
Must(call) == Make(call, "must", 0)       \* an exception ends the worker
Await(call) == Make(call, "await", 0)     \* _await_task on its result
Try(call) == Make(call, "try", 0)         \* except: pass
Else(call) == Make(call, "try", 1)        \* an exception leads to the next one
Item(call) == Make(call, "item", 0)
May(step) == {<<>>, <<step>>}             \* only with certain arguments
One(step) == {<<step>>}

Made(steps, tells) ==
    [steps |-> steps, valid |-> TRUE, tells |-> tells, finishes |-> TRUE]
Class(programs) == {Made(p, {"success", "failure"}) : p \in programs}
----------------------------------------------------------------------------
(* backend/vmops.py                                                         *)
CreateVmWorker ==
    Class({vmid \o <<Await(VmAPI.create_qemu)>> \o ha :
             vmid \in May(Must(ClusterAPI.next_vmid)), ha \in May(Try(ClusterAPI.add_ha_resource))})
DeleteVmWorker == Class(One(Await(VmAPI.delete)))
(* A container is refused before the try: no finished.                      *)
MigrateVmWorker ==
    Class(One(Must(VmAPI.migrate))) \cup
    {[m EXCEPT !.valid = FALSE, !.finishes = FALSE] : m \in Class(One(Must(VmAPI.migrate)))}
CloneVmWorker ==
    Class({vmid \o <<Await(VmAPI.clone)>> : vmid \in May(Must(ClusterAPI.next_vmid))})
ConvertToTemplateWorker == Class(One(Await(VmAPI.convert_to_template)))
ConvertToVmWorker == Class(One(Await(VmAPI.post_config)))
VmRestoreWorker == Class(One(Await(VmAPI.create_lxc)) \cup One(Await(VmAPI.create_qemu)))

(* backend/vm.py                                                            *)
VmDetailWorker == Class(One(Must(VmAPI.get_status)))
VmConfigWorker == Class(One(Must(VmAPI.get_config)))
VmConfigUpdateWorker == Class(One(Must(VmAPI.update_config)))
VmDiskResizeWorker == Class(One(Must(VmAPI.resize_disk)))
VmDiskMoveWorker == Class(One(Must(VmAPI.move_disk)))
VmTaskHistoryWorker == Class(One(Must(TaskAPI.list_for_vm)))
VmSnapshotsWorker ==
    Class({<<Must(VmAPI.list_snapshots)>> \o sizes : sizes \in May(Try(VmAPI.get_snapshot_config))})
VmActionWorker == Class(One(Must(VmAPI.perform_action)))
(* Counted by vm_done, no answer but finished; here with two targets.       *)
BulkVmActionWorker == {Made(<<Item(VmAPI.perform_action), Item(VmAPI.perform_action)>>, {})}
VmSnapshotCreateWorker == Class(One(Await(VmAPI.create_snapshot)))
VmSnapshotDeleteWorker == Class(One(Await(VmAPI.delete_snapshot)))
VmSnapshotRollbackWorker == Class(One(Await(VmAPI.rollback_snapshot)))

(* backend/storage.py                                                       *)
StorageContentDeleteWorker == Class(One(Await(StorageAPI.delete_content)))
StorageUploadWorker == Class(One(Await(StorageAPI.upload_file)))
StorageDownloadUrlWorker == Class(One(Await(StorageAPI.download_url)))
StorageMoveWorker == Class(One(Await(StorageAPI.move_content)))
VzdumpWorker == Class(One(Await(NodeAPI.backup_vzdump)))
StorageConfigListWorker == Class(One(Must(ClusterAPI.list_storage_configs)))
StorageConfigSaveWorker ==
    Class(One(Await(ClusterAPI.update_storage)) \cup One(Await(ClusterAPI.create_storage)))
StorageConfigDeleteWorker == Class(One(Await(ClusterAPI.delete_storage)))

(* backend/ha.py, backend/network.py                                        *)
HaResourcesWorker == Class(One(Must(ClusterAPI.list_ha_resources)))
HaResourceAddWorker == Class(One(Must(ClusterAPI.add_ha_resource)))
HaResourceDeleteWorker == Class(One(Must(ClusterAPI.delete_ha_resource)))
NetworkCreateWorker == Class(One(Must(NodeAPI.create_network)))
NetworkUpdateWorker == Class(One(Must(NodeAPI.update_network)))
NetworkDeleteWorker == Class(One(Must(NodeAPI.delete_network)))
NetworkApplyWorker == Class(One(Must(NodeAPI.apply_network)))
NetworkRevertWorker == Class(One(Must(NodeAPI.revert_network)))

(* backend/cluster.py; of the tasks' threads, that they fail one by one.    *)
ClusterTasksWorker == Class({<<Try(TaskAPI.list), Try(TaskAPI.list)>>})
ClusterStatusWorker ==
    Class({<<Must(ClusterAPI.get_status), Try(ClusterAPI.get_config_nodes)>>})

(* With PVE 8 /cluster/jobs first, and /cluster/backup on any exception.    *)
OnJobsOrBackup(call) == {first \o <<Must(call)>> : first \in May(Else(call))}
list_all_jobs == OnJobsOrBackup(ClusterAPI.list_backup_jobs)
create_backup_job == OnJobsOrBackup("change")
update_backup_job == OnJobsOrBackup("change")
delete_backup_job == OnJobsOrBackup("change")
ClusterJobsWorker == Class(list_all_jobs)
ClusterJobCreateWorker == Class(create_backup_job)
ClusterJobUpdateWorker == Class(update_backup_job)
ClusterJobDeleteWorker == Class(delete_backup_job)
ClusterJoinWorker == Class(One(Must(ClusterAPI.join_cluster)))
ClusterCreateWorker == Class(One(Must(ClusterAPI.create_cluster)))

(* backend/access.py                                                        *)
AccessUsersWorker == Class(One(Must(AccessAPI.list_users)))
AccessUserCreateWorker == Class(One(Must(AccessAPI.create_user)))
AccessUserUpdateWorker == Class(One(Must(AccessAPI.update_user)))
AccessUserDeleteWorker == Class(One(Must(AccessAPI.delete_user)))
AccessTokensWorker == Class(One(Must(AccessAPI.list_tokens)))
AccessTokenCreateWorker == Class(One(Must(AccessAPI.create_token)))
AccessTokenUpdateWorker == Class(One(Must(AccessAPI.update_token)))
AccessTokenDeleteWorker == Class(One(Must(AccessAPI.delete_token)))
AccessGroupsWorker == Class(One(Must(AccessAPI.list_groups)))
AccessGroupCreateWorker == Class(One(Must(AccessAPI.create_group)))
AccessGroupUpdateWorker == Class(One(Must(AccessAPI.update_group)))
AccessGroupDeleteWorker == Class(One(Must(AccessAPI.delete_group)))
AccessRolesWorker == Class(One(Must(AccessAPI.list_roles)))
AccessRoleCreateWorker == Class(One(Must(AccessAPI.create_role)))
AccessRoleUpdateWorker == Class(One(Must(AccessAPI.update_role)))
AccessRoleDeleteWorker == Class(One(Must(AccessAPI.delete_role)))
AccessAclWorker == Class(One(Must(AccessAPI.list_acl)))
AccessAclUpdateWorker == Class(One(Must(AccessAPI.update_acl)))

(* backend/tokens.py: a ticket, the token by POST or, refused with an HTTP  *)
(* status, by PUT; a test of it, whose status counts but no exception; the  *)
(* name of the cluster.                                                     *)
create_admin_token ==
    {<<Must(Http.get)>> \o made \o <<test, Try(Http.get)>> :
        made \in {<<Must(Http.post)>>, <<Else(Http.post), Must(Http.put)>>},
        test \in {Must(Http.get), Try(Http.get)}}
TokenCreationWorker == Class(create_admin_token)

(* backend/console.py: SPICE, or VNC when the VM has none; then the file    *)
(* for the viewer and the viewer.  backend/version.py: silent on a failure. *)
VmConsoleWorker ==
    Class({proxy \o <<Must(Local.write_file), Must(Local.remote_viewer)>> :
             proxy \in {<<Must(VmAPI.get_spice_proxy)>>, <<Must(VmAPI.get_vnc_proxy)>>,
                       <<Else(VmAPI.get_spice_proxy), Must(VmAPI.get_vnc_proxy)>>}})
NoVncWorker == Class({<<Must(VmAPI.get_vnc_proxy), Must(VmAPI.get_vnc_websocket)>>})
VersionCheckWorker == {Made(<<Must(Http.get)>>, tells) : tells \in {{}, {"success"}}}

(* ui/api/metrics.py                                                        *)
StorageMetricsWorker == Class(One(Must(RrdAPI.get_storage_rrddata)))
HostMetricsWorker == Class(One(Must(RrdAPI.get_node_rrddata)))
MetricsWorker == Class(One(Must(RrdAPI.get_vm_rrddata)))
StorageContentListWorker == Class(One(Must(Http.get)))
StorageBackupWorker == Class(One(Must(Http.get)))
HostNetworkWorker == Class(One(Must(Http.get)))
HostServicesWorker == Class(One(Must(Http.get)))
HostDisksWorker == Class(One(Must(Http.get)))
HostSnapshotsWorker == Class({<<Try(Http.get), Try(Http.get)>>})
StorageDisksWorker == Class({<<Try(Http.get), Try(Http.get)>>})
HealthCheckWorker == Class({<<Try(Http.get), Try(Http.get), Try(Http.get)>>})

(* pbs: one method per worker; a login first, and after a 401 once more.    *)
_request(call) == {<<Must(PbsClient.login), Must(call)>>,
                   <<Must(PbsClient.login), Make(call, "again", 2), Must(PbsClient.login), Must(call)>>}
PbsProvider ==
    _request(PbsClient.namespaces) \cup _request(PbsClient.snapshots)
        \cup _request(PbsClient.run_job) \cup _request(PbsClient.verify_datastore)
        \cup _request(PbsClient.forget_snapshot)
        \cup {p \o <<Try(PbsClient.datastore_status)>> : p \in _request(PbsClient.datastores)}
        \cup {<<Try(PbsClient.login), Try(PbsClient.jobs)>>}
PbsApiWorker == {[w EXCEPT !.finishes = FALSE] : w \in Class(PbsProvider)}
=============================================================================
