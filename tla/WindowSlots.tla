---------------------------- MODULE WindowSlots ----------------------------
(***************************************************************************)
(* The slots of the main window and of the panes that start a worker: which*)
(* worker, what they do when it succeeds or ends, and whether the slot of  *)
(* the answer gives the place back (_discard_worker) or leaves it to       *)
(* finished.  Early returns (no configuration, dialog rejected) start none.*)
(***************************************************************************)
EXTENDS Workers

Slot(workers, again, frees) ==
    {[steps |-> w.steps, valid |-> w.valid, tells |-> w.tells, finishes |-> w.finishes,
      again |-> again, frees |-> frees] : w \in workers}
ThenRefresh(workers) == Slot(workers, "success", TRUE)      \* and the place at once
RefreshOnly(workers) == Slot(workers, "success", FALSE)     \* the place with finished
ShowOnly(workers) == Slot(workers, "never", FALSE)
ShowAndFree(workers) == Slot(workers, "never", TRUE)
----------------------------------------------------------------------------
(* ui/mainwindow.py                                                         *)
_check_version == ShowOnly(VersionCheckWorker)
_on_vm_create_requested == ThenRefresh(CreateVmWorker)
_run_storage_config_worker(workers) == ThenRefresh(workers)
_on_storage_create == _run_storage_config_worker(StorageConfigSaveWorker)
_on_storage_edit == ShowAndFree(StorageConfigListWorker)
                        \cup _run_storage_config_worker(StorageConfigSaveWorker)
_on_storage_delete == _run_storage_config_worker(StorageConfigDeleteWorker)
_on_cluster_join == ThenRefresh(ClusterJoinWorker)
_on_cluster_create == ThenRefresh(ClusterCreateWorker)
_on_vm_delete_requested == ThenRefresh(DeleteVmWorker)
_on_vm_action_from_tree == RefreshOnly(VmActionWorker)
_on_bulk_vm_action == Slot(BulkVmActionWorker, "finished", FALSE)
_on_console_from_tree == ShowOnly(VmConsoleWorker)
_on_novnc_from_tree == ShowOnly(NoVncWorker)
_on_vm_migrate == RefreshOnly(MigrateVmWorker)
_on_vm_clone == RefreshOnly(CloneVmWorker)
_on_vm_clone_from_template == _on_vm_clone
_on_vm_convert == RefreshOnly(ConvertToTemplateWorker) \cup RefreshOnly(ConvertToVmWorker)
_on_vm_ha_add == ShowOnly(HaResourceAddWorker)
_on_vm_ha_remove == ShowOnly(HaResourceDeleteWorker)
refresh_cluster_tasks == ShowAndFree(ClusterTasksWorker)

(* ui/detail_panel/_vm_tabs.py: the tab is loaded again.                    *)
on_vm_action == ThenRefresh(VmActionWorker)
on_vm_console == ShowAndFree(VmConsoleWorker)
on_vm_novnc == ShowAndFree(NoVncWorker)
on_vm_config_change_requested == ThenRefresh(VmConfigUpdateWorker)
_destroy_disk_after_remove == ShowAndFree(StorageContentDeleteWorker)
_on_remove_with_destroy == ThenRefresh(VmConfigUpdateWorker) \cup _destroy_disk_after_remove
on_disk_resize == ThenRefresh(VmDiskResizeWorker)
on_disk_move == ThenRefresh(VmDiskMoveWorker)
on_snapshot_create == ThenRefresh(VmSnapshotCreateWorker)
on_snapshot_delete == ThenRefresh(VmSnapshotDeleteWorker)
on_snapshot_rollback == ThenRefresh(VmSnapshotRollbackWorker)
on_vm_backup == ThenRefresh(VzdumpWorker)
on_vm_restore == ShowAndFree(VmRestoreWorker)

(* ui/detail_panel/_storage_tabs.py                                         *)
_restore_storage_backup == ShowAndFree(VmRestoreWorker)
_delete_storage_backup == ThenRefresh(StorageContentDeleteWorker)
_on_upload == ThenRefresh(StorageUploadWorker)
_on_download_url == ThenRefresh(StorageDownloadUrlWorker)
_on_move == ThenRefresh(StorageMoveWorker)
_on_remove_file == ThenRefresh(StorageContentDeleteWorker)

(* ui/detail_panel/_host_tabs.py                                            *)
_on_network_add == ThenRefresh(NetworkCreateWorker)
_on_network_edit == ThenRefresh(NetworkUpdateWorker)
_on_network_delete == ThenRefresh(NetworkDeleteWorker)
_on_network_apply == ThenRefresh(NetworkApplyWorker)
_on_network_revert == ThenRefresh(NetworkRevertWorker)
_on_add_backup_job == ThenRefresh(ClusterJobCreateWorker)
_on_edit_backup_job == ThenRefresh(ClusterJobUpdateWorker)
_on_remove_backup_job == ThenRefresh(ClusterJobDeleteWorker)
_on_add_access_user == ThenRefresh(AccessUserCreateWorker)
_on_edit_access_user == ThenRefresh(AccessUserUpdateWorker)
_on_remove_access_user == ThenRefresh(AccessUserDeleteWorker)
_on_add_access_token == ThenRefresh(AccessTokenCreateWorker)
_on_edit_access_token == ThenRefresh(AccessTokenUpdateWorker)
_on_remove_access_token == ThenRefresh(AccessTokenDeleteWorker)
_on_add_access_group == ThenRefresh(AccessGroupCreateWorker)
_on_edit_access_group == ThenRefresh(AccessGroupUpdateWorker)
_on_remove_access_group == ThenRefresh(AccessGroupDeleteWorker)
_on_add_access_role == ThenRefresh(AccessRoleCreateWorker)
_on_edit_access_role == ThenRefresh(AccessRoleUpdateWorker)
_on_remove_access_role == ThenRefresh(AccessRoleDeleteWorker)
_on_add_access_acl == ThenRefresh(AccessAclUpdateWorker)
_on_remove_access_acl == ThenRefresh(AccessAclUpdateWorker)
_on_ha_add_resource == ThenRefresh(HaResourceAddWorker)
_on_ha_remove_resource == ThenRefresh(HaResourceDeleteWorker)

(* ui/pbs_panel.py, whose set of workers nobody clears, and the dialogs.    *)
_on_worker_done == RefreshOnly(PbsApiWorker) \cup ShowOnly(PbsApiWorker)
_on_auth == ShowOnly(TokenCreationWorker)

(* What reads for a pane: its answer is shown.                              *)
Reads == ShowAndFree(UNION {
    VmDetailWorker, VmConfigWorker, VmTaskHistoryWorker, VmSnapshotsWorker, MetricsWorker,
    HaResourcesWorker, ClusterStatusWorker, ClusterJobsWorker, AccessUsersWorker,
    AccessTokensWorker, AccessGroupsWorker, AccessRolesWorker, AccessAclWorker,
    StorageMetricsWorker, StorageContentListWorker, StorageBackupWorker, StorageDisksWorker,
    HostNetworkWorker, HostServicesWorker, HostDisksWorker, HostSnapshotsWorker,
    HostMetricsWorker, HealthCheckWorker})
----------------------------------------------------------------------------
MainWindow == UNION {
    _check_version, _on_vm_create_requested, _on_storage_create, _on_storage_edit,
    _on_storage_delete, _on_cluster_join, _on_cluster_create, _on_vm_delete_requested,
    _on_vm_action_from_tree, _on_bulk_vm_action, _on_console_from_tree, _on_novnc_from_tree,
    _on_vm_migrate, _on_vm_clone, _on_vm_clone_from_template, _on_vm_convert, _on_vm_ha_add,
    _on_vm_ha_remove, refresh_cluster_tasks}
VmTabs == UNION {
    on_vm_action, on_vm_console, on_vm_novnc, on_vm_config_change_requested,
    _on_remove_with_destroy, on_disk_resize, on_disk_move, on_snapshot_create,
    on_snapshot_delete, on_snapshot_rollback, on_vm_backup, on_vm_restore}
StorageTabs == UNION {
    _restore_storage_backup, _delete_storage_backup, _on_upload, _on_download_url, _on_move,
    _on_remove_file}
HostTabs == UNION {
    _on_network_add, _on_network_edit, _on_network_delete, _on_network_apply,
    _on_network_revert, _on_add_backup_job, _on_edit_backup_job, _on_remove_backup_job,
    _on_add_access_user, _on_edit_access_user, _on_remove_access_user, _on_add_access_token,
    _on_edit_access_token, _on_remove_access_token, _on_add_access_group,
    _on_edit_access_group, _on_remove_access_group, _on_add_access_role,
    _on_edit_access_role, _on_remove_access_role, _on_add_access_acl, _on_remove_access_acl,
    _on_ha_add_resource, _on_ha_remove_resource}
AllJobs == UNION {MainWindow, VmTabs, StorageTabs, HostTabs, _on_worker_done, _on_auth, Reads}
=============================================================================
